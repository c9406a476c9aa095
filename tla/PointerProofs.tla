--------------------------- MODULE PointerProofs ---------------------------
(***************************************************************************)
(* What points to what, for any number of nodes, references and masters.   *)
(*                                                                         *)
(* First the lists of LinkedList and the references of LinkedRef, for      *)
(* callers that keep to CarefulRefSpec: a list is a chain, along which a   *)
(* rank goes upwards, and the references are a circle.  Then shared_ptr,   *)
(* which counts: what SharedPtr promises callers that do not copy a layer3 *)
(* pointer whose master was reset.                                         *)
(***************************************************************************)
EXTENDS SharedPtr, LinkedRef, FiniteSetTheorems, WellFoundedInduction, TLAPS

\* A set of natural numbers that is not empty has a least element.
LEMMA Least ==
    ASSUME NEW S \in SUBSET Nat, S # {}
    PROVE  \E n \in S : \A m \in S : n <= m
  <1>1. PICK n \in S : \A m \in S : <<m, n>> \notin OpToRel(<, Nat)
    BY NatLessThanWellFounded, WFMin
  <1>2. \A m \in S : ~(m < n)
    BY <1>1 DEF OpToRel
  <1>. QED  BY <1>2

-----------------------------------------------------------------------------
(* Iterating a function, n times and for ever.                             *)

Turns(S, f, x, n) ==
    {g \in [0..n -> S] : g[0] = x /\ \A k \in 0..n-1 : g[k + 1] = f[g[k]]}

Forever(S, f, x) == {g \in [Nat -> S] : g[0] = x /\ \A k \in Nat : g[k + 1] = f[g[k]]}

LEMMA TurnsExist ==
    ASSUME NEW S, NEW f \in [S -> S], NEW x \in S, NEW n \in Nat
    PROVE  Turns(S, f, x, n) # {}
  <1> DEFINE Bad == {k \in Nat : Turns(S, f, x, k) = {}}
  <1>1. SUFFICES ASSUME Bad # {} PROVE FALSE
    OBVIOUS
  <1>2. PICK k \in Bad : \A j \in Bad : k <= j
    <2>1. Bad \in SUBSET Nat
      OBVIOUS
    <2>. QED  BY <1>1, <2>1, Least
  <1>3. CASE k = 0
    <2>1. [j \in 0..0 |-> x] \in Turns(S, f, x, 0)
      BY DEF Turns
    <2>. QED  BY <1>2, <1>3, <2>1
  <1>4. CASE k # 0
    <2>1. k - 1 \in Nat /\ k - 1 \notin Bad
      BY <1>2, <1>4
    <2>2. PICK g : g \in Turns(S, f, x, k - 1)
      BY <2>1
    <2> DEFINE h == [j \in 0..k |-> IF j = k THEN f[g[k - 1]] ELSE g[j]]
    <2>3. /\ g \in [0..k-1 -> S] /\ g[0] = x
          /\ \A j \in 0..(k-1)-1 : g[j + 1] = f[g[j]]
      BY <2>2 DEF Turns
    <2>4. h \in [0..k -> S] /\ h[0] = x
      BY <1>4, <2>1, <2>3
    <2>5. ASSUME NEW j \in 0..k-1 PROVE h[j + 1] = f[h[j]]
      <3>1. CASE j = k - 1
        BY <2>1, <2>3, <3>1
      <3>2. CASE j # k - 1
        <4>1. j \in 0..(k-1)-1 /\ j + 1 # k /\ j # k /\ j + 1 \in 0..k /\ j \in 0..k
          BY <2>1, <3>2
        <4>. QED  BY <2>3, <4>1
      <3>. QED  BY <3>1, <3>2
    <2>6. h \in Turns(S, f, x, k)
      BY <2>4, <2>5 DEF Turns
    <2>. QED  BY <1>2, <2>6
  <1>. QED  BY <1>3, <1>4

LEMMA TurnsAgree ==
    ASSUME NEW S, NEW f, NEW x, NEW n \in Nat, NEW m \in Nat,
           NEW g \in Turns(S, f, x, n), NEW h \in Turns(S, f, x, m),
           NEW k \in Nat, k <= n, k <= m
    PROVE  g[k] = h[k]
  <1> DEFINE Bad == {j \in Nat : j <= n /\ j <= m /\ g[j] # h[j]}
  <1>1. SUFFICES ASSUME Bad # {} PROVE FALSE
    OBVIOUS
  <1>2. PICK j \in Bad : \A i \in Bad : j <= i
    <2>1. Bad \in SUBSET Nat
      OBVIOUS
    <2>. QED  BY <1>1, <2>1, Least
  <1>3. /\ g[0] = x /\ h[0] = x
        /\ \A i \in 0..n-1 : g[i + 1] = f[g[i]]
        /\ \A i \in 0..m-1 : h[i + 1] = f[h[i]]
    BY DEF Turns
  <1>4. j # 0
    BY <1>2, <1>3
  <1>5. j - 1 \in 0..n-1 /\ j - 1 \in 0..m-1 /\ (j - 1) + 1 = j /\ j - 1 \notin Bad
    BY <1>2, <1>4
  <1>6. g[j - 1] = h[j - 1]
    BY <1>2, <1>5
  <1>7. g[j] = f[g[j - 1]] /\ h[j] = f[h[j - 1]]
    BY <1>3, <1>5
  <1>. QED  BY <1>2, <1>6, <1>7

LEMMA Iterates ==
    ASSUME NEW S, NEW f \in [S -> S], NEW x \in S
    PROVE  \E g : g \in Forever(S, f, x)
  <1> DEFINE T(n) == CHOOSE h : h \in Turns(S, f, x, n)
             g    == [n \in Nat |-> T(n)[n]]
  <1>1. ASSUME NEW n \in Nat PROVE T(n) \in Turns(S, f, x, n)
    BY TurnsExist
  <1>2. ASSUME NEW n \in Nat
        PROVE  /\ T(n) \in [0..n -> S] /\ T(n)[0] = x
               /\ \A k \in 0..n-1 : T(n)[k + 1] = f[T(n)[k]]
    BY <1>1 DEF Turns
  <1>3. ASSUME NEW n \in Nat PROVE T(n + 1)[n] = T(n)[n]
    <2>1. n + 1 \in Nat /\ n <= n + 1
      OBVIOUS
    <2>2. T(n + 1) \in Turns(S, f, x, n + 1) /\ T(n) \in Turns(S, f, x, n)
      BY <1>1, <2>1
    <2> HIDE DEF T
    <2>. QED  BY <2>1, <2>2, TurnsAgree
  <1>4. ASSUME NEW n \in Nat PROVE T(n + 1)[n + 1] = f[T(n)[n]]
    <2>1. n + 1 \in Nat /\ n \in 0..(n+1)-1
      OBVIOUS
    <2>2. T(n + 1)[n + 1] = f[T(n + 1)[n]]
      BY <1>2, <2>1
    <2>. QED  BY <1>3, <2>2
  <1> HIDE DEF T
  <1>5. g \in [Nat -> S] /\ g[0] = x
    BY <1>2
  <1>6. \A n \in Nat : g[n + 1] = f[g[n]]
    BY <1>4
  <1>. QED  BY <1>5, <1>6 DEF Forever

-----------------------------------------------------------------------------
(* Iterating over nodes.                                                   *)

After(n) == IF n = Eol THEN Eol ELSE next[n]

\* An iterator that starts in a set which no pointer leaves stays in it.
LEMMA PathIs ==
    ASSUME NEW S, \A n \in S : After(n) \in S, NEW first \in S
    PROVE  /\ Path(first)[0] = first
           /\ \A k \in 0..Cardinality(Node) : Path(first)[k] \in S
           /\ \A k \in 0..Cardinality(Node)-1 : Path(first)[k + 1] = After(Path(first)[k])
           /\ DOMAIN Path(first) = 0..Cardinality(Node)
  <1> DEFINE Rec(h) == [k \in Nat |-> IF k = 0 THEN first
                                      ELSE LET last == h[k - 1]
                                           IN  IF last = Eol THEN Eol ELSE next[last]]
             at == CHOOSE h : h = Rec(h)
  <1>0. Cardinality(Node) \in Nat
    BY ListAssumption, FS_CardinalityType
  <1>1. at = Rec(at)
    <2>0. PICK f : f = [n \in S |-> After(n)]
      OBVIOUS
    <2>1. PICK g : g \in Forever(S, f, first)
      <3>1. f \in [S -> S]
        BY <2>0
      <3>. QED  BY <3>1, Iterates
    <2>2. ASSUME NEW k \in Nat PROVE g[k] = Rec(g)[k]
      <3>1. CASE k = 0
        BY <2>1, <3>1 DEF Forever
      <3>2. CASE k # 0
        <4>1. k - 1 \in Nat /\ (k - 1) + 1 = k
          BY <3>2
        <4>2. g[k] = f[g[k - 1]] /\ g[k - 1] \in S
          BY <2>1, <4>1 DEF Forever
        <4>3. g[k] = After(g[k - 1])
          BY <2>0, <4>2
        <4>. QED  BY <3>2, <4>3 DEF After
      <3>. QED  BY <3>1, <3>2
    <2>3. g = Rec(g)
      BY <2>1, <2>2 DEF Forever
    <2>. QED  BY <2>3
  <1>2. Path(first) = [k \in 0..Cardinality(Node) |-> at[k]]
    BY DEF Path
  <1> HIDE DEF at
  <1>3. at[0] = first
    BY <1>1
  <1>4. ASSUME NEW k \in Nat PROVE at[k + 1] = After(at[k])
    <2>1. k + 1 \in Nat /\ k + 1 # 0 /\ (k + 1) - 1 = k
      OBVIOUS
    <2>. QED  BY <1>1, <2>1 DEF After
  <1>5. \A k \in Nat : at[k] \in S
    <2> DEFINE Bad == {k \in Nat : at[k] \notin S}
    <2>1. SUFFICES ASSUME Bad # {} PROVE FALSE
      OBVIOUS
    <2>2. PICK k \in Bad : \A j \in Bad : k <= j
      <3>1. Bad \in SUBSET Nat
        OBVIOUS
      <3>. QED  BY <2>1, <3>1, Least
    <2>3. k # 0
      BY <1>3, <2>2
    <2>4. k - 1 \in Nat /\ (k - 1) + 1 = k /\ k - 1 \notin Bad
      BY <2>2, <2>3
    <2>5. at[k] = After(at[k - 1]) /\ at[k - 1] \in S
      BY <1>4, <2>4
    <2>. QED  BY <2>2, <2>5
  <1>6. \A k \in 0..Cardinality(Node) : Path(first)[k] = at[k]
    BY <1>2
  <1>7. \A k \in 0..Cardinality(Node)-1 :
           k \in Nat /\ k \in 0..Cardinality(Node) /\ k + 1 \in 0..Cardinality(Node)
    BY <1>0
  <1>8. \A k \in 0..Cardinality(Node)-1 : Path(first)[k + 1] = After(Path(first)[k])
    BY <1>4, <1>6, <1>7
  <1>9. Path(first)[0] = first /\ DOMAIN Path(first) = 0..Cardinality(Node)
    BY <1>0, <1>2, <1>3, <1>6
  <1>10. \A k \in 0..Cardinality(Node) : Path(first)[k] \in S
    BY <1>0, <1>5, <1>6
  <1>. QED  BY <1>8, <1>9, <1>10

-----------------------------------------------------------------------------
(* The iteration from begin() to end().                                    *)

ListTypes ==
    /\ kind \in {"forward", "tail", "double", "circle"}
    /\ front \in Node \cup {Eol} /\ back \in Node \cup {Eol}
    /\ next \in [Node -> Node \cup {Eol}] /\ prev \in [Node -> Node \cup {Eol}]

LEMMA NodesFinite == Cardinality(Node) \in Nat /\ IsFiniteSet(Node) /\ Eol \notin Node
  BY ListAssumption, FS_CardinalityType

\* At the end an iterator stays.
LEMMA FrontPath ==
    ASSUME ListTypes
    PROVE  /\ Path(front)[0] = front
           /\ \A k \in 0..Cardinality(Node) : Path(front)[k] \in Node \cup {Eol}
           /\ \A k \in 0..Cardinality(Node)-1 : Path(front)[k + 1] = After(Path(front)[k])
           /\ \A i, j \in 0..Cardinality(Node) :
                 i <= j /\ Path(front)[i] = Eol => Path(front)[j] = Eol
  <1>1. PICK S : S = Node \cup {Eol}
    OBVIOUS
  <1>2. (\A n \in S : After(n) \in S) /\ front \in S
    BY <1>1 DEF ListTypes, After
  <1>3. /\ Path(front)[0] = front
        /\ \A k \in 0..Cardinality(Node) : Path(front)[k] \in S
        /\ \A k \in 0..Cardinality(Node)-1 : Path(front)[k + 1] = After(Path(front)[k])
    BY <1>2, PathIs
  <1>4. ASSUME NEW i \in 0..Cardinality(Node), Path(front)[i] = Eol
        PROVE  \A j \in 0..Cardinality(Node) : i <= j => Path(front)[j] = Eol
    <2> DEFINE Bad == {j \in 0..Cardinality(Node) : i <= j /\ Path(front)[j] # Eol}
    <2>1. SUFFICES ASSUME Bad # {} PROVE FALSE
      OBVIOUS
    <2>2. PICK j \in Bad : \A k \in Bad : j <= k
      <3>1. Bad \in SUBSET Nat
        BY NodesFinite
      <3>. QED  BY <2>1, <3>1, Least
    <2>3. j # i
      BY <1>4, <2>2
    <2>4. /\ j - 1 \in 0..Cardinality(Node)-1 /\ (j - 1) + 1 = j /\ i <= j - 1
          /\ j - 1 \in 0..Cardinality(Node) /\ j - 1 \notin Bad
      BY <2>2, <2>3, NodesFinite
    <2>5. Path(front)[j - 1] = Eol /\ Path(front)[j] = After(Path(front)[j - 1])
      BY <1>3, <2>4
    <2>. QED  BY <2>2, <2>5 DEF After
  <1>. QED  BY <1>1, <1>3, <1>4

\* The content are the nodes before the end.
LEMMA ContentIs ==
    ASSUME ListTypes
    PROVE  \E m \in 0..Cardinality(Node) :
              /\ m = Cardinality(Node) \/ Path(front)[m] = Eol
              /\ \A j \in 0..m-1 : Path(front)[j] # Eol
              /\ content = [k \in 1..m |-> Path(front)[k - 1]]
  <1> DEFINE Is(k) == /\ k = Cardinality(Node) \/ Path(front)[k] = Eol
                      /\ \A j \in 0..k-1 : Path(front)[j] # Eol
             Ends   == {k \in 0..Cardinality(Node) :
                          k = Cardinality(Node) \/ Path(front)[k] = Eol}
             length == CHOOSE k \in 0..Cardinality(Node) : Is(k)
  <1>1. PICK k \in Ends : \A j \in Ends : k <= j
    <2>1. Ends \in SUBSET Nat /\ Cardinality(Node) \in Ends
      BY NodesFinite
    <2>. QED  BY <2>1, Least
  <1>2. k \in 0..Cardinality(Node) /\ Is(k)
    BY <1>1, NodesFinite
  <1>3. length \in 0..Cardinality(Node) /\ Is(length)
    BY <1>2
  <1>4. content = [n \in 1..length |-> Path(front)[n - 1]]
    BY DEF content
  <1>. QED  BY <1>3, <1>4

\* What an iterator passes is on the list.
LEMMA OnListIs ==
    ASSUME ListTypes
    PROVE  /\ OnList \subseteq Node
           /\ \A n \in OnList : \E k \in 0..Cardinality(Node)-1 : n = Path(front)[k]
           /\ \A k \in 0..Cardinality(Node)-1 : Path(front)[k] \in OnList \cup {Eol}
  <1>1. PICK m \in 0..Cardinality(Node) :
              /\ m = Cardinality(Node) \/ Path(front)[m] = Eol
              /\ \A j \in 0..m-1 : Path(front)[j] # Eol
              /\ content = [k \in 1..m |-> Path(front)[k - 1]]
    BY ContentIs
  <1>2. m \in Nat /\ m <= Cardinality(Node) /\ DOMAIN content = 1..m
    BY <1>1, NodesFinite
  <1>3. ASSUME NEW i \in DOMAIN content
        PROVE  /\ content[i] = Path(front)[i - 1] /\ i - 1 \in 0..Cardinality(Node)-1
               /\ content[i] \in Node
    <2>1. i \in 1..m /\ i - 1 \in 0..m-1 /\ i - 1 \in 0..Cardinality(Node)-1
          /\ i - 1 \in 0..Cardinality(Node)
      BY <1>2, NodesFinite
    <2>2. content[i] = Path(front)[i - 1]
      BY <1>1, <2>1
    <2>3. Path(front)[i - 1] # Eol /\ Path(front)[i - 1] \in Node \cup {Eol}
      BY <1>1, <2>1, FrontPath
    <2>. QED  BY <2>1, <2>2, <2>3
  <1>4. ASSUME NEW k \in 0..Cardinality(Node)-1, Path(front)[k] # Eol
        PROVE  Path(front)[k] \in OnList
    <2>1. k < m
      <3>1. SUFFICES ASSUME k >= m PROVE FALSE
        BY <1>2, NodesFinite
      <3>2. m # Cardinality(Node) /\ k \in 0..Cardinality(Node)
        BY <1>2, <3>1, NodesFinite
      <3>. QED  BY <1>1, <1>4, <3>1, <3>2, FrontPath
    <2>2. k + 1 \in DOMAIN content /\ (k + 1) - 1 = k
      BY <1>2, <2>1, NodesFinite
    <2>3. content[k + 1] = Path(front)[k]
      BY <1>3, <2>2
    <2>. QED  BY <2>2, <2>3 DEF OnList
  <1>5. OnList \subseteq Node
    BY <1>3 DEF OnList
  <1>6. \A n \in OnList : \E k \in 0..Cardinality(Node)-1 : n = Path(front)[k]
    BY <1>3 DEF OnList
  <1>. QED  BY <1>4, <1>5, <1>6

\* Of a list that ends.
LEMMA ContentEnds ==
    ASSUME ListTypes, Path(front)[Cardinality(Node)] = Eol
    PROVE  \E m \in 0..Cardinality(Node) :
              /\ \A k \in 0..Cardinality(Node) : Path(front)[k] = Eol <=> k >= m
              /\ DOMAIN content = 1..m /\ Len(content) = m
              /\ \A i \in 1..m : content[i] = Path(front)[i - 1]
              /\ front = Eol <=> m = 0
  <1>1. PICK m \in 0..Cardinality(Node) :
              /\ m = Cardinality(Node) \/ Path(front)[m] = Eol
              /\ \A j \in 0..m-1 : Path(front)[j] # Eol
              /\ content = [k \in 1..m |-> Path(front)[k - 1]]
    BY ContentIs
  <1>2. m \in Nat /\ m <= Cardinality(Node)
    BY <1>1, NodesFinite
  <1>3. Path(front)[m] = Eol
    BY <1>1
  <1>4. \A k \in 0..Cardinality(Node) : Path(front)[k] = Eol <=> k >= m
    <2>1. \A k \in 0..Cardinality(Node) : k >= m => Path(front)[k] = Eol
      BY <1>2, <1>3, FrontPath, NodesFinite
    <2>2. \A k \in 0..Cardinality(Node) : ~(k >= m) => Path(front)[k] # Eol
      BY <1>1, <1>2, NodesFinite
    <2>. QED  BY <2>1, <2>2
  <1>5. front = Eol <=> m = 0
    BY <1>2, <1>4, FrontPath, NodesFinite
  <1>6. DOMAIN content = 1..m /\ Len(content) = m
    BY <1>1, <1>2
  <1>7. \A i \in 1..m : content[i] = Path(front)[i - 1]
    BY <1>1
  <1>. QED  BY <1>4, <1>5, <1>6, <1>7

-----------------------------------------------------------------------------
(* A list as a chain: a set of nodes that no pointer leaves, in which the  *)
(* pointers go upwards.  It is enough that there is some such set.         *)

Chain(S, rank) ==
    /\ S \subseteq Node /\ rank \in [Node -> Int]
    /\ front \in S \cup {Eol}
    /\ \A n \in S : next[n] \in S \cup {Eol}
    /\ \A n \in S : next[n] # Eol => rank[n] < rank[next[n]]
    /\ kind \in {"tail", "double"} => \A n \in S : next[n] = Eol => n = back
    /\ kind = "double" =>
        /\ front # Eol => prev[front] = Eol
        /\ \A n \in S : next[n] # Eol => prev[next[n]] = n

\* What goes upwards passes no node twice, and ends.
LEMMA ChainEnds ==
    ASSUME ListTypes, NEW S, NEW rank, Chain(S, rank)
    PROVE  /\ Path(front)[Cardinality(Node)] = Eol
           /\ \A k \in 0..Cardinality(Node) : Path(front)[k] \in S \cup {Eol}
  <1> DEFINE N == Cardinality(Node)
  <1>0. N \in Nat
    BY NodesFinite
  <1>1. /\ S \subseteq Node /\ rank \in [Node -> Int]
        /\ \A n \in S : next[n] \in S \cup {Eol}
        /\ \A n \in S : next[n] # Eol => rank[n] < rank[next[n]]
    BY DEF Chain
  <1>2. \A k \in 0..N : Path(front)[k] \in S \cup {Eol}
    <2>1. (\A n \in S \cup {Eol} : After(n) \in S \cup {Eol}) /\ front \in S \cup {Eol}
      BY DEF Chain, After
    <2>. QED  BY <2>1, PathIs
  <1>3. SUFFICES ASSUME Path(front)[N] # Eol PROVE FALSE
    BY <1>2
  <1>4. \A k \in 0..N : Path(front)[k] \in S /\ Path(front)[k] # Eol
    BY <1>0, <1>2, <1>3, FrontPath
  <1>5. ASSUME NEW k \in 0..N-1
        PROVE  rank[Path(front)[k]] < rank[Path(front)[k + 1]]
    <2>1. k \in 0..N /\ k + 1 \in 0..N
      BY <1>0
    <2>2. Path(front)[k + 1] = next[Path(front)[k]]
      BY <1>4, <2>1, FrontPath DEF After
    <2>. QED  BY <1>1, <1>4, <2>1, <2>2
  <1>6. \A k \in 0..N : rank[Path(front)[k]] \in Int
    BY <1>1, <1>4
  <1>7. ASSUME NEW i \in 0..N
        PROVE  \A j \in 0..N : i < j => rank[Path(front)[i]] < rank[Path(front)[j]]
    <2> DEFINE Bad == {j \in 0..N : i < j /\ ~(rank[Path(front)[i]] < rank[Path(front)[j]])}
    <2>1. SUFFICES ASSUME Bad # {} PROVE FALSE
      OBVIOUS
    <2>2. PICK j \in Bad : \A k \in Bad : j <= k
      <3>1. Bad \in SUBSET Nat
        BY <1>0
      <3>. QED  BY <2>1, <3>1, Least
    <2>3. /\ j \in 0..N /\ i < j /\ j - 1 \in 0..N-1 /\ (j - 1) + 1 = j
          /\ j - 1 \in 0..N /\ j - 1 \notin Bad
      BY <1>0, <2>2
    <2>4. rank[Path(front)[j - 1]] < rank[Path(front)[j]]
      BY <1>5, <2>3
    <2>5. i = j - 1 \/ rank[Path(front)[i]] < rank[Path(front)[j - 1]]
      BY <2>3
    <2>6. rank[Path(front)[i]] < rank[Path(front)[j]]
      BY <1>6, <2>3, <2>4, <2>5
    <2>. QED  BY <2>2, <2>6
  <1>8. PICK g : g = [k \in 0..N |-> Path(front)[k]]
    OBVIOUS
  <1>9. \E x, y \in 0..N : x # y /\ g[x] = g[y]
    <2>1. g \in [0..N -> Node]
      BY <1>1, <1>4, <1>8
    <2>2. IsFiniteSet(0..N) /\ Cardinality(0..N) = N + 1
      BY <1>0, FS_Interval
    <2>3. Cardinality(Node) < Cardinality(0..N)
      BY <1>0, <2>2
    <2>. QED  BY <2>1, <2>2, <2>3, NodesFinite, FS_PigeonHole
  <1>10. PICK x \in 0..N, y \in 0..N : x < y /\ Path(front)[x] = Path(front)[y]
    BY <1>0, <1>8, <1>9
  <1>. QED  BY <1>6, <1>7, <1>10

Chained == \E S, rank : Chain(S, rank)

\* A chain is well linked.
LEMMA Fold ==
    ASSUME ListTypes, Chained
    PROVE  WellLinked
  <1>1. PICK S, rank : Chain(S, rank)
    BY DEF Chained
  <1>2. /\ Path(front)[Cardinality(Node)] = Eol
        /\ \A k \in 0..Cardinality(Node) : Path(front)[k] \in S \cup {Eol}
    BY <1>1, ChainEnds
  <1>3. PICK m \in 0..Cardinality(Node) :
              /\ \A k \in 0..Cardinality(Node) : Path(front)[k] = Eol <=> k >= m
              /\ DOMAIN content = 1..m /\ Len(content) = m
              /\ \A i \in 1..m : content[i] = Path(front)[i - 1]
              /\ front = Eol <=> m = 0
    BY <1>2, ContentEnds
  <1>4. m \in Nat /\ m <= Cardinality(Node) /\ Cardinality(Node) \in Nat
    BY <1>3, NodesFinite
  <1>5. ASSUME NEW k \in 0..m-1
        PROVE  /\ Path(front)[k] \in S
               /\ Path(front)[k + 1] = next[Path(front)[k]]
    <2>1. k \in 0..Cardinality(Node) /\ k \in 0..Cardinality(Node)-1 /\ ~(k >= m)
      BY <1>4
    <2>2. Path(front)[k] # Eol
      BY <1>3, <2>1
    <2>. QED  BY <1>2, <2>1, <2>2, FrontPath DEF After
  <1>6. ASSUME kind \in {"tail", "double"}, front # Eol
        PROVE  back = Last(content)
    <2>1. m \in 1..m /\ m - 1 \in 0..m-1 /\ (m - 1) + 1 = m
      BY <1>3, <1>4, <1>6
    <2>2. Last(content) = Path(front)[m - 1]
      BY <1>3, <2>1 DEF Last
    <2>3. next[Path(front)[m - 1]] = Path(front)[m] /\ Path(front)[m - 1] \in S
      BY <1>5, <2>1
    <2>4. Path(front)[m] = Eol
      BY <1>3, <1>4
    <2>. QED  BY <1>1, <1>6, <2>2, <2>3, <2>4 DEF Chain
  <1>7. ASSUME kind = "double", NEW i \in DOMAIN content
        PROVE  prev[content[i]] = IF i = 1 THEN Eol ELSE content[i - 1]
    <2>1. CASE i = 1
      <3>1. content[1] = Path(front)[0] /\ front # Eol
        BY <1>3, <1>4, <2>1
      <3>2. content[1] = front
        BY <3>1, FrontPath
      <3>. QED  BY <1>1, <1>7, <2>1, <3>1, <3>2 DEF Chain
    <2>2. CASE i # 1
      <3>1. /\ i \in 1..m /\ i - 1 \in 1..m /\ i - 2 \in 0..m-1 /\ (i - 2) + 1 = i - 1
            /\ (i - 1) - 1 = i - 2 /\ i - 1 \in 0..m-1
        BY <1>3, <1>4, <2>2
      <3>2. content[i] = Path(front)[i - 1] /\ content[i - 1] = Path(front)[i - 2]
        BY <1>3, <3>1
      <3>3. /\ Path(front)[i - 1] = next[Path(front)[i - 2]]
            /\ Path(front)[i - 2] \in S /\ Path(front)[i - 1] \in S
        BY <1>5, <3>1
      <3>4. Path(front)[i - 1] # Eol
        BY <1>1, <3>3, NodesFinite DEF Chain
      <3>. QED  BY <1>1, <1>7, <2>2, <3>2, <3>3, <3>4 DEF Chain
    <2>. QED  BY <2>1, <2>2
  <1>. QED  BY <1>2, <1>6, <1>7 DEF WellLinked

\* The other way round: what is on a well linked list is a chain, with all of
\* its nodes between the front and the back.
OnChain(S, rank) ==
    /\ S = OnList /\ Chain(S, rank)
    /\ front = Eol => S = {}
    /\ front # Eol /\ kind \in {"tail", "double"} => back \in S /\ next[back] = Eol
    /\ \A p \in S : p # front => \E q \in S : next[q] = p

LEMMA TypesOf == ListInv => ListTypes
  BY DEF ListInv, ListTypes

LEMMA Unfold ==
    ASSUME ListInv
    PROVE  \E S, rank : OnChain(S, rank)
  <1> DEFINE N == Cardinality(Node)
  <1>1. ListTypes /\ WellLinked /\ Path(front)[N] = Eol /\ N \in Nat
    BY TypesOf, NodesFinite DEF ListInv, WellLinked
  <1>2. PICK m \in 0..N :
              /\ \A k \in 0..N : Path(front)[k] = Eol <=> k >= m
              /\ DOMAIN content = 1..m /\ Len(content) = m
              /\ \A i \in 1..m : content[i] = Path(front)[i - 1]
              /\ front = Eol <=> m = 0
    BY <1>1, ContentEnds
  <1>3. m \in Nat /\ m <= N
    BY <1>1, <1>2
  <1>4. ASSUME NEW k \in 0..m-1
        PROVE  /\ Path(front)[k] \in OnList
               /\ next[Path(front)[k]] = Path(front)[k + 1]
               /\ next[Path(front)[k]] = Eol <=> k = m - 1
    <2>1. k \in 0..N /\ k \in 0..N-1 /\ ~(k >= m) /\ k + 1 \in 0..N
      BY <1>1, <1>3
    <2>2. Path(front)[k] # Eol /\ (Path(front)[k + 1] = Eol <=> k + 1 >= m)
      BY <1>2, <2>1
    <2>. QED  BY <1>1, <1>3, <2>1, <2>2, FrontPath, OnListIs DEF After
  <1>5. ASSUME NEW n \in OnList
        PROVE  n \in Node /\ \E k \in 0..m-1 : n = Path(front)[k]
    <2>1. PICK k \in 0..N-1 : n = Path(front)[k]
      BY <1>1, OnListIs
    <2>2. n \in Node /\ n # Eol
      BY <1>1, OnListIs, NodesFinite
    <2>3. k \in 0..N /\ k \in 0..m-1
      BY <1>1, <1>2, <1>3, <2>1, <2>2
    <2>. QED  BY <2>1, <2>2, <2>3
  <1>6. \E rank \in [Node -> Int] :
            \A n \in OnList : /\ rank[n] \in 0..m-1 /\ Path(front)[rank[n]] = n
                              /\ \A j \in 0..m-1 : Path(front)[j] = n => j <= rank[n]
    <2> DEFINE Place(n) == {k \in 0..m-1 : Path(front)[k] = n}
               last(n)  == CHOOSE k \in Place(n) : \A j \in Place(n) : j <= k
    <2>1. ASSUME NEW n \in OnList
          PROVE  last(n) \in Place(n) /\ \A j \in Place(n) : j <= last(n)
      <3> DEFINE Behind == {j \in 0..m-1 : m - 1 - j \in Place(n)}
      <3>1. PICK k \in 0..m-1 : n = Path(front)[k]
        BY <1>5
      <3>2. k \in Place(n) /\ m - 1 - k \in Behind
        <4>1. m - 1 - k \in 0..m-1 /\ m - 1 - (m - 1 - k) = k
          BY <1>3
        <4>. QED  BY <3>1, <4>1
      <3>3. PICK j \in Behind : \A i \in Behind : j <= i
        <4>1. Behind \in SUBSET Nat
          BY <1>3
        <4>. QED  BY <3>2, <4>1, Least
      <3>4. m - 1 - j \in Place(n) /\ j \in 0..m-1
        BY <3>3
      <3>5. ASSUME NEW i \in Place(n) PROVE i <= m - 1 - j
        <4>1. i \in 0..m-1 /\ m - 1 - i \in 0..m-1 /\ m - 1 - (m - 1 - i) = i
          BY <1>3
        <4>2. m - 1 - i \in Behind
          BY <4>1
        <4>3. j <= m - 1 - i
          BY <3>3, <4>2
        <4>. QED  BY <1>3, <3>4, <4>1, <4>3
      <3>6. \E i \in Place(n) : \A l \in Place(n) : l <= i
        BY <3>4, <3>5
      <3>. QED  BY <3>6
    <2>2. ASSUME NEW n \in OnList
          PROVE  /\ last(n) \in 0..m-1 /\ Path(front)[last(n)] = n
                 /\ \A j \in 0..m-1 : Path(front)[j] = n => j <= last(n)
      BY <2>1
    <2> HIDE DEF last
    <2> DEFINE rank == [n \in Node |-> IF n \in OnList THEN last(n) ELSE 0]
    <2>3. rank \in [Node -> Int] /\ \A n \in OnList : rank[n] = last(n)
      BY <1>3, <1>5, <2>2
    <2>4. \A n \in OnList : /\ rank[n] \in 0..m-1 /\ Path(front)[rank[n]] = n
                            /\ \A j \in 0..m-1 : Path(front)[j] = n => j <= rank[n]
      BY <2>2, <2>3
    <2> HIDE DEF rank
    <2>. QED  BY <2>3, <2>4
  <1>7. PICK rank \in [Node -> Int] :
            \A n \in OnList : /\ rank[n] \in 0..m-1 /\ Path(front)[rank[n]] = n
                              /\ \A j \in 0..m-1 : Path(front)[j] = n => j <= rank[n]
    BY <1>6
  <1>8. ASSUME NEW n \in OnList, next[n] # Eol
        PROVE  /\ rank[n] + 1 \in 0..m-1 /\ Path(front)[rank[n] + 1] = next[n]
               /\ next[n] \in OnList /\ rank[n] < rank[next[n]]
    <2>1. rank[n] \in 0..m-1 /\ Path(front)[rank[n]] = n
      BY <1>7
    <2>2. rank[n] # m - 1 /\ next[n] = Path(front)[rank[n] + 1]
      BY <1>4, <1>8, <2>1
    <2>3. rank[n] + 1 \in 0..m-1
      BY <1>3, <2>1, <2>2
    <2>4. next[n] \in OnList
      BY <1>4, <2>2, <2>3
    <2>5. rank[n] + 1 <= rank[next[n]] /\ rank[next[n]] \in 0..m-1
      BY <1>7, <2>2, <2>3, <2>4
    <2>. QED  BY <1>3, <2>1, <2>2, <2>3, <2>4, <2>5
  <1>9. front = Eol => OnList = {}
    BY <1>2, <1>3, <1>5
  <1>10. front # Eol => front \in OnList
    BY <1>1, <1>2, <1>3, <1>4, FrontPath
  <1>11. ASSUME kind \in {"tail", "double"}, front # Eol
         PROVE  m - 1 \in 0..m-1 /\ back = Path(front)[m - 1]
    <2>1. m \in 1..m /\ m - 1 \in 0..m-1
      BY <1>2, <1>3, <1>11
    <2>2. back = Last(content)
      BY <1>1, <1>11 DEF WellLinked
    <2>. QED  BY <1>2, <2>1, <2>2 DEF Last
  <1>12. kind \in {"tail", "double"} => \A n \in OnList : next[n] = Eol => n = back
    BY <1>4, <1>7, <1>9, <1>11
  <1>13. front # Eol /\ kind \in {"tail", "double"} => back \in OnList /\ next[back] = Eol
    BY <1>4, <1>11
  <1>14. ASSUME NEW p \in OnList, p # front
         PROVE  \E q \in OnList : next[q] = p
    <2>1. PICK k \in 0..m-1 : p = Path(front)[k]
      BY <1>5
    <2>2. k # 0
      BY <1>1, <1>14, <2>1, FrontPath
    <2>3. k - 1 \in 0..m-1 /\ (k - 1) + 1 = k
      BY <1>3, <2>1, <2>2
    <2>. QED  BY <1>4, <2>1, <2>3
  <1>15. ASSUME kind = "double"
         PROVE  /\ front # Eol => prev[front] = Eol
                /\ \A n \in OnList : next[n] # Eol => prev[next[n]] = n
    <2>1. \A i \in 1..m : prev[content[i]] = IF i = 1 THEN Eol ELSE content[i - 1]
      BY <1>1, <1>2, <1>15 DEF WellLinked
    <2>2. front # Eol => prev[front] = Eol
      <3>1. SUFFICES ASSUME front # Eol PROVE prev[front] = Eol
        OBVIOUS
      <3>2. 1 \in 1..m
        BY <1>2, <1>3, <3>1
      <3>3. content[1] = front
        BY <1>1, <1>2, <3>2, FrontPath
      <3>. QED  BY <2>1, <3>2, <3>3
    <2>3. ASSUME NEW n \in OnList, next[n] # Eol PROVE prev[next[n]] = n
      <3>1. /\ rank[n] + 1 \in 0..m-1 /\ Path(front)[rank[n] + 1] = next[n]
            /\ rank[n] \in 0..m-1 /\ Path(front)[rank[n]] = n
        BY <1>7, <1>8, <2>3
      <3>2. /\ rank[n] + 1 \in 1..m /\ rank[n] + 2 \in 1..m /\ rank[n] + 2 # 1
            /\ (rank[n] + 1) - 1 = rank[n] /\ (rank[n] + 2) - 1 = rank[n] + 1
        BY <1>3, <3>1
      <3>3. content[rank[n] + 1] = n /\ content[rank[n] + 2] = next[n]
        BY <1>2, <3>1, <3>2
      <3>4. prev[content[rank[n] + 2]] = content[rank[n] + 1]
        BY <2>1, <3>2
      <3>. QED  BY <3>3, <3>4
    <2>. QED  BY <2>2, <2>3
  <1>16. Chain(OnList, rank)
    BY <1>5, <1>8, <1>10, <1>12, <1>15 DEF Chain
  <1>. QED  BY <1>9, <1>13, <1>14, <1>16 DEF OnChain

\* Lists that are empty, or never filled.
ListEnds ==
    /\ kind = "double" => (front = Eol <=> back = Eol)
    /\ kind = "circle" => front = Eol

ListKept == ListTypes /\ Chained /\ ListEnds

LEMMA KeptIs == ListKept => ListInv
  BY Fold DEF ListKept, ListTypes, ListEnds, ListInv

LEMMA KeptNext == ListKept' => ListInv'
  BY KeptIs, PTL

-----------------------------------------------------------------------------
(* The calls.                                                              *)

LEMMA ListStart ==
    ASSUME ListInit
    PROVE  ListKept
  <1>1. ListTypes /\ ListEnds
    BY DEF ListInit, ListTypes, ListEnds
  <1>2. Chain({}, [n \in Node |-> 0])
    BY DEF ListInit, Chain
  <1>. QED  BY <1>1, <1>2 DEF Chained, ListKept

LEMMA FrontPushed ==
    ASSUME ListTypes, ListEnds, NEW S, NEW rank, OnChain(S, rank),
           NEW n \in Node, n \notin S, PushFront(n),
           kind = "tail" => (front = Eol => back = Eol)
    PROVE  ListKept'
  <1>1. PICK r : r = [rank EXCEPT ![n] = IF front = Eol THEN 0 ELSE rank[front] - 1]
    OBVIOUS
  <1>2. PICK T : T = S \cup {n}
    OBVIOUS
  <1>3. /\ n # Eol /\ front' = n /\ next' = [next EXCEPT ![n] = front] /\ kind' = kind
        /\ prev' = prev /\ kind \in {"forward", "tail"}
        /\ back' = IF kind = "tail" /\ back = Eol THEN n ELSE back
    BY NodesFinite DEF PushFront
  <1>4. /\ S \subseteq Node /\ rank \in [Node -> Int] /\ front \in S \cup {Eol}
        /\ \A m \in S : next[m] \in S \cup {Eol}
        /\ \A m \in S : next[m] # Eol => rank[m] < rank[next[m]]
    BY DEF OnChain, Chain
  <1>5. r \in [Node -> Int] /\ T \subseteq Node /\ front' \in T \cup {Eol}
    BY <1>1, <1>2, <1>3, <1>4
  <1>6. next'[n] = front /\ \A m \in S : next'[m] = next[m]
    BY <1>3, <1>4 DEF ListTypes
  <1>7. \A m \in S : r[m] = rank[m]
    BY <1>1, <1>4
  <1>8. front # Eol => r[n] < r[front]
    BY <1>1, <1>4, <1>7
  <1>9. \A m \in T : /\ next'[m] \in T \cup {Eol}
                     /\ next'[m] # Eol => r[m] < r[next'[m]]
    BY <1>2, <1>4, <1>6, <1>7, <1>8
  <1>10. kind = "tail" => \A m \in T : next'[m] = Eol => m = back'
    <2>1. CASE front = Eol
      BY <1>2, <1>3, <2>1 DEF OnChain
    <2>2. CASE front # Eol
      BY <1>2, <1>3, <1>4, <1>6, <2>2, NodesFinite DEF OnChain, Chain
    <2>. QED  BY <2>1, <2>2
  <1>11. Chain(T, r)'
    BY <1>3, <1>5, <1>9, <1>10 DEF Chain
  <1>12. ListTypes' /\ ListEnds'
    BY <1>3 DEF ListTypes, ListEnds
  <1>. QED  BY <1>11, <1>12 DEF Chained, ListKept

LEMMA FrontPopped ==
    ASSUME ListTypes, ListEnds, NEW S, NEW rank, OnChain(S, rank), PopFront
    PROVE  ListKept'
  <1>1. /\ kind \in {"forward", "tail"} /\ front # Eol /\ front' = next[front]
        /\ UNCHANGED <<kind, back, next, prev>>
    BY DEF PopFront
  <1>2. Chain(S, rank)'
    BY <1>1 DEF OnChain, Chain
  <1>3. ListTypes' /\ ListEnds'
    BY <1>1 DEF ListTypes, ListEnds
  <1>. QED  BY <1>2, <1>3 DEF Chained, ListKept

LEMMA Cleared ==
    ASSUME ListTypes, NEW S, NEW rank, OnChain(S, rank), Clear
    PROVE  ListKept'
  <1>1. kind = "forward" /\ front' = Eol /\ UNCHANGED <<kind, back, next, prev>>
    BY DEF Clear
  <1>2. Chain({}, rank)'
    BY <1>1 DEF OnChain, Chain
  <1>3. ListTypes' /\ ListEnds'
    BY <1>1 DEF ListTypes, ListEnds
  <1>. QED  BY <1>2, <1>3 DEF Chained, ListKept

\* A node put between p and the one after it.
LEMMA Between ==
    ASSUME ListTypes, NEW S, NEW rank, OnChain(S, rank), kind = "forward",
           NEW p \in S, NEW n \in Node, n \notin S, NEW after \in S \cup {Eol},
           after # Eol => rank[p] < rank[after],
           next' = [next EXCEPT ![p] = n, ![n] = after],
           UNCHANGED <<kind, front, back, prev>>
    PROVE  ListKept'
  <1>1. PICK r : r = [m \in Node |-> IF m = n THEN 2 * rank[p] + 1 ELSE 2 * rank[m]]
    OBVIOUS
  <1>2. PICK T : T = S \cup {n}
    OBVIOUS
  <1>3. /\ S \subseteq Node /\ rank \in [Node -> Int] /\ front \in S \cup {Eol}
        /\ \A m \in S : next[m] \in S \cup {Eol}
        /\ \A m \in S : next[m] # Eol => rank[m] < rank[next[m]]
    BY DEF OnChain, Chain
  <1>4. /\ next'[p] = n /\ next'[n] = after
        /\ \A m \in S : m # p => next'[m] = next[m]
    BY <1>3 DEF ListTypes
  <1>5. /\ r \in [Node -> Int] /\ r[n] = 2 * rank[p] + 1
        /\ \A m \in S : r[m] = 2 * rank[m] /\ rank[m] \in Int
    BY <1>1, <1>3
  <1>6. ASSUME NEW m \in T PROVE next'[m] \in T \cup {Eol}
    <2>1. CASE m = p
      BY <1>2, <1>4, <2>1
    <2>2. CASE m = n
      BY <1>2, <1>4, <2>2
    <2>3. CASE m # p /\ m # n
      <3>1. m \in S /\ next'[m] = next[m]
        BY <1>2, <1>4, <2>3
      <3>2. next[m] \in S \cup {Eol}
        BY <1>3, <3>1
      <3>. QED  BY <1>2, <3>1, <3>2
    <2>. QED  BY <2>1, <2>2, <2>3
  <1>7. ASSUME NEW m \in T, next'[m] # Eol
        PROVE  r[m] < r[next'[m]]
    <2>1. CASE m = p
      BY <1>4, <1>5, <2>1
    <2>2. CASE m = n
      BY <1>4, <1>5, <1>7, <2>2
    <2>3. CASE m # p /\ m # n
      <3>1. m \in S /\ next'[m] = next[m] /\ next[m] \in S
        BY <1>2, <1>3, <1>4, <1>7, <2>3
      <3>. QED  BY <1>3, <1>5, <1>7, <3>1
    <2>. QED  BY <2>1, <2>2, <2>3
  <1>8. Chain(T, r)'
    BY <1>2, <1>3, <1>5, <1>6, <1>7 DEF Chain
  <1>9. ListTypes' /\ ListEnds'
    BY <1>3 DEF ListTypes, ListEnds
  <1>. QED  BY <1>8, <1>9 DEF Chained, ListKept

LEMMA AfterInserted ==
    ASSUME ListTypes, NEW S, NEW rank, OnChain(S, rank),
           NEW p \in S, NEW n \in Node, n \notin S, InsertAfter(p, n)
    PROVE  ListKept'
  <1>1. kind = "forward" /\ UNCHANGED <<kind, front, back, prev>>
    BY DEF InsertAfter
  <1>2. PICK after \in S \cup {Eol} : after = next[p]
    BY DEF OnChain, Chain
  <1>3. next' = [next EXCEPT ![p] = n, ![n] = after]
    BY <1>2 DEF InsertAfter, InsertedAfter
  <1>4. after # Eol => rank[p] < rank[after]
    BY <1>2 DEF OnChain, Chain
  <1>. QED  BY <1>1, <1>3, <1>4, Between

LEMMA AfterReplaced ==
    ASSUME ListTypes, NEW S, NEW rank, OnChain(S, rank),
           NEW p \in S, NEW n \in Node, n \notin S, ReplaceAfter(p, n)
    PROVE  ListKept'
  <1>1. kind = "forward" /\ next[p] # Eol /\ UNCHANGED <<kind, front, back, prev>>
    BY DEF ReplaceAfter
  <1>2. /\ S \subseteq Node /\ rank \in [Node -> Int]
        /\ next[p] \in S /\ next[next[p]] \in S \cup {Eol}
        /\ rank[p] < rank[next[p]]
        /\ next[next[p]] # Eol => rank[next[p]] < rank[next[next[p]]]
    BY <1>1 DEF OnChain, Chain
  <1>3. PICK after \in S \cup {Eol} : after = next[next[p]]
    BY <1>2
  <1>4. next' = [next EXCEPT ![p] = n, ![n] = after]
    <2>1. next' = [[next EXCEPT ![p] = after] EXCEPT ![p] = n,
                                                     ![n] = [next EXCEPT ![p] = after][p]]
      BY <1>3 DEF ReplaceAfter, ReplacedAfter, InsertedAfter, ErasedAfter
    <2>2. [next EXCEPT ![p] = after][p] = after
      BY <1>2 DEF ListTypes
    <2>. QED  BY <1>2, <2>1, <2>2 DEF ListTypes
  <1>5. after # Eol => rank[p] < rank[after]
    BY <1>2, <1>3
  <1>. QED  BY <1>1, <1>4, <1>5, Between

LEMMA AfterErased ==
    ASSUME ListTypes, NEW S, NEW rank, OnChain(S, rank), NEW p \in S, EraseAfter(p)
    PROVE  ListKept'
  <1>1. /\ kind = "forward" /\ next[p] # Eol /\ UNCHANGED <<kind, front, back, prev>>
        /\ next' = [next EXCEPT ![p] = next[next[p]]]
    BY DEF EraseAfter, ErasedAfter
  <1>2. /\ S \subseteq Node /\ rank \in [Node -> Int]
        /\ next[p] \in S /\ next[next[p]] \in S \cup {Eol}
        /\ rank[p] < rank[next[p]]
        /\ next[next[p]] # Eol => rank[next[p]] < rank[next[next[p]]]
    BY <1>1 DEF OnChain, Chain
  <1>3. next'[p] = next[next[p]] /\ \A m \in S : m # p => next'[m] = next[m]
    BY <1>1, <1>2 DEF ListTypes
  <1>4. next'[p] # Eol => rank[p] < rank[next'[p]]
    BY <1>2, <1>3
  <1>5. Chain(S, rank)'
    BY <1>1, <1>2, <1>3, <1>4 DEF OnChain, Chain
  <1>6. ListTypes' /\ ListEnds'
    BY <1>1, <1>2 DEF ListTypes, ListEnds
  <1>. QED  BY <1>5, <1>6 DEF Chained, ListKept

LEMMA BackPushed ==
    ASSUME ListTypes, ListEnds, NEW S, NEW rank, OnChain(S, rank),
           NEW n \in Node, n \notin S, PushBack(n),
           front = Eol => back = Eol, next[n] = Eol
    PROVE  ListKept'
  <1>1. PICK r : r = [rank EXCEPT ![n] = IF back = Eol THEN 0 ELSE rank[back] + 1]
    OBVIOUS
  <1>2. PICK T : T = S \cup {n}
    OBVIOUS
  <1>3. /\ n # Eol /\ back' = n /\ kind = "tail" /\ UNCHANGED <<kind, prev>>
        /\ next' = IF back # Eol THEN [next EXCEPT ![back] = n] ELSE next
        /\ front' = IF back # Eol THEN front ELSE n
    BY NodesFinite DEF PushBack
  <1>4. /\ S \subseteq Node /\ rank \in [Node -> Int] /\ front \in S \cup {Eol}
        /\ \A m \in S : next[m] \in S \cup {Eol}
        /\ \A m \in S : next[m] # Eol => rank[m] < rank[next[m]]
        /\ \A m \in S : next[m] = Eol => m = back
        /\ front = Eol => S = {}
        /\ front # Eol => back \in S /\ next[back] = Eol
    BY <1>3 DEF OnChain, Chain
  <1>5. ListTypes' /\ ListEnds'
    BY <1>3 DEF ListTypes, ListEnds
  <1>6. CASE front = Eol
    <2>1. S = {} /\ back = Eol /\ front' = n /\ next' = next
      BY <1>3, <1>4, <1>6
    <2>2. Chain({n}, rank)'
      BY <1>3, <1>4, <2>1 DEF Chain
    <2>. QED  BY <1>5, <2>2 DEF Chained, ListKept
  <1>7. CASE front # Eol
    <2>1. /\ back \in S /\ back # Eol /\ front' = front
          /\ next' = [next EXCEPT ![back] = n]
      BY <1>3, <1>4, <1>7, NodesFinite
    <2>2. next'[back] = n /\ next'[n] = Eol /\ \A m \in S : m # back => next'[m] = next[m]
      BY <1>4, <2>1 DEF ListTypes
    <2>3. r[n] = rank[back] + 1 /\ r \in [Node -> Int] /\ \A m \in S : r[m] = rank[m]
      BY <1>1, <1>4, <2>1
    <2>4. \A m \in T : next'[m] \in T \cup {Eol}
      BY <1>2, <1>4, <2>2
    <2>5. ASSUME NEW m \in T, next'[m] # Eol PROVE r[m] < r[next'[m]]
      <3>1. CASE m = back
        BY <1>4, <2>1, <2>2, <2>3, <3>1
      <3>2. CASE m # back
        BY <1>2, <1>4, <2>2, <2>3, <2>5, <3>2
      <3>. QED  BY <3>1, <3>2
    <2>6. \A m \in T : next'[m] = Eol => m = n
      BY <1>2, <1>3, <1>4, <2>2
    <2>7. Chain(T, r)'
      BY <1>2, <1>3, <1>4, <2>1, <2>3, <2>4, <2>5, <2>6 DEF Chain
    <2>. QED  BY <1>5, <2>7 DEF Chained, ListKept
  <1>. QED  BY <1>6, <1>7

LEMMA DoubleFrontPushed ==
    ASSUME ListTypes, ListEnds, NEW S, NEW rank, OnChain(S, rank),
           NEW n \in Node, n \notin S, PushFrontDouble(n)
    PROVE  ListKept'
  <1>1. PICK r : r = [rank EXCEPT ![n] = IF front = Eol THEN 0 ELSE rank[front] - 1]
    OBVIOUS
  <1>2. PICK T : T = S \cup {n}
    OBVIOUS
  <1>3. /\ n # Eol /\ front' = n /\ next' = [next EXCEPT ![n] = front] /\ kind' = kind
        /\ kind = "double"
        /\ prev' = IF front # Eol THEN [[prev EXCEPT ![n] = Eol] EXCEPT ![front] = n]
                   ELSE [prev EXCEPT ![n] = Eol]
        /\ back' = IF back = Eol THEN n ELSE back
    BY NodesFinite DEF PushFrontDouble, Allocated
  <1>4. /\ S \subseteq Node /\ rank \in [Node -> Int] /\ front \in S \cup {Eol}
        /\ \A m \in S : next[m] \in S \cup {Eol}
        /\ \A m \in S : next[m] # Eol => rank[m] < rank[next[m]]
        /\ \A m \in S : next[m] = Eol => m = back
        /\ \A m \in S : next[m] # Eol => prev[next[m]] = m
        /\ front # Eol => prev[front] = Eol
        /\ front = Eol => S = {}
        /\ front = Eol <=> back = Eol
    BY <1>3 DEF OnChain, Chain, ListEnds
  <1>5. ListTypes' /\ ListEnds'
    BY <1>3 DEF ListTypes, ListEnds
  <1>6. next'[n] = front /\ \A m \in S : next'[m] = next[m]
    BY <1>3, <1>4 DEF ListTypes
  <1>7. r \in [Node -> Int] /\ \A m \in S : r[m] = rank[m]
    BY <1>1, <1>4
  <1>8. front # Eol => r[n] < r[front]
    BY <1>1, <1>4, <1>7
  <1>9. \A m \in T : /\ next'[m] \in T \cup {Eol}
                     /\ next'[m] # Eol => r[m] < r[next'[m]]
    BY <1>2, <1>4, <1>6, <1>7, <1>8
  <1>10. \A m \in T : next'[m] = Eol => m = back'
    BY <1>2, <1>3, <1>4, <1>6
  <1>11. front # Eol => prev'[front] = n
    BY <1>3, <1>4 DEF ListTypes
  <1>12. \A m \in S : next[m] # Eol => next[m] # front /\ prev'[next[m]] = m
    <2>1. \A m \in S : next[m] # Eol => next[m] # front
      BY <1>4, NodesFinite
    <2>. QED  BY <1>3, <1>4, <2>1 DEF ListTypes
  <1>13. \A m \in T : next'[m] # Eol => prev'[next'[m]] = m
    BY <1>2, <1>6, <1>11, <1>12
  <1>14. prev'[n] = Eol
    BY <1>3, <1>4 DEF ListTypes
  <1>15. Chain(T, r)'
    BY <1>2, <1>3, <1>4, <1>7, <1>9, <1>10, <1>13, <1>14 DEF Chain
  <1>. QED  BY <1>5, <1>15 DEF Chained, ListKept

LEMMA DoubleBackPushed ==
    ASSUME ListTypes, ListEnds, NEW S, NEW rank, OnChain(S, rank),
           NEW n \in Node, n \notin S, PushBackDouble(n)
    PROVE  ListKept'
  <1>1. PICK r : r = [rank EXCEPT ![n] = IF back = Eol THEN 0 ELSE rank[back] + 1]
    OBVIOUS
  <1>2. PICK T : T = S \cup {n}
    OBVIOUS
  <1>3. /\ n # Eol /\ back' = n /\ kind = "double" /\ kind' = kind
        /\ next' = IF back # Eol THEN [[next EXCEPT ![n] = Eol] EXCEPT ![back] = n]
                   ELSE [next EXCEPT ![n] = Eol]
        /\ front' = IF front = Eol THEN n ELSE front
        /\ prev' = [prev EXCEPT ![n] = back]
    BY NodesFinite DEF PushBackDouble, Allocated
  <1>4. /\ S \subseteq Node /\ rank \in [Node -> Int] /\ front \in S \cup {Eol}
        /\ \A m \in S : next[m] \in S \cup {Eol}
        /\ \A m \in S : next[m] # Eol => rank[m] < rank[next[m]]
        /\ \A m \in S : next[m] = Eol => m = back
        /\ \A m \in S : next[m] # Eol => prev[next[m]] = m
        /\ front # Eol => prev[front] = Eol
        /\ front = Eol => S = {}
        /\ front = Eol <=> back = Eol
        /\ front # Eol => back \in S /\ next[back] = Eol
    BY <1>3 DEF OnChain, Chain, ListEnds
  <1>5. ListTypes' /\ ListEnds'
    BY <1>3 DEF ListTypes, ListEnds
  <1>6. next'[n] = Eol /\ prev'[n] = back /\ \A m \in S : prev'[m] = prev[m]
    BY <1>3, <1>4 DEF ListTypes
  <1>7. CASE front = Eol
    <2>1. S = {} /\ back = Eol /\ front' = n /\ prev'[n] = Eol
      BY <1>3, <1>4, <1>6, <1>7
    <2>2. Chain({n}, rank)'
      BY <1>3, <1>4, <1>6, <2>1 DEF Chain
    <2>. QED  BY <1>5, <2>2 DEF Chained, ListKept
  <1>8. CASE front # Eol
    <2>1. back \in S /\ back # Eol /\ front' = front
      BY <1>3, <1>4, <1>8
    <2>2. next'[back] = n /\ \A m \in S : m # back => next'[m] = next[m]
      BY <1>3, <1>4, <2>1 DEF ListTypes
    <2>3. r[n] = rank[back] + 1 /\ r \in [Node -> Int] /\ \A m \in S : r[m] = rank[m]
      BY <1>1, <1>4, <2>1
    <2>4. \A m \in T : next'[m] \in T \cup {Eol}
      BY <1>2, <1>4, <1>6, <2>2
    <2>5. ASSUME NEW m \in T, next'[m] # Eol
          PROVE  r[m] < r[next'[m]] /\ prev'[next'[m]] = m
      <3>1. CASE m = back
        BY <1>4, <1>6, <2>1, <2>2, <2>3, <3>1
      <3>2. CASE m # back
        BY <1>2, <1>4, <1>6, <2>2, <2>3, <2>5, <3>2
      <3>. QED  BY <3>1, <3>2
    <2>6. \A m \in T : next'[m] = Eol => m = n
      BY <1>2, <1>3, <1>4, <2>2
    <2>7. prev'[front] = Eol
      BY <1>4, <1>6, <1>8
    <2>8. Chain(T, r)'
      BY <1>2, <1>3, <1>4, <2>1, <2>3, <2>4, <2>5, <2>6, <2>7 DEF Chain
    <2>. QED  BY <1>5, <2>8 DEF Chained, ListKept
  <1>. QED  BY <1>7, <1>8

LEMMA DoubleInserted ==
    ASSUME ListTypes, ListEnds, NEW S, NEW rank, OnChain(S, rank),
           NEW p \in S, NEW n \in Node, n \notin S, InsertDouble(p, n)
    PROVE  ListKept'
  <1>1. /\ kind = "double" /\ p # front /\ UNCHANGED <<kind, front, back>>
        /\ next' = [next EXCEPT ![n] = p, ![prev[p]] = n]
        /\ prev' = [prev EXCEPT ![n] = prev[p], ![p] = n]
    BY DEF InsertDouble
  <1>2. /\ S \subseteq Node /\ rank \in [Node -> Int] /\ front \in S \cup {Eol}
        /\ \A m \in S : next[m] \in S \cup {Eol}
        /\ \A m \in S : next[m] # Eol => rank[m] < rank[next[m]]
        /\ \A m \in S : next[m] = Eol => m = back
        /\ \A m \in S : next[m] # Eol => prev[next[m]] = m
        /\ front # Eol => prev[front] = Eol
    BY <1>1 DEF OnChain, Chain
  <1>3. PICK q \in S : next[q] = p
    BY <1>1 DEF OnChain
  <1>4. p # Eol /\ prev[p] = q /\ rank[q] < rank[p] /\ n # Eol /\ p # n /\ q # n /\ p # q
    BY <1>2, <1>3, NodesFinite
  <1>5. /\ next'[q] = n /\ next'[n] = p /\ \A m \in S : m # q => next'[m] = next[m]
        /\ prev'[n] = q /\ prev'[p] = n /\ \A m \in S : m # p => prev'[m] = prev[m]
    BY <1>1, <1>2, <1>4 DEF ListTypes
  <1>6. PICK r : r = [m \in Node |-> IF m = n THEN 2 * rank[q] + 1 ELSE 2 * rank[m]]
    OBVIOUS
  <1>7. PICK T : T = S \cup {n}
    OBVIOUS
  <1>8. /\ r \in [Node -> Int] /\ r[n] = 2 * rank[q] + 1
        /\ \A m \in S : r[m] = 2 * rank[m] /\ rank[m] \in Int
    BY <1>2, <1>6
  <1>9. ASSUME NEW m \in T
        PROVE  /\ next'[m] \in T \cup {Eol}
               /\ next'[m] # Eol => r[m] < r[next'[m]] /\ prev'[next'[m]] = m
               /\ next'[m] = Eol => m = back
    <2>1. CASE m = q
      BY <1>4, <1>5, <1>7, <1>8, <2>1
    <2>2. CASE m = n
      BY <1>4, <1>5, <1>7, <1>8, <2>2
    <2>3. CASE m # q /\ m # n
      <3>1. m \in S /\ next'[m] = next[m]
        BY <1>5, <1>7, <2>3
      <3>2. next[m] # Eol => next[m] \in S /\ rank[m] < rank[next[m]] /\ prev[next[m]] = m
        BY <1>2, <3>1
      <3>3. next[m] # Eol => r[m] < r[next[m]]
        BY <1>8, <3>1, <3>2
      <3>4. next[m] # Eol => next[m] # p /\ prev'[next[m]] = m
        BY <1>4, <1>5, <2>3, <3>2
      <3>5. next[m] = Eol => m = back
        BY <1>2, <3>1
      <3>6. next'[m] \in T \cup {Eol}
        BY <1>7, <3>1, <3>2
      <3>. QED  BY <3>1, <3>3, <3>4, <3>5, <3>6
    <2>. QED  BY <2>1, <2>2, <2>3
  <1>10. front # Eol => prev'[front] = Eol
    BY <1>1, <1>2, <1>5
  <1>11. Chain(T, r)'
    BY <1>1, <1>2, <1>7, <1>8, <1>9, <1>10 DEF Chain
  <1>12. ListTypes' /\ ListEnds'
    BY <1>1, <1>2, <1>4 DEF ListTypes, ListEnds
  <1>. QED  BY <1>11, <1>12 DEF Chained, ListKept

-----------------------------------------------------------------------------
(* remove_if: in each turn of its loop the pointers go upwards, and it is  *)
(* above the node it saw last.                                             *)

Looping(S, rank) ==
    {s \in [current : S \cup {Eol}, previous : S \cup {Eol},
            nx : [Node -> Node \cup {Eol}], front : S \cup {Eol}] :
        /\ \A m \in S : s.nx[m] \in S \cup {Eol}
        /\ \A m \in S : s.nx[m] # Eol => rank[m] < rank[s.nx[m]]
        /\ s.previous # Eol /\ s.current # Eol => rank[s.previous] < rank[s.current]}

LEMMA TurnKeeps ==
    ASSUME NEW S \in SUBSET Node, NEW rank \in [Node -> Int],
           NEW s \in Looping(S, rank), NEW match, NEW first \in BOOLEAN
    PROVE  Visited(s, match, first) \in Looping(S, rank)
  <1> DEFINE after   == s.nx[s.current]
             matched == s.current \in match
             nx      == IF matched /\ s.previous # Eol
                        THEN [s.nx EXCEPT ![s.previous] = after] ELSE s.nx
             t       == [current  |-> IF matched /\ first THEN Eol ELSE after,
                         previous |-> s.current,
                         nx       |-> nx,
                         front    |-> IF matched /\ s.previous = Eol THEN after ELSE s.front]
  <1>1. /\ s.current \in S \cup {Eol} /\ s.previous \in S \cup {Eol} /\ s.front \in S \cup {Eol}
        /\ s.nx \in [Node -> Node \cup {Eol}]
        /\ \A m \in S : s.nx[m] \in S \cup {Eol}
        /\ \A m \in S : s.nx[m] # Eol => rank[m] < rank[s.nx[m]]
        /\ s.previous # Eol /\ s.current # Eol => rank[s.previous] < rank[s.current]
    BY DEF Looping
  <1>2. CASE s.current = Eol
    BY <1>2 DEF Visited
  <1>3. CASE s.current # Eol
    <2>1. s.current \in S /\ after \in S \cup {Eol} /\ (after # Eol => rank[s.current] < rank[after])
      BY <1>1, <1>3
    <2>2. Visited(s, match, first) = t
      BY <1>3 DEF Visited
    <2>3. /\ nx \in [Node -> Node \cup {Eol}]
          /\ \A m \in S : nx[m] = s.nx[m] \/ (m = s.previous /\ m # Eol /\ nx[m] = after)
      BY <1>1, <2>1
    <2>4. \A m \in S : rank[m] \in Int
      OBVIOUS
    <2>5. s.previous # Eol /\ after # Eol => rank[s.previous] < rank[after]
      BY <1>1, <1>3, <2>1, <2>4
    <2> HIDE DEF nx, after, matched
    <2>6. \A m \in S : nx[m] \in S \cup {Eol}
      BY <1>1, <2>1, <2>3
    <2>7. \A m \in S : nx[m] # Eol => rank[m] < rank[nx[m]]
      BY <1>1, <2>3, <2>5
    <2>8. /\ t \in [current : S \cup {Eol}, previous : S \cup {Eol},
                    nx : [Node -> Node \cup {Eol}], front : S \cup {Eol}]
          /\ t.nx = nx /\ t.previous = s.current /\ t.current \in {Eol, after}
      BY <1>1, <2>1, <2>3
    <2>9. t.previous # Eol /\ t.current # Eol => rank[t.previous] < rank[t.current]
      BY <2>1, <2>8
    <2> HIDE DEF t
    <2>10. t \in Looping(S, rank)
      BY <2>6, <2>7, <2>8, <2>9 DEF Looping
    <2>. QED  BY <2>2, <2>10
  <1>. QED  BY <1>2, <1>3

LEMMA IfRemoved ==
    ASSUME ListTypes, NEW S, NEW rank, OnChain(S, rank),
           NEW match, NEW first \in BOOLEAN, RemoveIf(match, first)
    PROVE  ListKept'
  <1> DEFINE start  == [current |-> front, previous |-> Eol, nx |-> next, front |-> front]
             Rec(h) == [k \in Nat |->
                          IF k = 0 THEN [current |-> front, previous |-> Eol, nx |-> next, front |-> front]
                          ELSE Visited(h[k - 1], match, first)]
             s      == CHOOSE h : h = Rec(h)
             end    == s[Cardinality(Node)]
  <1>1. kind = "forward" /\ front' = end.front /\ next' = end.nx /\ UNCHANGED <<kind, back, prev>>
    BY DEF RemoveIf
  <1>2. S \in SUBSET Node /\ rank \in [Node -> Int]
    BY DEF OnChain, Chain
  <1>3. PICK Q : Q = Looping(S, rank)
    OBVIOUS
  <1>4. start \in Q
    BY <1>3 DEF OnChain, Chain, ListTypes, Looping
  <1>5. \A t \in Q : Visited(t, match, first) \in Q
    BY <1>2, <1>3, TurnKeeps
  <1>6. s = Rec(s)
    <2>1. PICK x : x = start
      OBVIOUS
    <2>2. PICK f : f = [t \in Q |-> Visited(t, match, first)]
      OBVIOUS
    <2>3. PICK g : g \in Forever(Q, f, x)
      <3>1. f \in [Q -> Q] /\ x \in Q
        BY <1>4, <1>5, <2>1, <2>2
      <3>. QED  BY <3>1, Iterates
    <2>4. ASSUME NEW k \in Nat PROVE g[k] = Rec(g)[k]
      <3>1. CASE k = 0
        BY <2>1, <2>3, <3>1 DEF Forever
      <3>2. CASE k # 0
        <4>1. k - 1 \in Nat /\ (k - 1) + 1 = k
          BY <3>2
        <4>2. g[k] = f[g[k - 1]] /\ g[k - 1] \in Q
          BY <2>3, <4>1 DEF Forever
        <4>3. g[k] = Visited(g[k - 1], match, first)
          BY <2>2, <4>2
        <4>. QED  BY <3>2, <4>3
      <3>. QED  BY <3>1, <3>2
    <2>5. g = Rec(g)
      BY <2>3, <2>4 DEF Forever
    <2>. QED  BY <2>5
  <1> HIDE DEF s
  <1>7. s[0] = start
    BY <1>6
  <1>8. ASSUME NEW k \in Nat PROVE s[k + 1] = Visited(s[k], match, first)
    <2>1. k + 1 \in Nat /\ k + 1 # 0 /\ (k + 1) - 1 = k
      OBVIOUS
    <2>. QED  BY <1>6, <2>1
  <1>9. \A k \in Nat : s[k] \in Q
    <2> DEFINE Bad == {k \in Nat : s[k] \notin Q}
    <2>1. SUFFICES ASSUME Bad # {} PROVE FALSE
      OBVIOUS
    <2>2. PICK k \in Bad : \A j \in Bad : k <= j
      <3>1. Bad \in SUBSET Nat
        OBVIOUS
      <3>. QED  BY <2>1, <3>1, Least
    <2>3. k # 0
      BY <1>4, <1>7, <2>2
    <2>4. k - 1 \in Nat /\ (k - 1) + 1 = k /\ k - 1 \notin Bad
      BY <2>2, <2>3
    <2>5. s[k] = Visited(s[k - 1], match, first) /\ s[k - 1] \in Q
      BY <1>8, <2>4
    <2>. QED  BY <1>5, <2>2, <2>5
  <1>10. /\ end.nx \in [Node -> Node \cup {Eol}] /\ end.front \in S \cup {Eol}
         /\ \A m \in S : end.nx[m] \in S \cup {Eol}
         /\ \A m \in S : end.nx[m] # Eol => rank[m] < rank[end.nx[m]]
    BY <1>3, <1>9, NodesFinite DEF Looping
  <1> HIDE DEF end
  <1>11. Chain(S, rank)'
    BY <1>1, <1>2, <1>10 DEF Chain
  <1>12. ListTypes' /\ ListEnds'
    BY <1>1, <1>2, <1>10 DEF ListTypes, ListEnds
  <1>. QED  BY <1>11, <1>12 DEF Chained, ListKept

LEMMA ListStep ==
    ASSUME ListInv, CarefulListNext
    PROVE  ListInv' /\ kind # "circle" /\ kind' = kind
  <1>1. ListTypes /\ ListEnds
    BY TypesOf DEF ListInv, ListEnds
  <1>2. PICK S, rank : OnChain(S, rank)
    BY Unfold
  <1>3. /\ S = OnList /\ \A n \in Free : n \in Node /\ n \notin S
        /\ \A p \in OnList : p \in S
    BY <1>2 DEF OnChain, Free
  <1>4. CASE PopFront
    BY <1>1, <1>2, <1>4, FrontPopped, KeptNext DEF PopFront
  <1>5. CASE Clear
    BY <1>1, <1>2, <1>5, Cleared, KeptNext DEF Clear
  <1>6. ASSUME NEW n \in Free, PushFront(n), kind = "tail" => (front = Eol => back = Eol)
        PROVE  ListInv' /\ kind # "circle" /\ kind' = kind
    BY <1>1, <1>2, <1>3, <1>6, FrontPushed, KeptNext DEF PushFront
  <1>7. ASSUME NEW n \in Free, PushBack(n), front = Eol => back = Eol, next[n] = Eol
        PROVE  ListInv' /\ kind # "circle" /\ kind' = kind
    BY <1>1, <1>2, <1>3, <1>7, BackPushed, KeptNext DEF PushBack
  <1>8. ASSUME NEW n \in Free, PushFrontDouble(n)
        PROVE  ListInv' /\ kind # "circle" /\ kind' = kind
    BY <1>1, <1>2, <1>3, <1>8, DoubleFrontPushed, KeptNext DEF PushFrontDouble
  <1>9. ASSUME NEW n \in Free, PushBackDouble(n)
        PROVE  ListInv' /\ kind # "circle" /\ kind' = kind
    BY <1>1, <1>2, <1>3, <1>9, DoubleBackPushed, KeptNext DEF PushBackDouble
  <1>10. ASSUME NEW n \in Free, NEW p \in OnList, InsertAfter(p, n)
         PROVE  ListInv' /\ kind # "circle" /\ kind' = kind
    BY <1>1, <1>2, <1>3, <1>10, AfterInserted, KeptNext DEF InsertAfter
  <1>11. ASSUME NEW n \in Free, NEW p \in OnList, ReplaceAfter(p, n)
         PROVE  ListInv' /\ kind # "circle" /\ kind' = kind
    BY <1>1, <1>2, <1>3, <1>11, AfterReplaced, KeptNext DEF ReplaceAfter
  <1>12. ASSUME NEW n \in Free, NEW p \in OnList, InsertDouble(p, n)
         PROVE  ListInv' /\ kind # "circle" /\ kind' = kind
    BY <1>1, <1>2, <1>3, <1>12, DoubleInserted, KeptNext DEF InsertDouble
  <1>13. ASSUME NEW p \in OnList, EraseAfter(p)
         PROVE  ListInv' /\ kind # "circle" /\ kind' = kind
    BY <1>1, <1>2, <1>3, <1>13, AfterErased, KeptNext DEF EraseAfter
  <1>14. ASSUME NEW match \in SUBSET OnList, NEW first \in BOOLEAN, RemoveIf(match, first)
         PROVE  ListInv' /\ kind # "circle" /\ kind' = kind
    BY <1>1, <1>2, <1>14, IfRemoved, KeptNext DEF RemoveIf
  <1>. QED  BY <1>4, <1>5, <1>6, <1>7, <1>8, <1>9, <1>10, <1>11, <1>12, <1>13, <1>14
            DEF CarefulListNext

-----------------------------------------------------------------------------
(* linked_ref: the order in which the references point to each other, from *)
(* whichever of them one begins.                                           *)

RefTypes == ListTypes /\ alive \subseteq Node

LEMMA LinkedIs ==
    ASSUME RefTypes
    PROVE  /\ Linked \subseteq Node /\ Linked \subseteq alive /\ Eol \notin Linked
           /\ IsFiniteSet(Linked) /\ Cardinality(Linked) \in Nat
           /\ Cardinality(Linked) <= Cardinality(Node)
           /\ Cardinality(Linked) = 0 <=> Linked = {}
  <1>1. PICK S : S = Linked
    OBVIOUS
  <1>2. S \in SUBSET Node /\ S \subseteq alive /\ Eol \notin S
    BY <1>1, NodesFinite DEF RefTypes, Linked
  <1>3. IsFiniteSet(S) /\ Cardinality(S) <= Cardinality(Node)
    BY <1>2, NodesFinite, FS_Subset
  <1>4. Cardinality(S) \in Nat /\ (Cardinality(S) = 0 <=> S = {})
    BY <1>3, FS_CardinalityType, FS_EmptySet
  <1>. QED  BY <1>1, <1>2, <1>3, <1>4

LEMMA Rotated ==
    ASSUME NEW m \in Nat, NEW order \in [0..m-1 -> Linked], GoesRound(order, m), NEW r \in Linked
    PROVE  \E o \in [0..m-1 -> Linked] : GoesRound(o, m) /\ o[0] = r
  <1>1. /\ {order[i] : i \in 0..m-1} = Linked
        /\ \A i, j \in 0..m-1 : order[i] = order[j] => i = j
        /\ \A i \in 0..m-1 : next[order[i]] = order[IF i + 1 = m THEN 0 ELSE i + 1]
    BY DEF GoesRound
  <1>2. PICK j \in 0..m-1 : order[j] = r
    BY <1>1
  <1> DEFINE at(i) == IF i + j < m THEN i + j ELSE i + j - m
  <1>3. \A i \in 0..m-1 : at(i) \in 0..m-1
    BY <1>2
  <1>4. \A i, k \in 0..m-1 : at(i) = at(k) => i = k
    BY <1>2
  <1>5. \A k \in 0..m-1 : \E i \in 0..m-1 : at(i) = k
    <2>1. ASSUME NEW k \in 0..m-1, k >= j PROVE k - j \in 0..m-1 /\ at(k - j) = k
      BY <1>2, <2>1
    <2>2. ASSUME NEW k \in 0..m-1, ~(k >= j) PROVE k - j + m \in 0..m-1 /\ at(k - j + m) = k
      BY <1>2, <2>2
    <2> HIDE DEF at
    <2>. QED  BY <2>1, <2>2
  <1>6. \A i \in 0..m-1 : at(IF i + 1 = m THEN 0 ELSE i + 1)
                          = IF at(i) + 1 = m THEN 0 ELSE at(i) + 1
    BY <1>2
  <1>7. at(0) = j
    BY <1>2
  <1> HIDE DEF at
  <1>8. PICK o : o = [i \in 0..m-1 |-> order[at(i)]]
    OBVIOUS
  <1>9. o \in [0..m-1 -> Linked] /\ \A i \in 0..m-1 : o[i] = order[at(i)]
    BY <1>3, <1>8
  <1>10. 0 \in 0..m-1 /\ o[0] = r
    BY <1>2, <1>7, <1>9
  <1>11. {o[i] : i \in 0..m-1} = Linked
    <2>1. ASSUME NEW x \in Linked PROVE \E i \in 0..m-1 : o[i] = x
      <3>1. PICK k \in 0..m-1 : order[k] = x
        BY <1>1
      <3>2. PICK i \in 0..m-1 : at(i) = k
        BY <1>5
      <3>. QED  BY <1>9, <3>1, <3>2
    <2>. QED  BY <1>9, <2>1
  <1>12. \A i, k \in 0..m-1 : o[i] = o[k] => i = k
    BY <1>1, <1>3, <1>4, <1>9
  <1>13. ASSUME NEW i \in 0..m-1 PROVE next[o[i]] = o[IF i + 1 = m THEN 0 ELSE i + 1]
    <2>1. (IF i + 1 = m THEN 0 ELSE i + 1) \in 0..m-1
      BY <1>2
    <2>2. next[o[i]] = order[IF at(i) + 1 = m THEN 0 ELSE at(i) + 1]
      BY <1>1, <1>3, <1>9
    <2>. QED  BY <1>6, <1>9, <2>1, <2>2
  <1>. QED  BY <1>9, <1>10, <1>11, <1>12, <1>13 DEF GoesRound

\* What a reference r finds on its way round.
LEMMA WayRound ==
    ASSUME RefTypes, NEW m \in Nat, m = Cardinality(Linked), NEW r \in Linked,
           NEW o \in [0..m-1 -> Linked], GoesRound(o, m), o[0] = r
    PROVE  /\ m >= 1
           /\ \A p \in Linked : (next[p] = r) <=> (p = o[m - 1])
           /\ next[r] = r <=> m = 1
           /\ next[r] \in Linked
           /\ Circle(r) = Linked
           /\ count_shared(r) = m
           /\ Before(r) = o[m - 1]
  <1> DEFINE N == Cardinality(Node)
  <1>1. N \in Nat /\ m <= N /\ m >= 1 /\ Eol \notin Linked /\ Linked \subseteq Node
    BY LinkedIs, NodesFinite
  <1>2. /\ {o[i] : i \in 0..m-1} = Linked
        /\ \A i, j \in 0..m-1 : o[i] = o[j] => i = j
        /\ \A i \in 0..m-1 : next[o[i]] = o[IF i + 1 = m THEN 0 ELSE i + 1]
    BY DEF GoesRound
  <1>3. \A i \in 0..m-1 : (IF i + 1 = m THEN 0 ELSE i + 1) \in 0..m-1
    BY <1>1
  <1>4. \A n \in Linked : next[n] \in Linked
    BY <1>2, <1>3
  <1>5. m - 1 \in 0..m-1 /\ 0 \in 0..m-1 /\ next[o[m - 1]] = r
    BY <1>1, <1>2
  <1>6. \A p \in Linked : next[p] = r <=> p = o[m - 1]
    <2>1. ASSUME NEW p \in Linked, next[p] = r PROVE p = o[m - 1]
      <3>1. PICK i \in 0..m-1 : p = o[i]
        BY <1>2
      <3>2. i + 1 = m
        <4>1. SUFFICES ASSUME i + 1 # m PROVE FALSE
          OBVIOUS
        <4>2. o[i + 1] = o[0] /\ i + 1 \in 0..m-1 /\ i + 1 # 0
          BY <1>1, <1>2, <2>1, <3>1, <4>1
        <4>. QED  BY <1>2, <1>5, <4>2
      <3>3. i = m - 1
        BY <1>1, <3>2
      <3>. QED  BY <3>1, <3>3
    <2>. QED  BY <1>5, <2>1
  <1>7. next[r] = r <=> m = 1
    <2>1. next[r] = r <=> o[0] = o[m - 1]
      BY <1>6
    <2>2. o[0] = o[m - 1] <=> 0 = m - 1
      BY <1>2, <1>5
    <2>. QED  BY <1>1, <2>1, <2>2
  <1>8. /\ Path(r)[0] = r
        /\ \A k \in 0..N : Path(r)[k] \in Linked
        /\ \A k \in 0..N-1 : Path(r)[k + 1] = next[Path(r)[k]]
        /\ DOMAIN Path(r) = 0..N
    <2>1. \A n \in Linked : After(n) \in Linked
      BY <1>1, <1>4 DEF After
    <2>2. /\ Path(r)[0] = r
          /\ \A k \in 0..N : Path(r)[k] \in Linked
          /\ \A k \in 0..N-1 : Path(r)[k + 1] = After(Path(r)[k])
          /\ DOMAIN Path(r) = 0..N
      BY <2>1, PathIs
    <2>3. \A k \in 0..N-1 : k \in 0..N
      BY <1>1
    <2>. QED  BY <1>1, <2>2, <2>3 DEF After
  <1>9. \A k \in 0..m-1 : Path(r)[k] = o[k]
    <2> DEFINE Bad == {k \in 0..m-1 : Path(r)[k] # o[k]}
    <2>1. SUFFICES ASSUME Bad # {} PROVE FALSE
      OBVIOUS
    <2>2. PICK k \in Bad : \A j \in Bad : k <= j
      <3>1. Bad \in SUBSET Nat
        OBVIOUS
      <3>. QED  BY <2>1, <3>1, Least
    <2>3. k # 0
      BY <1>8, <2>2
    <2>4. /\ k - 1 \in 0..m-1 /\ k - 1 \in 0..N-1 /\ (k - 1) + 1 = k /\ k # m
          /\ k - 1 \notin Bad
      BY <1>1, <2>2, <2>3
    <2>5. Path(r)[k - 1] = o[k - 1] /\ Path(r)[k] = next[Path(r)[k - 1]]
      BY <1>8, <2>4
    <2>6. next[o[k - 1]] = o[k]
      BY <1>2, <2>4
    <2>. QED  BY <2>2, <2>5, <2>6
  <1>10. Path(r)[m] = r
    <2>1. m - 1 \in 0..N-1 /\ (m - 1) + 1 = m
      BY <1>1
    <2>. QED  BY <1>5, <1>8, <1>9, <2>1
  <1>11. Circle(r) = Linked
    <2>1. \A x \in Linked : \E k \in 0..N : Path(r)[k] = x
      <3>1. \A k \in 0..m-1 : k \in 0..N
        BY <1>1
      <3>. QED  BY <1>2, <1>9, <3>1
    <2>. QED  BY <1>8, <2>1 DEF Circle
  <1>12. count_shared(r) = m
    <2>1. \A j \in 1..m-1 : j \in 0..m-1 /\ j # 0
      BY <1>1
    <2>2. \A j \in 1..m-1 : Path(r)[j] # r
      BY <1>2, <1>5, <1>9, <2>1
    <2>3. m \in 1..N /\ Path(r)[m] = r /\ \A j \in 1..m-1 : Path(r)[j] # r
      BY <1>1, <1>10, <2>2
    <2>4. ASSUME NEW k \in 1..N, Path(r)[k] = r, \A j \in 1..k-1 : Path(r)[j] # r
          PROVE  k = m
      <3>1. ~(k < m)
        BY <1>1, <2>2, <2>4
      <3>2. ~(m < k)
        BY <1>1, <1>10, <2>4
      <3>. QED  BY <1>1, <3>1, <3>2
    <2>5. count_shared(r) \in 1..N /\ Path(r)[count_shared(r)] = r
          /\ \A j \in 1..count_shared(r)-1 : Path(r)[j] # r
      BY <2>3 DEF count_shared
    <2>. QED  BY <2>4, <2>5
  <1>13. Before(r) = o[m - 1]
    <2>1. \E p \in Circle(r) : next[p] = r
      BY <1>5, <1>6, <1>11
    <2>2. Before(r) \in Circle(r) /\ next[Before(r)] = r
      BY <2>1 DEF Before
    <2>. QED  BY <1>6, <1>11, <2>2
  <1>. QED  BY <1>1, <1>4, <1>6, <1>7, <1>11, <1>12, <1>13

LEMMA Predecessor ==
    ASSUME RefTypes, NEW m \in Nat, m = Cardinality(Linked), NEW r \in Linked,
           NEW o \in [0..m-1 -> Linked], GoesRound(o, m), o[0] = r,
           NEW p \in Linked, next[p] = r
    PROVE  m >= 1 /\ p = o[m - 1]
  <1>1. m >= 1
    BY WayRound
  <1>2. \A x \in Linked : (next[x] = r) <=> (x = o[m - 1])
    BY WayRound
  <1>. QED  BY <1>1, <1>2

Round == \E order \in [0..Cardinality(Linked)-1 -> Linked] : GoesRound(order, Cardinality(Linked))

LEMMA RefTypesOf == RefInv => RefTypes /\ Round
  BY TypesOf DEF RefInv, RefTypes, Round

LEMMA From ==
    ASSUME RefTypes, Round, NEW r \in Linked
    PROVE  \E m \in Nat : /\ m = Cardinality(Linked)
                          /\ \E o \in [0..m-1 -> Linked] : GoesRound(o, m) /\ o[0] = r
  <1>1. PICK m \in Nat : m = Cardinality(Linked)
    BY LinkedIs
  <1>2. PICK order \in [0..m-1 -> Linked] : GoesRound(order, m)
    BY <1>1 DEF Round
  <1>. QED  BY <1>1, <1>2, Rotated

LEMMA Circular == RefInv => GoesInACircle
  <1> SUFFICES ASSUME RefInv, NEW r \in Linked
               PROVE  Circle(r) = Linked /\ count_shared(r) = Cardinality(Linked)
    BY DEF GoesInACircle
  <1>1. PICK m \in Nat : /\ m = Cardinality(Linked)
                         /\ \E o \in [0..m-1 -> Linked] : GoesRound(o, m) /\ o[0] = r
    BY RefTypesOf, From
  <1>2. PICK o \in [0..m-1 -> Linked] : GoesRound(o, m) /\ o[0] = r
    BY <1>1
  <1>. QED  BY <1>1, <1>2, RefTypesOf, WayRound

-----------------------------------------------------------------------------
(* The calls on references leave the lists alone, and the circle whole.    *)

LEMMA NoList ==
    ASSUME ListInv, kind = "circle", UNCHANGED <<kind, front, back, prev>>,
           next' \in [Node -> Node \cup {Eol}]
    PROVE  ListInv' /\ ListTypes'
  <1>1. ListTypes /\ front = Eol
    BY TypesOf DEF ListInv
  <1>2. ListTypes' /\ ListEnds'
    BY <1>1 DEF ListTypes, ListEnds
  <1>3. Chain({}, [n \in Node |-> 0])'
    BY <1>1 DEF Chain
  <1>4. Chained'
    BY <1>3 DEF Chained
  <1>. QED  BY <1>2, <1>4, KeptNext DEF ListKept

LEMMA ConstructStep ==
    ASSUME RefInv, NEW r \in Node, ConstructLinked(r)
    PROVE  RefInv'
  <1>1. /\ kind = "circle" /\ alive' = {r} /\ next' = [next EXCEPT ![r] = r] /\ destructs' = 0
        /\ UNCHANGED <<kind, front, back, prev>>
    BY DEF ConstructLinked
  <1>2. ListTypes /\ ListInv /\ r # Eol
    BY TypesOf, NodesFinite DEF RefInv
  <1>3. next' \in [Node -> Node \cup {Eol}] /\ next'[r] = r
    BY <1>1, <1>2 DEF ListTypes
  <1>4. Linked' = {r}
    BY <1>1, <1>2, <1>3 DEF Linked
  <1>5. PICK o : o = [i \in 0..0 |-> r]
    OBVIOUS
  <1>6. Cardinality(Linked') = 1 /\ Linked' # {}
    BY <1>4, FS_Singleton
  <1>7. o \in [0..0 -> Linked'] /\ GoesRound(o, 1)'
    BY <1>3, <1>4, <1>5 DEF GoesRound
  <1>8. Round'
    BY <1>6, <1>7 DEF Round
  <1>9. ListInv'
    BY <1>1, <1>2, <1>3, NoList
  <1>. QED  BY <1>1, <1>6, <1>8, <1>9 DEF RefInv, Round, LastDestroys

LEMMA AttachStep ==
    ASSUME RefInv, NEW r \in Node, NEW s \in Linked, Attach(r, s)
    PROVE  RefInv'
  <1>1. /\ r \notin alive /\ alive' = alive \cup {r} /\ destructs' = destructs
        /\ next' = [next EXCEPT ![s] = r, ![r] = next[s]]
        /\ UNCHANGED <<kind, front, back, prev>>
    BY DEF Attach, InsertedAfter
  <1>2. RefTypes /\ Round /\ ListInv /\ ListTypes
    BY RefTypesOf DEF RefInv, RefTypes
  <1>3. /\ s \in alive /\ s \in Node /\ Linked \subseteq Node /\ r \notin Linked /\ r # Eol
        /\ Eol \notin Linked /\ IsFiniteSet(Linked) /\ kind = "circle" /\ destructs = 0
    BY <1>1, <1>2, LinkedIs, NodesFinite DEF RefInv, LastDestroys
  <1>4. next[s] \in Linked
    <2>1. PICK m \in Nat : /\ m = Cardinality(Linked)
                           /\ \E o \in [0..m-1 -> Linked] : GoesRound(o, m) /\ o[0] = s
      BY <1>2, From
    <2>. QED  BY <1>2, <2>1, WayRound
  <1>5. PICK t \in Linked : t = next[s]
    BY <1>4
  <1>6. PICK m \in Nat : /\ m = Cardinality(Linked)
                         /\ \E o \in [0..m-1 -> Linked] : GoesRound(o, m) /\ o[0] = t
    BY <1>2, From
  <1>7. PICK o \in [0..m-1 -> Linked] : GoesRound(o, m) /\ o[0] = t
    BY <1>6
  <1>8. m >= 1 /\ s = o[m - 1]
    <2>1. next[s] = t
      BY <1>5
    <2>. QED  BY <1>2, <1>6, <1>7, <2>1, Predecessor
  <1>9. /\ {o[i] : i \in 0..m-1} = Linked
        /\ \A i, j \in 0..m-1 : o[i] = o[j] => i = j
        /\ \A i \in 0..m-1 : next[o[i]] = o[IF i + 1 = m THEN 0 ELSE i + 1]
    BY <1>7 DEF GoesRound
  <1>10. /\ next' \in [Node -> Node \cup {Eol}] /\ next'[s] = r /\ next'[r] = t
         /\ \A n \in Node : n # s /\ n # r => next'[n] = next[n]
    BY <1>1, <1>2, <1>3, <1>5 DEF ListTypes
  <1>11. Linked' = Linked \cup {r}
    <2>1. t # Eol
      BY <1>3
    <2>2. \A x \in alive : x \in Node /\ x # r
      BY <1>1, <1>2 DEF RefTypes
    <2>. QED  BY <1>1, <1>3, <1>10, <2>1, <2>2 DEF Linked
  <1>12. Cardinality(Linked') = m + 1
    BY <1>3, <1>6, <1>11, FS_AddElement
  <1>13. PICK q : q = [i \in 0..m |-> IF i = m THEN r ELSE o[i]]
    OBVIOUS
  <1>14. q[m] = r /\ \A i \in 0..m-1 : i # m /\ i \in 0..m /\ q[i] = o[i]
    BY <1>13
  <1>15. \A i \in 0..m : i = m \/ i \in 0..m-1
    OBVIOUS
  <1>16. q \in [0..m -> Linked'] /\ {q[i] : i \in 0..m} = Linked'
    BY <1>9, <1>11, <1>13, <1>14, <1>15
  <1>17. \A i, j \in 0..m : q[i] = q[j] => i = j
    BY <1>3, <1>9, <1>14, <1>15
  <1>18. ASSUME NEW i \in 0..m
         PROVE  next'[q[i]] = q[IF i + 1 = m + 1 THEN 0 ELSE i + 1]
    <2>1. CASE i = m
      <3>1. 0 \in 0..m-1 /\ q[0] = t
        BY <1>7, <1>8, <1>14
      <3>. QED  BY <1>10, <1>14, <2>1, <3>1
    <2>2. CASE i = m - 1
      BY <1>8, <1>10, <1>14, <2>2
    <2>3. CASE i # m /\ i # m - 1
      <3>1. i \in 0..m-1 /\ i + 1 \in 0..m-1 /\ i + 1 # m /\ i + 1 # m + 1 /\ m - 1 \in 0..m-1
        BY <1>8, <2>3
      <3>2. next[o[i]] = o[i + 1] /\ o[i] # s /\ o[i] \in Node /\ o[i] # r
        BY <1>3, <1>8, <1>9, <2>3, <3>1
      <3>. QED  BY <1>10, <1>14, <3>1, <3>2
    <2>. QED  BY <2>1, <2>2, <2>3
  <1>19. PICK l : l = m + 1
    OBVIOUS
  <1>20. q \in [0..l-1 -> Linked'] /\ GoesRound(q, l)'
    <2>1. 0..l-1 = 0..m /\ l \in Nat
      BY <1>19
    <2>. QED  BY <1>16, <1>17, <1>18, <1>19, <2>1 DEF GoesRound
  <1>21. Round'
    BY <1>12, <1>19, <1>20 DEF Round
  <1>22. ListInv'
    BY <1>1, <1>2, <1>3, <1>10, NoList
  <1>. QED  BY <1>1, <1>2, <1>3, <1>11, <1>21, <1>22 DEF RefInv, Round, LastDestroys, RefTypes

LEMMA MoveStep ==
    ASSUME RefInv, NEW r \in Node, NEW s \in Linked, next[s] # s, MoveLinked(r, s)
    PROVE  RefInv'
  <1>1. /\ r \notin alive /\ alive' = alive \cup {r} /\ destructs' = destructs
        /\ UNCHANGED <<kind, front, back, prev>>
    BY DEF MoveLinked
  <1>2. RefTypes /\ Round /\ ListInv /\ ListTypes
    BY RefTypesOf DEF RefInv, RefTypes
  <1>3. /\ s \in alive /\ s \in Node /\ Linked \subseteq Node /\ r \notin Linked /\ r # Eol
        /\ Eol \notin Linked /\ IsFiniteSet(Linked) /\ kind = "circle" /\ destructs = 0
    BY <1>1, <1>2, LinkedIs, NodesFinite DEF RefInv, LastDestroys
  <1>4. PICK m \in Nat : /\ m = Cardinality(Linked)
                         /\ \E o \in [0..m-1 -> Linked] : GoesRound(o, m) /\ o[0] = s
    BY <1>2, From
  <1>5. PICK o \in [0..m-1 -> Linked] : GoesRound(o, m) /\ o[0] = s
    BY <1>4
  <1>6. m >= 1 /\ (next[s] = s <=> m = 1) /\ Before(s) = o[m - 1]
    BY <1>2, <1>4, <1>5, WayRound
  <1>7. m >= 2
    BY <1>6
  <1>8. PICK b : b = o[m - 1]
    OBVIOUS
  <1>9. /\ {o[i] : i \in 0..m-1} = Linked
        /\ \A i, j \in 0..m-1 : o[i] = o[j] => i = j
        /\ \A i \in 0..m-1 : next[o[i]] = o[IF i + 1 = m THEN 0 ELSE i + 1]
    BY <1>5 DEF GoesRound
  <1>10. m - 1 \in 0..m-1 /\ 0 \in 0..m-1 /\ 1 \in 0..m-1 /\ m - 1 # 0
    BY <1>7
  <1>11. next[s] = o[1] /\ next[b] = s /\ b \in Linked /\ b # s /\ b # r /\ r # s
    BY <1>3, <1>5, <1>7, <1>8, <1>9, <1>10
  <1>12. /\ next' \in [Node -> Node \cup {Eol}]
         /\ next'[b] = r /\ next'[r] = o[1] /\ next'[s] = Eol
         /\ \A n \in Node : n \notin {b, r, s} => next'[n] = next[n]
    <2>1. Before(s) = b /\ b \in Node /\ o[1] \in Node
      BY <1>3, <1>6, <1>8, <1>10, <1>11
    <2>2. PICK erased : erased = [next EXCEPT ![b] = o[1]]
      OBVIOUS
    <2>3. erased \in [Node -> Node \cup {Eol}] /\ erased[b] = o[1]
          /\ \A n \in Node : n # b => erased[n] = next[n]
      BY <1>2, <2>1, <2>2 DEF ListTypes
    <2>4. next' = [[erased EXCEPT ![b] = r, ![r] = o[1]] EXCEPT ![s] = Eol]
      BY <1>11, <2>1, <2>2, <2>3 DEF MoveLinked, ReplacedAfter, InsertedAfter, ErasedAfter
    <2>. QED  BY <1>3, <1>11, <2>1, <2>3, <2>4
  <1>13. Linked' = (Linked \ {s}) \cup {r}
    <2>1. o[1] # Eol
      BY <1>3, <1>10
    <2>2. \A x \in alive : x \in Node /\ x # r
      BY <1>1, <1>2 DEF RefTypes
    <2>3. \A x \in alive : x \in Linked <=> next[x] # Eol
      BY DEF Linked
    <2>4. \A x \in alive \cup {r} : next'[x] # Eol <=> x = r \/ (x \in Linked /\ x # s)
      BY <1>3, <1>11, <1>12, <2>1, <2>2, <2>3
    <2>5. Linked \subseteq alive
      BY DEF Linked
    <2>. QED  BY <1>1, <2>4, <2>5 DEF Linked
  <1>14. Cardinality(Linked') = m
    <2>1. PICK L : L = Linked
      OBVIOUS
    <2>2. IsFiniteSet(L \ {s}) /\ Cardinality(L \ {s}) = m - 1
      BY <1>3, <1>4, <2>1, FS_RemoveElement
    <2>3. Cardinality((L \ {s}) \cup {r}) = (m - 1) + 1
      BY <1>3, <2>1, <2>2, FS_AddElement
    <2>. QED  BY <1>13, <2>1, <2>3
  <1>15. PICK q : q = [o EXCEPT ![0] = r]
    OBVIOUS
  <1>16. q[0] = r /\ \A i \in 0..m-1 : i # 0 => q[i] = o[i] /\ o[i] # s
    BY <1>5, <1>9, <1>10, <1>15
  <1>17. q \in [0..m-1 -> Linked'] /\ {q[i] : i \in 0..m-1} = Linked'
    <2>1. \A x \in Linked' : \E i \in 0..m-1 : q[i] = x
      BY <1>5, <1>9, <1>10, <1>13, <1>16
    <2>2. \A i \in 0..m-1 : q[i] \in Linked'
      BY <1>9, <1>13, <1>16
    <2>. QED  BY <1>15, <2>1, <2>2
  <1>18. \A i, j \in 0..m-1 : q[i] = q[j] => i = j
    BY <1>3, <1>9, <1>16
  <1>19. ASSUME NEW i \in 0..m-1
         PROVE  next'[q[i]] = q[IF i + 1 = m THEN 0 ELSE i + 1]
    <2>1. CASE i = 0
      BY <1>7, <1>10, <1>12, <1>16, <2>1
    <2>2. CASE i = m - 1
      BY <1>8, <1>10, <1>12, <1>16, <2>2
    <2>3. CASE i # 0 /\ i # m - 1
      <3>1. i + 1 \in 0..m-1 /\ i + 1 # m /\ i + 1 # 0
        BY <2>3
      <3>2. next[o[i]] = o[i + 1] /\ o[i] \notin {b, r, s} /\ o[i] \in Node
        BY <1>3, <1>8, <1>9, <1>10, <1>16, <2>3, <3>1
      <3>. QED  BY <1>12, <1>16, <2>3, <3>1, <3>2
    <2>. QED  BY <2>1, <2>2, <2>3
  <1>20. GoesRound(q, m)'
    BY <1>17, <1>18, <1>19 DEF GoesRound
  <1>21. Round'
    BY <1>14, <1>17, <1>20 DEF Round
  <1>22. ListInv'
    BY <1>1, <1>2, <1>3, <1>12, NoList
  <1>. QED  BY <1>1, <1>2, <1>3, <1>13, <1>21, <1>22 DEF RefInv, Round, LastDestroys, RefTypes

LEMMA DestroyStep ==
    ASSUME RefInv, NEW r \in alive, Destroy(r)
    PROVE  RefInv'
  <1>1. /\ alive' = alive \ {r} /\ UNCHANGED <<kind, front, back, prev>>
        /\ next' = IF next[r] \notin {r, Eol} THEN ErasedAfter(next, Before(r)) ELSE next
        /\ destructs' = IF next[r] = r THEN destructs + 1 ELSE destructs
    BY DEF Destroy
  <1>2. RefTypes /\ Round /\ ListInv /\ ListTypes
    BY RefTypesOf DEF RefInv, RefTypes
  <1>3. /\ r \in Node /\ Linked \subseteq Node /\ Linked \subseteq alive
        /\ Eol \notin Linked /\ IsFiniteSet(Linked) /\ kind = "circle"
        /\ r \in Linked <=> next[r] # Eol
    BY <1>2, LinkedIs DEF RefInv, RefTypes, Linked
  <1>4. CASE next[r] = Eol
    <2>1. next' = next /\ destructs' = destructs
      BY <1>1, <1>3, <1>4, NodesFinite
    <2>2. Linked' = Linked
      BY <1>1, <1>3, <1>4, <2>1 DEF Linked
    <2>3. Round' /\ LastDestroys'
      BY <1>2, <2>1, <2>2 DEF Round, GoesRound, LastDestroys, RefInv
    <2>4. ListInv'
      BY <1>1, <1>2, <1>3, <2>1, NoList DEF ListTypes
    <2>. QED  BY <1>1, <1>2, <1>3, <2>3, <2>4 DEF RefInv, Round, RefTypes
  <1>5. CASE next[r] # Eol
    <2>1. r \in Linked /\ destructs = 0
      BY <1>3, <1>5 DEF RefInv, LastDestroys
    <2>2. PICK m \in Nat : /\ m = Cardinality(Linked)
                           /\ \E o \in [0..m-1 -> Linked] : GoesRound(o, m) /\ o[0] = r
      BY <1>2, <2>1, From
    <2>3. PICK o \in [0..m-1 -> Linked] : GoesRound(o, m) /\ o[0] = r
      BY <2>2
    <2>4. m >= 1 /\ (next[r] = r <=> m = 1) /\ Before(r) = o[m - 1]
      <3>1. m >= 1
        BY <1>2, <2>1, <2>2, <2>3, WayRound
      <3>2. next[r] = r <=> m = 1
        BY <1>2, <2>1, <2>2, <2>3, WayRound
      <3>3. Before(r) = o[m - 1]
        BY <1>2, <2>1, <2>2, <2>3, WayRound
      <3>. QED  BY <3>1, <3>2, <3>3
    <2>5. /\ {o[i] : i \in 0..m-1} = Linked
          /\ \A i, j \in 0..m-1 : o[i] = o[j] => i = j
          /\ \A i \in 0..m-1 : next[o[i]] = o[IF i + 1 = m THEN 0 ELSE i + 1]
      BY <2>3 DEF GoesRound
    <2>6. CASE m = 1
      <3>1. next' = next /\ destructs' = 1
        BY <1>1, <2>1, <2>4, <2>6
      <3>2. Linked = {r}
        BY <2>1, <2>2, <2>3, <2>5, <2>6
      <3>3. Linked' = {}
        BY <1>1, <3>1, <3>2 DEF Linked
      <3>4. Cardinality(Linked') = 0
        BY <3>3, FS_EmptySet
      <3>5. PICK q : q = [i \in 0..-1 |-> r]
        OBVIOUS
      <3>6. q \in [0..0-1 -> Linked'] /\ GoesRound(q, 0)'
        BY <3>3, <3>5 DEF GoesRound
      <3>7. Round'
        BY <3>4, <3>6 DEF Round
      <3>8. ListInv'
        BY <1>1, <1>2, <1>3, <3>1, NoList DEF ListTypes
      <3>. QED  BY <1>1, <1>2, <1>3, <3>1, <3>3, <3>7, <3>8
                DEF RefInv, Round, RefTypes, LastDestroys
    <2>7. CASE m # 1
      <3>1. /\ m - 1 \in 0..m-1 /\ 0 \in 0..m-1 /\ 1 \in 0..m-1 /\ m - 1 # 0 /\ 0 + 1 # m
        BY <2>4, <2>7
      <3>2. PICK b : b = o[m - 1]
        OBVIOUS
      <3>3. next[r] = o[1] /\ b \in Linked /\ b # r /\ next[r] # r
        BY <2>3, <2>4, <2>5, <2>7, <3>1, <3>2
      <3>4. next' = [next EXCEPT ![b] = o[1]] /\ destructs' = 0
        <4>1. next[b] = r
          BY <2>3, <2>5, <3>1, <3>2
        <4>. QED  BY <1>1, <1>5, <2>1, <2>4, <3>2, <3>3, <4>1 DEF ErasedAfter
      <3>5. /\ next' \in [Node -> Node \cup {Eol}] /\ next'[b] = o[1]
            /\ \A n \in Node : n # b => next'[n] = next[n]
        BY <1>2, <1>3, <3>1, <3>3, <3>4 DEF ListTypes
      <3>6. Linked' = Linked \ {r}
        <4>1. o[1] # Eol /\ b # r /\ b \in alive
          BY <1>3, <3>1, <3>3
        <4>2. \A x \in alive : x \in Node /\ (x \in Linked <=> next[x] # Eol)
          BY <1>2 DEF Linked, RefTypes
        <4>3. \A x \in alive \ {r} : next'[x] # Eol <=> x \in Linked
          BY <3>3, <3>5, <4>1, <4>2
        <4>. QED  BY <1>1, <1>3, <4>3 DEF Linked
      <3>7. Cardinality(Linked') = m - 1
        BY <1>3, <2>1, <2>2, <3>6, FS_RemoveElement
      <3>8. PICK l \in Nat : l = m - 1
        BY <2>4
      <3>9. PICK q : q = [i \in 0..l-1 |-> o[i + 1]]
        OBVIOUS
      <3>10. \A i \in 0..l-1 : i + 1 \in 0..m-1 /\ i + 1 # 0 /\ q[i] = o[i + 1]
        BY <3>8, <3>9
      <3>11. \A i \in 0..m-1 : i # 0 => i - 1 \in 0..l-1 /\ (i - 1) + 1 = i
        BY <3>8
      <3>12. q \in [0..l-1 -> Linked'] /\ {q[i] : i \in 0..l-1} = Linked'
        <4>1. \A x \in Linked' : \E i \in 0..l-1 : q[i] = x
          <5>1. ASSUME NEW x \in Linked, x # r PROVE \E i \in 0..l-1 : q[i] = x
            <6>1. PICK i \in 0..m-1 : o[i] = x
              BY <2>5
            <6>2. i # 0
              BY <2>3, <5>1, <6>1
            <6>. QED  BY <3>10, <3>11, <6>1, <6>2
          <5>. QED  BY <3>6, <5>1
        <4>2. \A i \in 0..l-1 : q[i] \in Linked'
          BY <2>3, <2>5, <3>1, <3>6, <3>10
        <4>. QED  BY <3>9, <4>1, <4>2
      <3>13. \A i, j \in 0..l-1 : q[i] = q[j] => i = j
        BY <2>5, <3>10
      <3>14. ASSUME NEW i \in 0..l-1
             PROVE  next'[q[i]] = q[IF i + 1 = l THEN 0 ELSE i + 1]
        <4>1. CASE i + 1 = l
          <5>1. q[i] = b /\ 0 \in 0..l-1 /\ q[0] = o[1]
            BY <3>2, <3>8, <3>10, <4>1
          <5>. QED  BY <3>5, <4>1, <5>1
        <4>2. CASE i + 1 # l
          <5>1. /\ i + 1 \in 0..l-1 /\ i + 1 \in 0..m-1 /\ i + 1 # m - 1 /\ (i + 1) + 1 # m
            BY <3>8, <4>2
          <5>2. next[o[i + 1]] = o[(i + 1) + 1] /\ o[i + 1] # b /\ o[i + 1] \in Node
            BY <1>3, <2>5, <3>1, <3>2, <5>1
          <5>. QED  BY <3>5, <3>10, <4>2, <5>1, <5>2
        <4>. QED  BY <4>1, <4>2
      <3>15. GoesRound(q, l)'
        BY <3>12, <3>13, <3>14 DEF GoesRound
      <3>16. Round'
        BY <3>7, <3>8, <3>12, <3>15 DEF Round
      <3>17. ListInv'
        BY <1>1, <1>2, <1>3, <3>5, NoList
      <3>18. Linked' # {}
        BY <3>3, <3>6
      <3>. QED  BY <1>1, <1>2, <1>3, <3>4, <3>16, <3>17, <3>18
                DEF RefInv, Round, RefTypes, LastDestroys
    <2>. QED  BY <2>6, <2>7
  <1>. QED  BY <1>4, <1>5

LEMMA RefStart == RefInit => RefInv
  <1> SUFFICES ASSUME RefInit PROVE RefInv
    OBVIOUS
  <1>1. ListInv
    BY ListStart, KeptIs DEF RefInit
  <1>2. Linked = {} /\ alive = {} /\ destructs = NoValue
    BY DEF RefInit, Linked
  <1>3. PICK q : q = [i \in 0..-1 |-> Eol]
    OBVIOUS
  <1>4. Cardinality(Linked) = 0
    BY <1>2, FS_EmptySet
  <1>5. q \in [0..0-1 -> Linked] /\ GoesRound(q, 0)
    BY <1>2, <1>3 DEF GoesRound
  <1>. QED  BY <1>1, <1>2, <1>4, <1>5 DEF RefInv, LastDestroys

LEMMA LinkedInvariance == CarefulRefSpec => []RefInv
  <1> DEFINE Step == (CarefulListNext /\ UNCHANGED <<alive, destructs>>) \/ CarefulRefNext
  <1>1. ASSUME RefInv, CarefulListNext, UNCHANGED <<alive, destructs>>
        PROVE  RefInv'
    <2>1. ListInv' /\ kind # "circle" /\ alive = {}
      BY <1>1, ListStep DEF RefInv
    <2>2. Linked = {} /\ Linked' = {}
      BY <1>1, <2>1 DEF Linked
    <2>3. PICK q : q = [i \in 0..-1 |-> Eol]
      OBVIOUS
    <2>4. Cardinality(Linked') = 0
      BY <2>2, FS_EmptySet
    <2>5. q \in [0..0-1 -> Linked'] /\ GoesRound(q, 0)'
      BY <2>2, <2>3 DEF GoesRound
    <2>6. Round'
      BY <2>4, <2>5 DEF Round
    <2>. QED  BY <1>1, <2>1, <2>2, <2>6 DEF RefInv, Round, LastDestroys
  <1>2. ASSUME RefInv, CarefulRefNext
        PROVE  RefInv'
    <2>1. ASSUME NEW r \in Node, ConstructLinked(r) PROVE RefInv'
      BY <1>2, <2>1, ConstructStep
    <2>2. ASSUME NEW r \in Node, NEW s \in Linked, Attach(r, s) PROVE RefInv'
      BY <1>2, <2>2, AttachStep
    <2>3. ASSUME NEW r \in Node, NEW s \in Linked, next[s] # s, MoveLinked(r, s) PROVE RefInv'
      BY <1>2, <2>3, MoveStep
    <2>4. ASSUME NEW r \in alive, Destroy(r) PROVE RefInv'
      BY <1>2, <2>4, DestroyStep
    <2>. QED  BY <1>2, <2>1, <2>2, <2>3, <2>4 DEF CarefulRefNext
  <1>3. ASSUME RefInv, UNCHANGED refVars
        PROVE  RefInv'
    <2>1. ListTypes /\ ListEnds /\ \E S, rank : OnChain(S, rank)
      BY <1>3, TypesOf, Unfold DEF RefInv, ListInv, ListEnds
    <2>2. PICK S, rank : Chain(S, rank)
      BY <2>1 DEF OnChain
    <2>3. ListKept'
      BY <1>3, <2>1, <2>2 DEF ListKept, Chained, Chain, ListTypes, ListEnds, refVars, listVars
    <2>4. ListInv'
      BY <2>3, KeptNext
    <2>5. Linked' = Linked
      BY <1>3 DEF Linked, refVars, listVars
    <2>. QED  BY <1>3, <2>4, <2>5 DEF RefInv, GoesRound, LastDestroys, refVars, listVars
  <1>4. RefInv /\ [Step]_refVars => RefInv'
    BY <1>1, <1>2, <1>3
  <1>. QED  BY RefStart, <1>4, PTL DEF CarefulRefSpec

\* A list of each of the types ends, keeps its last node, and is linked the
\* same way in both directions, however long it is and whatever was called.
THEOREM ListsWellLinked == CarefulRefSpec => []WellLinked
  BY LinkedInvariance, PTL DEF RefInv, ListInv

\* From each reference one comes round past all others, and count_shared
\* counts them all, for any number of references.
THEOREM RoundTheCircle == CarefulRefSpec => []GoesInACircle
  BY LinkedInvariance, Circular, PTL

\* The value is destroyed once, with the last reference that is linked.
THEOREM LastOneDestroys == CarefulRefSpec => []LastDestroys
  BY LinkedInvariance, PTL DEF RefInv

-----------------------------------------------------------------------------
(* shared_ptr.                                                             *)

Pointer == Block \cup {Null, Unborn}

\* References, of a state in which the pointers are f.
Refs(f, b) == {h \in Handle : f[h] = b}

\* The pointers f, but for the one at h, which is p.
With(f, h, p) == [f EXCEPT ![h] = p]

-----------------------------------------------------------------------------
(* Counting references.                                                    *)

\* The references to a control block are finitely many, no more than there
\* are places for them.
LEMMA RefsFinite ==
    ASSUME NEW f, NEW b
    PROVE  /\ IsFiniteSet(Refs(f, b))
           /\ Cardinality(Refs(f, b)) \in Nat
           /\ Cardinality(Refs(f, b)) <= Cardinality(Handle)
           /\ Cardinality(Refs(f, b)) = 0 <=> Refs(f, b) = {}
  <1>1. Refs(f, b) \in SUBSET Handle
    BY DEF Refs
  <1>2. /\ IsFiniteSet(Refs(f, b))
        /\ Cardinality(Refs(f, b)) <= Cardinality(Handle)
    BY <1>1, FS_Subset, SharedPtrAssumption
  <1>. QED  BY <1>2, FS_CardinalityType, FS_EmptySet

\* Changing the pointer at h changes the number of references by one at most.
LEMMA RefsChange ==
    ASSUME NEW f \in [Handle -> Pointer], NEW h \in Handle, NEW p, NEW b
    PROVE  LET g == With(f, h, p) IN
           /\ (f[h] = b <=> p = b) => Cardinality(Refs(g, b)) = Cardinality(Refs(f, b))
           /\ f[h] = b /\ p # b => Cardinality(Refs(g, b)) = Cardinality(Refs(f, b)) - 1
           /\ f[h] # b /\ p = b => Cardinality(Refs(g, b)) = Cardinality(Refs(f, b)) + 1
  <1> DEFINE g == With(f, h, p)
  <1>0. IsFiniteSet(Refs(f, b))
    BY RefsFinite
  <1>1. ASSUME f[h] = b <=> p = b
        PROVE  Cardinality(Refs(g, b)) = Cardinality(Refs(f, b))
    <2>1. Refs(g, b) = Refs(f, b)
      BY <1>1 DEF Refs, With
    <2>. QED  BY <2>1, Zenon
  <1>2. ASSUME f[h] = b, p # b
        PROVE  Cardinality(Refs(g, b)) = Cardinality(Refs(f, b)) - 1
    <2>1. Refs(g, b) = Refs(f, b) \ {h} /\ h \in Refs(f, b)
      BY <1>2 DEF Refs, With
    <2>2. Cardinality(Refs(f, b) \ {h}) = Cardinality(Refs(f, b)) - 1
      BY <2>1, <1>0, FS_RemoveElement
    <2>. QED  BY <2>1, <2>2, Zenon
  <1>3. ASSUME f[h] # b, p = b
        PROVE  Cardinality(Refs(g, b)) = Cardinality(Refs(f, b)) + 1
    <2>1. Refs(g, b) = Refs(f, b) \cup {h} /\ h \notin Refs(f, b)
      BY <1>3 DEF Refs, With
    <2>2. Cardinality(Refs(f, b) \cup {h}) = Cardinality(Refs(f, b)) + 1
      BY <2>1, <1>0, FS_AddElement
    <2>. QED  BY <2>1, <2>2, Zenon
  <1>. QED  BY <1>1, <1>2, <1>3, Zenon

-----------------------------------------------------------------------------
(* What the parts of a call do to one control block.                       *)

Counts == [Block -> 0..CountMod-1]

LEMMA DecrementedAt ==
    ASSUME NEW c \in Counts, NEW p, NEW b \in Block
    PROVE  /\ Decremented(c, p) \in Counts
           /\ b # p => Decremented(c, p)[b] = c[b]
           /\ b = p /\ c[b] # 0 => Decremented(c, p)[b] = c[b] - 1
  <1>1. CountMod \in Nat /\ CountMod > 0
    BY SharedPtrAssumption, FS_CardinalityType
  <1>. QED  BY <1>1 DEF Decremented, Counts

LEMMA IncrementedAt ==
    ASSUME NEW c \in Counts, NEW p, NEW b \in Block
    PROVE  /\ Incremented(c, p) \in Counts
           /\ b # p => Incremented(c, p)[b] = c[b]
           /\ b = p /\ p \in active /\ c[b] + 1 # CountMod
                => Incremented(c, p)[b] = c[b] + 1
  <1>1. CountMod \in Nat /\ CountMod > 0
    BY SharedPtrAssumption, FS_CardinalityType
  <1>. QED  BY <1>1 DEF Incremented, Counts, Succ

LEMMA DeletedAt ==
    ASSUME object \in [Block -> Objects], NEW p, NEW b \in Block
    PROVE  /\ Deleted(p) \in [Block -> Objects]
           /\ b # p => Deleted(p)[b] = object[b]
           /\ Decremented(shared_count, p)[p] # 0 => Deleted(p)[b] = object[b]
           /\ b = p /\ Decremented(shared_count, p)[b] = 0 /\ object[b] = "live"
                => Deleted(p)[b] = "deleted"
  BY DEF Deleted, Objects

-----------------------------------------------------------------------------
(* The invariant, control block by control block.                          *)

BlockOK(b) ==
    /\ b \in active => shared_count[b] = Cardinality(Refs(ptr, b)) + 1
    /\ b \notin active => shared_count[b] = Cardinality(Refs(ptr, b))
    /\ object[b] = "live" <=> shared_count[b] # 0
    /\ object[b] # "deleted twice"

BlocksInv == TypeOK /\ \A b \in Block : BlockOK(b)

\* An owned object is one whose count is not 0.
LEMMA IInvMeans == IInv <=> BlocksInv
  <1>1. ASSUME NEW b \in Block PROVE References(b) = Refs(ptr, b)
    BY DEF References, Refs
  <1>2. ASSUME NEW b \in Block
        PROVE  /\ Cardinality(References(b)) = Cardinality(Refs(ptr, b))
               /\ Cardinality(Refs(ptr, b)) \in Nat
               /\ Cardinality(Refs(ptr, b)) = 0 <=> References(b) = {}
    BY <1>1, RefsFinite, Zenon
  <1>3. ASSUME NEW b \in Block
        PROVE  shared_count[b] = Cardinality(References(b))
                                   + (IF b \in active THEN 1 ELSE 0)
               <=> /\ b \in active => shared_count[b] = Cardinality(Refs(ptr, b)) + 1
                   /\ b \notin active => shared_count[b] = Cardinality(Refs(ptr, b))
    BY <1>2
  <1>4. ASSUME NEW b \in Block,
               b \in active => shared_count[b] = Cardinality(Refs(ptr, b)) + 1,
               b \notin active => shared_count[b] = Cardinality(Refs(ptr, b))
        PROVE  Owned(b) <=> shared_count[b] # 0
    BY <1>2, <1>4 DEF Owned
  <1>. QED  BY <1>3, <1>4 DEF IInv, BlocksInv, BlockOK, LivesWhileOwned, UseCountExact

LEMMA InitInv == Init => BlocksInv
  <1> SUFFICES ASSUME Init PROVE BlocksInv
    OBVIOUS
  <1>1. TypeOK
    <2>1. 0 \in 0..CountMod-1
      BY SharedPtrAssumption, FS_CardinalityType
    <2>. QED  BY <2>1 DEF Init, TypeOK, Objects
  <1>2. ASSUME NEW b \in Block PROVE BlockOK(b)
    <2>1. Refs(ptr, b) = {}
      BY SharedPtrAssumption DEF Init, Refs
    <2>. QED  BY <2>1, FS_EmptySet DEF Init, BlockOK
  <1>. QED  BY <1>1, <1>2 DEF BlocksInv

-----------------------------------------------------------------------------
(* Masters.                                                                *)

LEMMA MasterInv ==
    ASSUME BlocksInv, NEW b \in Block,
           Construct(b) \/ ResetMaster(b) \/ DestroyMaster(b) \/ DestroyInactive(b)
    PROVE  BlocksInv'
  <1> DEFINE r == Cardinality(Refs(ptr, b))
  <1>0. /\ ptr' = ptr /\ TypeOK
        /\ r \in Nat /\ r <= Cardinality(Handle)
        /\ Cardinality(Handle) \in Nat
        /\ CountMod \in Nat /\ Cardinality(Handle) + 1 < CountMod
    BY RefsFinite, SharedPtrAssumption, FS_CardinalityType
       DEF BlocksInv, Construct, ResetMaster, DestroyMaster, DestroyInactive
  <1>a. /\ b \in active => shared_count[b] = r + 1
        /\ b \notin active => shared_count[b] = r
        /\ shared_count[b] # 0 => object[b] = "live"
        /\ object[b] = "raw" => shared_count[b] = 0
    BY DEF BlocksInv, BlockOK
  <1>b. r \in Nat /\ shared_count[b] \in Nat
    BY <1>0 DEF TypeOK
  <1>1. ASSUME \A h \in Handle : ptr[h] # b PROVE r = 0
    <2>1. Refs(ptr, b) = {}
      BY <1>1 DEF Refs
    <2>. QED  BY <2>1, FS_EmptySet
  <1> HIDE DEF r
  <1>2. /\ active' \subseteq Block /\ shared_count' \in Counts
        /\ object' \in [Block -> Objects]
        /\ \A c \in Block \ {b} : /\ shared_count'[c] = shared_count[c]
                                  /\ c \in active' <=> c \in active
                                  /\ object'[c] = object[c]
        /\ b \in active' => shared_count'[b] = r + 1
        /\ b \notin active' => shared_count'[b] = r
        /\ object'[b] = "live" <=> shared_count'[b] # 0
        /\ object'[b] # "deleted twice"
    <2>0. /\ shared_count \in Counts /\ object \in [Block -> Objects]
          /\ active \subseteq Block
      BY <1>0 DEF TypeOK, Counts
    <2>1. CASE Construct(b)
      <3>1. object[b] = "raw" /\ b \in active'
        BY <2>1 DEF Construct
      <3>2. shared_count[b] = 0
        BY <3>1, <1>a, <1>b
      <3>3. b \notin active
        BY <3>2, <1>a, <1>b
      <3>4. r = 0
        BY <3>2, <3>3, <1>a, <1>b
      <3>5. Succ(shared_count[b]) = 1 /\ 1 \in 0..CountMod-1
        BY <3>2, <1>0 DEF Succ
      <3>6. shared_count' = [shared_count EXCEPT ![b] = 1] /\ shared_count'[b] = r + 1
        BY <2>0, <2>1, <3>4, <3>5 DEF Construct, Counts
      <3>7. shared_count' \in Counts
        BY <2>0, <3>5, <3>6 DEF Counts
      <3>8. shared_count'[b] # 0 /\ object'[b] = "live"
        BY <2>0, <2>1, <3>4, <3>6 DEF Construct
      <3>9. /\ active' \subseteq Block /\ object' \in [Block -> Objects]
            /\ \A c \in Block \ {b} : /\ shared_count'[c] = shared_count[c]
                                      /\ c \in active' <=> c \in active
                                      /\ object'[c] = object[c]
        BY <2>0, <2>1, <3>6 DEF Construct, Counts, Objects
      <3>. QED  BY <3>1, <3>6, <3>7, <3>8, <3>9
    <2>2. CASE ResetMaster(b)
      <3>0. b \in active
        BY <2>2 DEF ResetMaster
      <3>1. shared_count[b] = r + 1 /\ shared_count[b] # 0
        BY <3>0, <1>a, <1>b
      <3>a. object[b] = "live"
        BY <3>1, <1>a, <1>b
      <3>2. shared_count'[b] = r /\ shared_count' \in Counts
        BY <2>0, <2>2, <3>1, <1>0, DecrementedAt DEF ResetMaster
      <3>3. Decremented(shared_count, b)[b] = r
        BY <2>2, <3>2 DEF ResetMaster
      <3>4. object'[b] = (IF r = 0 THEN "deleted" ELSE "live")
        BY <2>0, <2>2, <3>a, <3>3, DeletedAt DEF ResetMaster
      <3>5. /\ object' \in [Block -> Objects]
            /\ \A c \in Block \ {b} : /\ shared_count'[c] = shared_count[c]
                                      /\ object'[c] = object[c]
        BY <2>0, <2>2, DecrementedAt, DeletedAt DEF ResetMaster
      <3>. QED  BY <2>0, <2>2, <3>2, <3>4, <3>5 DEF ResetMaster
    <2>3. CASE DestroyMaster(b)
      <3>0. r = 0 /\ b \in active
        BY <2>3, <1>1 DEF DestroyMaster
      <3>1. shared_count[b] = 1
        BY <3>0, <1>a, <1>b
      <3>a. object[b] = "live"
        BY <3>1, <1>a, <1>b
      <3>2. Decremented(shared_count, b)[b] = 0
        BY <2>0, <3>1, DecrementedAt
      <3>3. Deleted(b)[b] = "deleted"
        BY <2>0, <3>a, <3>2, DeletedAt
      <3>4. object' = [object EXCEPT ![b] = "raw"]
        BY <2>3, <3>3 DEF DestroyMaster
      <3>5. 0 \in 0..CountMod-1
        BY <1>0
      <3>. QED  BY <2>0, <2>3, <3>0, <3>4, <3>5 DEF DestroyMaster, Counts, Objects
    <2>4. CASE DestroyInactive(b)
      <3>1. r = 0 /\ 0 \in 0..CountMod-1
        BY <2>4, <1>0, <1>1 DEF DestroyInactive
      <3>. QED  BY <2>0, <2>4, <3>1 DEF DestroyInactive, Counts, Objects
    <2>. QED  BY <2>1, <2>2, <2>3, <2>4
  <1>3. TypeOK'
    BY <1>0, <1>2 DEF TypeOK, Counts
  <1> USE DEF r
  <1>4. ASSUME NEW c \in Block \ {b} PROVE BlockOK(c)'
    BY <1>0, <1>2 DEF BlockOK, BlocksInv
  <1>5. BlockOK(b)'
    BY <1>0, <1>2 DEF BlockOK
  <1>. QED  BY <1>3, <1>4, <1>5 DEF BlocksInv

-----------------------------------------------------------------------------
(* layer3 pointers.  p is a pointer an action makes a copy of.             *)

CopyOf(p) == p \in Pointer /\ (p \in Block => p \in active)

LEMMA CopyInv ==
    ASSUME BlocksInv, NEW h \in Handle, NEW p, CopyOf(p), Copy(h, p)
    PROVE  BlocksInv'
  <1>0. /\ TypeOK /\ ptr[h] \notin Block /\ object' = object /\ active' = active
        /\ ptr \in [Handle -> Pointer] /\ shared_count \in Counts
        /\ ptr' = With(ptr, h, p) /\ ptr' \in [Handle -> Pointer]
        /\ shared_count' = Incremented(shared_count, p)
        /\ CountMod \in Nat /\ Cardinality(Handle) \in Nat
        /\ Cardinality(Handle) + 1 < CountMod
    BY SharedPtrAssumption, FS_CardinalityType
       DEF BlocksInv, TypeOK, Copy, Lives, CopyOf, Pointer, Counts, With
  <1>1. ASSUME NEW b \in Block PROVE shared_count' \in Counts /\ BlockOK(b)'
    <2>1. /\ Cardinality(Refs(ptr, b)) \in Nat
          /\ Cardinality(Refs(ptr', b)) <= Cardinality(Handle)
      BY RefsFinite
    <2>2. /\ p = b => Cardinality(Refs(ptr', b)) = Cardinality(Refs(ptr, b)) + 1
          /\ p # b => Cardinality(Refs(ptr', b)) = Cardinality(Refs(ptr, b))
      BY <1>0, RefsChange
    <2>3. BlockOK(b)
      BY DEF BlocksInv
    <2>4. CASE p = b
      <3>1. b \in active
        BY <2>4 DEF CopyOf
      <3>2. shared_count[b] = Cardinality(Refs(ptr, b)) + 1
        BY <2>3, <3>1 DEF BlockOK
      <3>3. shared_count[b] + 1 # CountMod /\ shared_count[b] # 0
        BY <2>1, <2>2, <2>4, <3>2, <1>0
      <3>4. shared_count' \in Counts /\ shared_count'[b] = shared_count[b] + 1
        BY <2>4, <3>1, <3>3, <1>0, IncrementedAt
      <3>5. shared_count'[b] = Cardinality(Refs(ptr', b)) + 1 /\ shared_count'[b] # 0
        BY <2>1, <2>2, <2>4, <3>2, <3>4
      <3>. QED  BY <2>3, <3>1, <3>3, <3>4, <3>5, <1>0 DEF BlockOK
    <2>5. CASE p # b
      <3>1. Cardinality(Refs(ptr', b)) = Cardinality(Refs(ptr, b))
        BY <2>2, <2>5
      <3>2. shared_count' \in Counts /\ shared_count'[b] = shared_count[b]
        BY <2>5, <1>0, IncrementedAt
      <3>. QED  BY <2>3, <3>1, <3>2, <1>0 DEF BlockOK
    <2>. QED  BY <2>4, <2>5
  <1>2. TypeOK'
    <2>1. shared_count' \in Counts
      <3>1. CASE Block = {}
        BY <3>1, <1>0 DEF Incremented
      <3>. QED  BY <3>1, <1>1
    <2>. QED  BY <2>1, <1>0 DEF TypeOK, Pointer, Counts
  <1>. QED  BY <1>1, <1>2 DEF BlocksInv

LEMMA AssignInv ==
    ASSUME BlocksInv, NEW h \in Handle, NEW p, CopyOf(p), AssignPointer(h, p)
    PROVE  BlocksInv'
  <1> DEFINE old == ptr[h]
             mid == Decremented(shared_count, old)
  <1>0. /\ TypeOK /\ active' = active
        /\ ptr \in [Handle -> Pointer] /\ shared_count \in Counts
        /\ ptr' = With(ptr, h, p) /\ ptr' \in [Handle -> Pointer]
        /\ shared_count' = Incremented(mid, p)
        /\ object' = Deleted(old) /\ object \in [Block -> Objects]
        /\ CountMod \in Nat /\ Cardinality(Handle) \in Nat
        /\ Cardinality(Handle) + 1 < CountMod
    BY SharedPtrAssumption, FS_CardinalityType
       DEF BlocksInv, TypeOK, AssignPointer, CopyOf, Pointer, Counts, With
  <1>1. TypeOK'
    <2>1. shared_count' \in Counts /\ object' \in [Block -> Objects]
      <3>1. CASE Block = {}
        BY <3>1, <1>0 DEF Incremented, Decremented, Deleted
      <3>2. CASE Block # {}
        <4>1. PICK b \in Block : TRUE
          BY <3>2
        <4>. QED  BY <4>1, <1>0, DecrementedAt, IncrementedAt, DeletedAt
      <3>. QED  BY <3>1, <3>2
    <2>. QED  BY <1>0, <2>1 DEF TypeOK, Pointer, Counts
  <1>2. ASSUME NEW b \in Block PROVE BlockOK(b)'
    <2> DEFINE r == Cardinality(Refs(ptr, b))
               n == Cardinality(Refs(ptr', b))
    <2>0. BlockOK(b)
      BY DEF BlocksInv
    <2>1. r \in Nat /\ n \in Nat /\ n <= Cardinality(Handle) /\ (old = b => r # 0)
      <3>1. old = b => h \in Refs(ptr, b)
        BY DEF Refs
      <3>. QED  BY <3>1, RefsFinite
    <2>2. /\ (old = b <=> p = b) => n = r
          /\ old = b /\ p # b => n = r - 1
          /\ old # b /\ p = b => n = r + 1
      BY <1>0, RefsChange
    <2>3. mid \in Counts
      BY <1>0, DecrementedAt
    <2>4. /\ p = b => b \in active
          /\ shared_count[b] # 0 => object[b] = "live"
          /\ b \in active => shared_count[b] = r + 1
          /\ b \notin active => shared_count[b] = r
      BY <2>0 DEF CopyOf, BlockOK
    <2>5. CASE old = b /\ p = b
      <3>1. n = r /\ shared_count[b] = r + 1 /\ b \in active
        BY <2>5, <2>2, <2>4
      <3>2. mid[b] = r /\ shared_count[b] # 0
        BY <2>5, <3>1, <2>1, <1>0, DecrementedAt
      <3>3. shared_count'[b] = r + 1 /\ r # 0 /\ r + 1 # 0
        BY <2>5, <2>1, <3>1, <3>2, <2>3, <1>0, IncrementedAt
      <3>4. object'[b] = "live"
        BY <2>4, <2>5, <3>2, <3>3, <1>0, DeletedAt
      <3>. QED  BY <3>1, <3>3, <3>4, <1>0 DEF BlockOK
    <2>6. CASE old = b /\ p # b
      <3>1. n = r - 1 /\ shared_count[b] # 0 /\ shared_count[b] \in Nat
        BY <2>6, <2>1, <2>2, <2>4
      <3>2. mid[b] = shared_count[b] - 1
        BY <2>6, <3>1, <1>0, DecrementedAt
      <3>3. shared_count'[b] = shared_count[b] - 1
        BY <2>6, <3>2, <2>3, <1>0, IncrementedAt
      <3>4. object'[b] = (IF shared_count'[b] = 0 THEN "deleted" ELSE "live")
        BY <2>6, <2>4, <3>1, <3>2, <3>3, <1>0, DeletedAt
      <3>5. /\ b \in active => shared_count'[b] = n + 1
            /\ b \notin active => shared_count'[b] = n
        BY <2>1, <2>4, <3>1, <3>3
      <3>. QED  BY <3>4, <3>5, <1>0 DEF BlockOK
    <2>7. CASE old # b /\ p = b
      <3>1. n = r + 1 /\ shared_count[b] = r + 1 /\ b \in active
        BY <2>7, <2>2, <2>4
      <3>2. mid[b] = r + 1 /\ r + 2 # CountMod /\ shared_count[b] # 0 /\ r + 2 # 0
        BY <2>7, <2>1, <3>1, <1>0, DecrementedAt
      <3>3. shared_count'[b] = r + 2
        BY <2>7, <2>1, <3>1, <3>2, <2>3, <1>0, IncrementedAt
      <3>4. object'[b] = "live"
        BY <2>7, <2>4, <3>2, <1>0, DeletedAt
      <3>5. shared_count'[b] = n + 1
        BY <2>1, <3>1, <3>3
      <3>. QED  BY <3>1, <3>2, <3>3, <3>4, <3>5, <1>0 DEF BlockOK
    <2>8. CASE old # b /\ p # b
      <3>1. n = r
        BY <2>8, <2>2
      <3>2. shared_count'[b] = shared_count[b]
        BY <2>8, <2>3, <1>0, DecrementedAt, IncrementedAt
      <3>3. object'[b] = object[b]
        BY <2>8, <1>0, DeletedAt
      <3>. QED  BY <2>0, <3>1, <3>2, <3>3, <1>0 DEF BlockOK
    <2>. QED  BY <2>5, <2>6, <2>7, <2>8
  <1>. QED  BY <1>1, <1>2 DEF BlocksInv

\* Moving and swapping keep the number of references.
LEMMA MoveInv ==
    ASSUME BlocksInv, NEW h \in Handle, NEW g \in Handle, Move(h, g) \/ Swap(h, g)
    PROVE  BlocksInv'
  <1> DEFINE rest == IF Lives(h) THEN ptr[h] ELSE Null
             mid  == With(ptr, h, ptr[g])
  <1>0. /\ ptr \in [Handle -> Pointer] /\ TypeOK
        /\ shared_count' = shared_count /\ active' = active /\ object' = object
        /\ h = g => Lives(h)
    BY DEF BlocksInv, TypeOK, Pointer, Move, Swap
  <1>1. ptr' = With(mid, g, rest) /\ mid \in [Handle -> Pointer]
    BY <1>0 DEF Move, Swap, Lives, With
  <1>2. ptr' \in [Handle -> Pointer]
    BY <1>0, <1>1 DEF Pointer, With
  <1>3. ASSUME NEW b \in Block PROVE BlockOK(b)'
    <2>1. Cardinality(Refs(ptr', b)) = Cardinality(Refs(ptr, b))
      <3> HIDE DEF rest, mid
      <3>1. /\ (ptr[h] = b <=> ptr[g] = b) =>
                 Cardinality(Refs(mid, b)) = Cardinality(Refs(ptr, b))
            /\ ptr[h] = b /\ ptr[g] # b =>
                 Cardinality(Refs(mid, b)) = Cardinality(Refs(ptr, b)) - 1
            /\ ptr[h] # b /\ ptr[g] = b =>
                 Cardinality(Refs(mid, b)) = Cardinality(Refs(ptr, b)) + 1
        BY <1>0, RefsChange DEF mid
      <3>2. /\ (mid[g] = b <=> rest = b) =>
                 Cardinality(Refs(ptr', b)) = Cardinality(Refs(mid, b))
            /\ mid[g] = b /\ rest # b =>
                 Cardinality(Refs(ptr', b)) = Cardinality(Refs(mid, b)) - 1
            /\ mid[g] # b /\ rest = b =>
                 Cardinality(Refs(ptr', b)) = Cardinality(Refs(mid, b)) + 1
        BY <1>1, RefsChange
      <3>3. mid[g] = ptr[g]
        BY <1>0 DEF mid, With
      <3>4. (rest = b) <=> (ptr[h] = b)
        BY SharedPtrAssumption DEF rest, Lives
      <3>5. Cardinality(Refs(ptr, b)) \in Nat
        BY RefsFinite
      <3>. QED  BY <3>1, <3>2, <3>3, <3>4, <3>5
    <2>. QED  BY <2>1, <1>0 DEF BlocksInv, BlockOK
  <1>. QED  BY <1>0, <1>2, <1>3 DEF BlocksInv, TypeOK, Pointer

-----------------------------------------------------------------------------
LEMMA CarefulInv == BlocksInv /\ [CarefulNext]_vars => BlocksInv'
  <1> SUFFICES ASSUME BlocksInv, [CarefulNext]_vars PROVE BlocksInv'
    OBVIOUS
  <1>0. TypeOK
    BY DEF BlocksInv
  <1>1. CASE MasterCall
    BY <1>1, MasterInv DEF MasterCall
  <1>2. ASSUME NEW b \in Block PROVE CopyOf(FromMaster(b))
    BY SharedPtrAssumption DEF CopyOf, FromMaster, Pointer
  <1>3. CopyOf(Null) /\ CopyOf(Unborn)
    BY SharedPtrAssumption DEF CopyOf, Pointer
  <1>4. CASE OtherRefCall
    <2>1. PICK h \in Handle :
            \/ \E b \in Block : CopyMaster(h, b) \/ AssignMaster(h, b)
            \/ \E g \in Handle : Move(h, g) \/ Swap(h, g)
            \/ ResetRef(h) \/ DestroyRef(h)
      BY <1>4 DEF OtherRefCall
    <2>2. ASSUME NEW b \in Block, CopyMaster(h, b) PROVE BlocksInv'
      BY <2>2, <1>2, CopyInv DEF CopyMaster
    <2>3. ASSUME NEW b \in Block, AssignMaster(h, b) PROVE BlocksInv'
      BY <2>3, <1>2, AssignInv DEF AssignMaster
    <2>4. CASE ResetRef(h) \/ DestroyRef(h)
      BY <2>4, <1>3, AssignInv DEF ResetRef, DestroyRef
    <2>. QED  BY <2>1, <2>2, <2>3, <2>4, MoveInv
  <1>5. ASSUME NEW h \in Handle, NEW g \in Handle,
               ptr[g] \in Block => ptr[g] \in active,
               CopyCall(h, g)
        PROVE  BlocksInv'
    <2>1. CopyOf(ptr[g])
      BY <1>5, <1>0 DEF CopyOf, Pointer, TypeOK
    <2>2. CASE CopyRef(h, g)
      BY <2>1, <2>2, CopyInv DEF CopyRef
    <2>3. CASE AssignRef(h, g)
      BY <2>1, <2>3, <1>3, AssignInv DEF AssignRef
    <2>. QED  BY <1>5, <2>2, <2>3 DEF CopyCall
  <1>6. CASE UNCHANGED vars
    BY <1>6 DEF vars, BlocksInv, TypeOK, BlockOK
  <1>. QED  BY <1>1, <1>4, <1>5, <1>6 DEF CarefulNext

\* The counts and the objects agree with the owners in every reachable state.
THEOREM Invariance == CarefulSpec => []IInv
  <1>1. Init => IInv
    BY InitInv, IInvMeans
  <1>2. IInv /\ [CarefulNext]_vars => IInv'
    <2>1. IInv' <=> BlocksInv'
      BY IInvMeans, PTL
    <2>. QED  BY <2>1, IInvMeans, CarefulInv
  <1>. QED  BY <1>1, <1>2, PTL DEF CarefulSpec

\* Type correctness of the pointers, the control blocks and the objects.
THEOREM TypeCorrect == CarefulSpec => []TypeOK
  BY Invariance, PTL DEF IInv

\* An object is deleted exactly once, when its last owner lets go.
THEOREM DeletedOnce == CarefulSpec => []LivesWhileOwned
  BY Invariance, PTL DEF IInv

\* use_count() is the number of owners, and the 16 bits of it suffice.
THEOREM CountsOwners == CarefulSpec => []UseCountExact
  BY Invariance, PTL DEF IInv
=============================================================================
