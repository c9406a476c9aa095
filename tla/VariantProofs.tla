--------------------------- MODULE VariantProofs ---------------------------
(***************************************************************************)
(* For any number of holders and any values: what the careful calls of     *)
(* Variant leave in the storage is what the index says, and the holders    *)
(* are what Holding promises.                                              *)
(***************************************************************************)
EXTENDS Variant, TLAPS

\* What HoldsWhatItSays says of one holder.
Fits(s, i) ==
    \/ i = npos /\ s = Raw
    \/ i \in {VALUE, ERROR} /\ \E v \in Value \cup {Moved} : s = Object(i, v)

\* IInv, holder by holder.
FitsInv ==
    /\ kind \in Kinds /\ type \in [{VALUE, ERROR} -> Types]
    /\ alive \subseteq Holder
    /\ index \in [Holder -> {npos, VALUE, ERROR}]
    /\ storage \in [Holder -> Objects \cup {Raw}]
    /\ \A h \in Holder : Fits(storage[h], index[h])
    /\ \A h \in Holder : h \notin alive => index[h] = npos

-----------------------------------------------------------------------------
(* The storage.                                                            *)

\* An object is no raw storage, and has the alternative and the value that
\* it was made of.
LEMMA ObjectIs ==
    ASSUME NEW i \in {VALUE, ERROR}, NEW v \in Value \cup {Moved}
    PROVE  /\ Object(i, v) \in Objects
           /\ Object(i, v) \notin {Raw, Broken, Nothing}
           /\ Object(i, v).alt = i /\ Object(i, v).val = v
  <1>1. Object(i, v) \in Objects  BY DEF Objects
  <1>2. Object(i, v).alt = i /\ Object(i, v).val = v  BY DEF Object
  <1> QED  BY <1>1, <1>2, VariantAssumption

\* What fits is an object of the alternative, which can be read, or is raw.
LEMMA FitsMeans ==
    ASSUME NEW s, NEW i, Fits(s, i)
    PROVE  /\ i \in {npos, VALUE, ERROR} /\ s \in Objects \cup {Raw}
           /\ i = npos <=> s = Raw
           /\ i # npos => /\ s = Object(i, read(s)) /\ read(s) \in Value \cup {Moved}
                          /\ Holds(s, i)
  <1>1. CASE i = npos /\ s = Raw  BY <1>1
  <1>2. CASE i \in {VALUE, ERROR} /\ \E v \in Value \cup {Moved} : s = Object(i, v)
    <2>1. PICK v \in Value \cup {Moved} : s = Object(i, v)  BY <1>2
    <2>2. i # npos  BY <1>2 DEF npos, VALUE, ERROR
    <2> QED  BY <1>2, <2>1, <2>2, ObjectIs DEF read, Holds
  <1> QED  BY <1>1, <1>2 DEF Fits

\* A holder that is raw or holds an object of the alternative fits.
LEMMA ObjectFits ==
    ASSUME NEW i \in {VALUE, ERROR}, NEW v \in Value \cup {Moved}
    PROVE  Fits(Object(i, v), i) /\ Fits(Raw, npos)
  BY DEF Fits

\* The operations of the storage on what fits: nothing breaks.
LEMMA StorageOps ==
    ASSUME NEW s, NEW from, Fits(s, from),
           NEW i \in {VALUE, ERROR}, NEW v \in Value \cup {Moved}
    PROVE  /\ destroy(s, from) = Raw
           /\ emplace(destroy(s, from), i, v) = Object(i, v)
           /\ emplace(Raw, i, v) = Object(i, v)
           /\ assign_or_init(s, i, from, v) = Object(i, v)
           /\ left(s, from) = IF from = npos THEN Raw ELSE Object(from, Moved)
  <1>1. destroy(s, from) = Raw  BY FitsMeans DEF destroy
  <1>2. emplace(Raw, i, v) = Object(i, v)  BY DEF emplace
  <1>3. from # npos => /\ assign(s, from, v) = Object(from, v)
                       /\ assign(s, from, Moved) = Object(from, Moved)
    BY FitsMeans DEF assign
  <1>4. from = npos => i # from  BY DEF npos, VALUE, ERROR
  <1>5. assign_or_init(s, i, from, v) = Object(i, v)
    BY <1>1, <1>2, <1>3, <1>4 DEF assign_or_init
  <1>6. left(s, from) = IF from = npos THEN Raw ELSE Object(from, Moved)
    BY <1>3, FitsMeans DEF left
  <1> QED  BY <1>1, <1>2, <1>5, <1>6

LEMMA IInvMeans == IInv <=> FitsInv
  <1>1. ASSUME IInv, NEW h \in Holder
        PROVE  Fits(storage[h], index[h])
    <2>1. index[h] \in {npos, VALUE, ERROR} /\ storage[h] \in Objects \cup {Raw}
      BY <1>1 DEF IInv
    <2>2. CASE index[h] = npos
      BY <1>1, <2>2 DEF IInv, HoldsWhatItSays, Fits
    <2>3. CASE index[h] # npos
      <3>1. storage[h] = Object(index[h], read(storage[h]))
        BY <1>1, <2>3 DEF IInv, HoldsWhatItSays
      <3>2. CASE storage[h] = Raw
        BY <2>1, <2>3, <3>1, <3>2 DEF read, Fits
      <3>3. CASE storage[h] \in Objects
        <4>1. PICK i \in {VALUE, ERROR}, v \in Value \cup {Moved} : storage[h] = Object(i, v)
          BY <3>3 DEF Objects
        <4>2. read(storage[h]) = v
          BY <4>1, ObjectIs DEF read
        <4> QED  BY <2>1, <2>3, <3>1, <4>2 DEF Fits
      <3> QED  BY <2>1, <3>2, <3>3
    <2> QED  BY <2>2, <2>3
  <1>2. ASSUME FitsInv, NEW h \in Holder
        PROVE  storage[h] = IF index[h] = npos THEN Raw ELSE Object(index[h], read(storage[h]))
    BY <1>2, FitsMeans DEF FitsInv
  <1> QED  BY <1>1, <1>2 DEF IInv, FitsInv, HoldsWhatItSays

LEMMA InitInv == Init => IInv
  <1> SUFFICES ASSUME Init PROVE FitsInv
    BY IInvMeans
  <1> QED  BY DEF Init, FitsInv, Fits, npos, VALUE, ERROR

-----------------------------------------------------------------------------
(* The calls.                                                              *)

\* A call that leaves the holder h what fits, and all others alone.
LEMMA EndsInv ==
  ASSUME FitsInv, NEW h \in Holder, NEW i, NEW s, Fits(s, i), Ends(h, i, s),
         alive' \subseteq Holder,
         \A g \in Holder \ {h} : g \in alive => g \in alive',
         h \notin alive' => i = npos
  PROVE  FitsInv'
  <1>1. i \in {npos, VALUE, ERROR} /\ s \in Objects \cup {Raw}
    BY FitsMeans
  <1> QED  BY <1>1 DEF Ends, FitsInv

\* One that changes what two holders hold.
LEMMA BothInv ==
  ASSUME FitsInv, NEW h \in Holder, NEW g \in Holder, h # g,
         NEW i, NEW s, Fits(s, i), NEW j, NEW t, Fits(t, j),
         index' = [index EXCEPT ![h] = i, ![g] = j],
         storage' = [storage EXCEPT ![h] = s, ![g] = t],
         UNCHANGED <<kind, type>>,
         h \in alive', g \in alive', alive' = alive \cup {h, g}
  PROVE  FitsInv'
  <1>1. /\ i \in {npos, VALUE, ERROR} /\ s \in Objects \cup {Raw}
        /\ j \in {npos, VALUE, ERROR} /\ t \in Objects \cup {Raw}
    BY FitsMeans
  <1> QED  BY <1>1 DEF FitsInv

(* What the holders hold, as Holding sees it.                              *)

Shown(i, s) == IF i = npos THEN Nothing ELSE s

heldNow == [h \in Holder |-> Shown(index[h], storage[h])]

\* A call that leaves in h what was asked for is a "set" of Holding.
LEMMA SetStep ==
  ASSUME FitsInv, NEW h \in Holder, NEW i, NEW s, Ends(h, i, s),
         Asks("set", h, h, Shown(i, s))
  PROVE  Held!Next
  <1>1. heldNow' = [heldNow EXCEPT ![h] = Shown(i, s)]
    BY DEF Ends, FitsInv, heldNow, Shown
  <1>2. call'.op = "set" /\ call'.to = h /\ call'.item = Shown(i, s)
    BY DEF Asks
  <1> QED  BY <1>1, <1>2 DEF Held!Next, Held!Set, heldNow, Shown

\* One that leaves in h what g holds is a "copy".
LEMMA CopyStep ==
  ASSUME FitsInv, NEW h \in Holder, NEW g \in Holder, NEW item,
         Ends(h, index[g], storage[g]), Asks("copy", h, g, item)
  PROVE  Held!Next
  <1>1. heldNow' = [heldNow EXCEPT ![h] = heldNow[g]]
    BY DEF Ends, FitsInv, heldNow, Shown
  <1>2. call'.op = "copy" /\ call'.to = h /\ call'.from = g
    BY DEF Asks
  <1> QED  BY <1>1, <1>2 DEF Held!Next, Held!Set, heldNow, Shown

\* One that does so, and leaves in g Nothing or what a move leaves, is a "move".
LEMMA MoveStep ==
  ASSUME FitsInv, NEW h \in Holder, NEW g \in Holder, h # g, NEW item,
         NEW j, NEW t,
         index' = [index EXCEPT ![h] = index[g], ![g] = j],
         storage' = [storage EXCEPT ![h] = storage[g], ![g] = t],
         \/ j = npos
         \/ j = index[g] /\ t = Object(j, Moved),
         Asks("move", h, g, item)
  PROVE  Held!Next
  <1>1. heldNow' = [heldNow EXCEPT ![h] = heldNow[g], ![g] = Shown(j, t)]
    BY DEF FitsInv, heldNow, Shown
  <1>2. call'.op = "move" /\ call'.to = h /\ call'.from = g
    BY DEF Asks
  <1>3. CASE index[g] = npos
    <2>1. Shown(j, t) = Nothing /\ heldNow[g] = Nothing
      BY <1>3 DEF heldNow, Shown
    <2>2. heldNow' = [heldNow EXCEPT ![h] = heldNow[g]]
      BY <1>1, <2>1 DEF heldNow
    <2> QED  BY <1>2, <2>1, <2>2 DEF Held!Next, Held!Set, heldNow, Shown
  <1>4. CASE index[g] # npos
    <2>1. heldNow[g] = storage[g] /\ storage[g] = Object(index[g], read(storage[g]))
                                  /\ read(storage[g]) \in Value \cup {Moved}
      BY <1>4, FitsMeans DEF FitsInv, heldNow, Shown
    <2>2. index[g] \in {VALUE, ERROR}
      BY <1>4 DEF FitsInv
    <2>3. heldNow[g] # Nothing /\ heldNow[g].alt = index[g]
      BY <2>1, <2>2, ObjectIs
    <2>4. Shown(j, t) \in {Nothing, [alt |-> heldNow[g].alt, val |-> Moved]}
      BY <2>3 DEF Shown, Object
    <2> QED  BY <1>1, <1>2, <2>3, <2>4 DEF Held!Next, Held!MoveOut, heldNow, Shown
  <1> QED  BY <1>3, <1>4

-----------------------------------------------------------------------------
(* Every careful call.                                                     *)

LEMMA AlternativesAre == Alternatives \subseteq {VALUE, ERROR}
  BY DEF Alternatives

LEMMA CallsOnOne ==
  ASSUME FitsInv, NEW h \in Holder,
         \/ ConstructEmpty(h) \/ Destruct(h) \/ Clear(h)
         \/ (kind = "variant" \/ index[h] = npos) /\ EmplaceThrows(h)
  PROVE  FitsInv' /\ Held!Next
  <1>1. Fits(storage[h], index[h]) /\ Fits(Raw, npos)
    BY DEF FitsInv, Fits
  <1>2. destroy(storage[h], index[h]) = Raw
    BY <1>1, FitsMeans DEF destroy
  <1>3. Ends(h, npos, Raw) /\ Asks("set", h, h, Nothing)
    BY <1>2 DEF ConstructEmpty, Destruct, Clear, EmplaceThrows
  <1>4. alive' \in {alive, alive \cup {h}, alive \ {h}}
    BY DEF ConstructEmpty, Destruct, Clear, EmplaceThrows
  <1>5. FitsInv'
    BY <1>1, <1>3, <1>4, EndsInv DEF FitsInv
  <1>6. Held!Next
    BY <1>3, SetStep DEF Shown
  <1> QED  BY <1>5, <1>6

LEMMA CallsWithValue ==
  ASSUME FitsInv, NEW h \in Holder, NEW i \in Alternatives, NEW v \in Value,
         Construct(h, i, v) \/ AssignValue(h, i, v) \/ Emplace(h, i, v)
  PROVE  FitsInv' /\ Held!Next
  <1>1. Fits(storage[h], index[h])
    BY DEF FitsInv
  <1>2. i \in {VALUE, ERROR} /\ i # npos
    BY AlternativesAre DEF VALUE, ERROR, npos
  <1>3. Fits(Object(i, v), i)
    BY <1>2 DEF Fits
  <1>4. Ends(h, i, Object(i, v)) /\ Asks("set", h, h, Object(i, v))
    BY <1>1, <1>2, StorageOps DEF Construct, AssignValue, Emplace
  <1>5. alive' = alive \cup {h}
    BY DEF Construct, AssignValue, Emplace
  <1>6. FitsInv'
    BY <1>3, <1>4, <1>5, EndsInv DEF FitsInv
  <1>7. Held!Next
    BY <1>2, <1>4, SetStep DEF Shown
  <1> QED  BY <1>6, <1>7

LEMMA AssignThrowsStep ==
  ASSUME FitsInv, NEW h \in Holder, NEW i \in Alternatives,
         index[h] = npos, AssignThrows(h, i)
  PROVE  FitsInv' /\ Held!Next
  <1>1. storage[h] = Raw /\ Fits(Raw, npos)
    BY FitsMeans DEF FitsInv, Fits
  <1>2. Ends(h, npos, Raw) /\ Asks("set", h, h, Nothing) /\ alive' = alive
    BY <1>1 DEF AssignThrows, destroy
  <1>3. FitsInv'
    BY <1>1, <1>2, EndsInv DEF FitsInv, AssignThrows
  <1>4. Held!Next
    BY <1>2, SetStep DEF Shown
  <1> QED  BY <1>3, <1>4

LEMMA ConstructCopyStep ==
  ASSUME FitsInv, NEW h \in Holder, NEW g \in Holder,
         index[g] # npos => copyable(index[g]), ConstructCopy(h, g)
  PROVE  FitsInv' /\ Held!Next
  <1>1. Fits(storage[g], index[g])
    BY DEF FitsInv
  <1>2. Ends(h, index[g], storage[g]) /\ Asks("copy", h, g, Nothing) /\ alive' = alive \cup {h}
    BY <1>1, FitsMeans DEF ConstructCopy
  <1> QED  BY <1>1, <1>2, EndsInv, CopyStep DEF FitsInv

LEMMA ConstructMoveStep ==
  ASSUME FitsInv, NEW h \in Holder, NEW g \in Holder,
         ConstructMoveVariant(h, g) \/ ConstructMoveOptional(h, g)
  PROVE  FitsInv' /\ Held!Next
  <1>1. /\ Fits(storage[g], index[g]) /\ h # g /\ h \in alive' /\ g \in alive'
        /\ alive' = alive \cup {h, g} /\ UNCHANGED <<kind, type>>
        /\ Asks("move", h, g, Nothing)
    BY DEF FitsInv, ConstructMoveVariant, ConstructMoveOptional
  <1>2. CASE ConstructMoveVariant(h, g)
    <2>0. destroy(storage[g], index[g]) = Raw
      BY <1>1, FitsMeans DEF destroy
    <2>1. /\ index' = [index EXCEPT ![h] = index[g], ![g] = npos]
          /\ storage' = [storage EXCEPT ![h] = storage[g], ![g] = Raw]
      BY <1>2, <2>0 DEF ConstructMoveVariant
    <2>2. Fits(Raw, npos)
      BY DEF Fits
    <2>3. FitsInv'
      BY <1>1, <2>1, <2>2, BothInv
    <2>4. Held!Next
      BY <1>1, <2>1, MoveStep
    <2> QED  BY <2>3, <2>4
  <1>3. CASE ConstructMoveOptional(h, g)
    <2> DEFINE t == left(storage[g], index[g])
    <2>1. /\ index' = [index EXCEPT ![h] = index[g], ![g] = index[g]]
          /\ storage' = [storage EXCEPT ![h] = storage[g], ![g] = t]
      BY <1>3 DEF ConstructMoveOptional, FitsInv
    <2>2. index[g] = npos \/ t = Object(index[g], Moved)
      BY <1>1, FitsMeans DEF left, assign
    <2>3. Fits(t, index[g])
      BY <1>1, <2>2, FitsMeans DEF Fits, left
    <2> HIDE DEF t
    <2>4. FitsInv'
      BY <1>1, <2>1, <2>3, BothInv
    <2>5. Held!Next
      BY <1>1, <2>1, <2>2, MoveStep
    <2> QED  BY <2>4, <2>5
  <1> QED  BY <1>2, <1>3

LEMMA CopyAssignStep ==
  ASSUME FitsInv, NEW h \in Holder, NEW g \in Holder,
         h = g /\ index[g] # npos => assignable(index[g]), CopyAssign(h, g)
  PROVE  FitsInv' /\ Held!Next
  <1> DEFINE i == index[g]
  <1>1. Fits(storage[g], i) /\ Fits(storage[h], index[h]) /\ i # npos /\ {h, g} \subseteq alive
    BY DEF FitsInv, CopyAssign
  <1>2. /\ i \in {VALUE, ERROR} /\ storage[g] # Raw
        /\ storage[g] = Object(i, read(storage[g])) /\ read(storage[g]) \in Value \cup {Moved}
    BY <1>1, FitsMeans
  <1>3. assign_or_init(storage[h], i, index[h], read(storage[g])) = storage[g]
    BY <1>1, <1>2, StorageOps
  <1>4. Ends(h, i, storage[g]) /\ Asks("copy", h, g, Nothing) /\ alive' = alive
    BY <1>1, <1>2, <1>3 DEF CopyAssign
  <1> QED  BY <1>1, <1>4, EndsInv, CopyStep DEF FitsInv

LEMMA MoveAssignStep ==
  ASSUME FitsInv, NEW h \in Holder, NEW g \in Holder, MoveAssign(h, g)
  PROVE  FitsInv' /\ Held!Next
  <1> DEFINE i == index[g]
             j == MovedFrom(g)[1]
             t == MovedFrom(g)[2]
  <1>1. /\ Fits(storage[g], i) /\ Fits(storage[h], index[h])
        /\ i # npos /\ {h, g} \subseteq alive /\ h # g
    BY DEF FitsInv, MoveAssign
  <1>2. /\ i \in {VALUE, ERROR}
        /\ storage[g] = Object(i, read(storage[g])) /\ read(storage[g]) \in Value \cup {Moved}
    BY <1>1, FitsMeans
  <1>3. assign_or_init(storage[h], i, index[h], read(storage[g])) = storage[g]
    BY <1>1, <1>2, StorageOps
  <1>4. \/ j = npos /\ t = Raw
        \/ j = i /\ t = Object(i, Moved)
    BY <1>1, <1>2, StorageOps DEF MovedFrom
  <1>5. Fits(t, j)
    BY <1>2, <1>4 DEF Fits
  <1>6. /\ index' = [index EXCEPT ![h] = i, ![g] = j]
        /\ storage' = [storage EXCEPT ![h] = storage[g], ![g] = t]
        /\ UNCHANGED <<kind, type, alive>> /\ Asks("move", h, g, Nothing)
    BY <1>3 DEF MoveAssign
  <1>7. h \in alive' /\ g \in alive' /\ alive' = alive \cup {h, g}
    BY <1>1, <1>6
  <1> HIDE DEF j, t
  <1>8. FitsInv'
    BY <1>1, <1>5, <1>6, <1>7, BothInv
  <1>9. Held!Next
    BY <1>1, <1>4, <1>6, MoveStep
  <1> QED  BY <1>8, <1>9

LEMMA CarefulStep ==
  ASSUME IInv, [CarefulNext]_vars
  PROVE  IInv' /\ [Held!Next]_(Held!vars)
  <1>1. FitsInv
    BY IInvMeans
  <1>2. CASE CarefulNext
    <2>1. FitsInv' /\ Held!Next
      BY <1>1, <1>2, CallsOnOne, CallsWithValue, AssignThrowsStep, ConstructCopyStep,
         ConstructMoveStep, CopyAssignStep, MoveAssignStep DEF CarefulNext
    <2> QED  BY <2>1, IInvMeans, PTL
  <1>3. CASE UNCHANGED vars
    BY <1>3 DEF vars, IInv, HoldsWhatItSays, Held!vars
  <1> QED  BY <1>2, <1>3

THEOREM Invariance == CarefulSpec => []IInv
  BY InitInv, CarefulStep, PTL DEF CarefulSpec

\* Every object that is constructed is destroyed once, and what an index
\* says is there is there, whichever calls, moves and exceptions came before.
THEOREM NothingBreaks == CarefulSpec => []HoldsWhatItSays
  BY Invariance, PTL DEF IInv

\* The storage and its index are the one value or nothing that a variant, an
\* optional or an expected promises, through copies and moves.
THEOREM Refinement == CarefulSpec => ImplementsHolding
  <1>1. Init => Held!Init
    BY DEF Init, Held!Init
  <1> QED  BY <1>1, InitInv, CarefulStep, PTL DEF CarefulSpec, ImplementsHolding, Held!Spec
=============================================================================
