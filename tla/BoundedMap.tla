----------------------------- MODULE BoundedMap -----------------------------
(***************************************************************************)
(* What an unordered_map without duplicate keys promises: a dictionary     *)
(* with no room for some insertions.  What it holds is what can be found.  *)
(***************************************************************************)
CONSTANTS Key,    \* the keys
          Mapped  \* what a mapped object may be

VARIABLES dict,   \* the mapped object of each key that can be found
          done    \* whether the last call did what it was asked to

mapVars == <<dict, done>>

Init == DOMAIN dict = {} /\ done = TRUE

-----------------------------------------------------------------------------
(* How a call that was done may change the dictionary d into e.            *)

Agree(d, e, K) == \A k \in K : d[k] = e[k]

Insert(d, e) == \E k \in Key \ DOMAIN d :
    /\ DOMAIN e = DOMAIN d \cup {k}
    /\ Agree(d, e, DOMAIN d)
    /\ e[k] \in Mapped

Assign(d, e) == \E k \in DOMAIN d :
    /\ DOMAIN e = DOMAIN d
    /\ Agree(d, e, DOMAIN d \ {k})
    /\ e[k] \in Mapped

Erase(d, e) == \E k \in DOMAIN d :
    /\ DOMAIN e = DOMAIN d \ {k}
    /\ Agree(d, e, DOMAIN e)

Clear(d, e) == DOMAIN e = {}

\* Moving an element elsewhere does not show.
Move(d, e) == d = e

-----------------------------------------------------------------------------
Done(d, e) ==
    Insert(d, e) \/ Assign(d, e) \/ Erase(d, e) \/ Clear(d, e) \/ Move(d, e)

\* (d and e are bound so that a mapping put in for dict is evaluated once.)
Next ==
    \E d \in {dict}, e \in {dict'} :
        \/ done' = FALSE /\ d = e
        \/ done' = TRUE /\ Done(d, e)

Spec == Init /\ [][Next]_mapVars
=============================================================================
