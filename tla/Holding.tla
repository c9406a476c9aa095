------------------------------ MODULE Holding ------------------------------
(***************************************************************************)
(* What variants, optionals and expecteds promise: each holds one value or *)
(* nothing.  A copy leaves what it is made of alone; a value that is moved *)
(* is held by its new holder, and what is left of it in the old one says   *)
(* nothing of it.                                                          *)
(***************************************************************************)
CONSTANTS Holder, Nothing, Moved

VARIABLES
    held,  \* by each holder: an alternative and its value, or Nothing
    call   \* what the last call asked for

vars == <<held, call>>

Init == held = [h \in Holder |-> Nothing]

Set(to, item) == held' = [held EXCEPT ![to] = item]

MoveOut(from) == {Nothing, [alt |-> held[from].alt, val |-> Moved]}

Next ==
    LET c == call' IN
    \/ c.op = "set" /\ Set(c.to, c.item)
    \/ c.op = "copy" /\ Set(c.to, held[c.from])
    \/ /\ c.op = "move"
       /\ IF held[c.from] = Nothing \/ c.to = c.from
          THEN Set(c.to, held[c.from])
          ELSE \E left \in MoveOut(c.from) :
                held' = [held EXCEPT ![c.to] = held[c.from], ![c.from] = left]

Spec == Init /\ [][Next]_vars
=============================================================================
