---------------------------- MODULE MCBipBuffer ----------------------------
(***************************************************************************)
(* TLC instance of BipBuffer and OutBipbuf: the buffer with a streambuf on *)
(* top of it, and the buffer by itself, with callers that poll what region *)
(* A holds.  Only the latter come to region B.                             *)
(***************************************************************************)
EXTENDS OutBipbuf

VARIABLE
    streambuf   \* there is a streambuf on top, which never changes

mcVars == <<outVars, streambuf>>

MCInit == OutInit /\ streambuf \in BOOLEAN

\* Without a streambuf, what is polled is what is delivered.
Direct ==
    /\ CarefulNext
    /\ delivered' = delivered \o [i \in 1..polled' - polled |-> data[a_start + i - 1]]
    /\ UNCHANGED <<partly, putting>>

MCNext ==
    /\ IF streambuf THEN FlushingNext ELSE Direct
    /\ UNCHANGED streambuf

MCSpec == MCInit /\ [][MCNext]_mcVars
=============================================================================
