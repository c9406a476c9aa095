--------------------------- MODULE MCRetryTracker ---------------------------
(***************************************************************************)
(* TLC instance of RetryTracker: three slots, where keys 3 and 6 collide   *)
(* at slot 0 and run into the bucket of key 2, which begins at slot 1.     *)
(***************************************************************************)
EXTENDS RetryTracker

MCKey  == {3, 6, 2}
MCNull == 0
MCHash == [k \in MCKey \cup {MCNull} |-> k]

MCMapped == {[marked_for_gc |-> TRUE, bucket |-> 1]}
=============================================================================
