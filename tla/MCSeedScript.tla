----------------------------- MODULE MCSeedScript -----------------------------
(* A small instance of SeedScript for TLC. *)
EXTENDS SeedScript

MCLists == {"sources", "evidence"}
MCFailedAfter == {2}
MCBounds == {[starts |-> 2, stops |-> 1, others |-> 0, reads |-> FALSE],
             [starts |-> 2, stops |-> 0, others |-> 1, reads |-> FALSE],
             [starts |-> 1, stops |-> 0, others |-> 0, reads |-> TRUE]}
=============================================================================
