------------------------------ MODULE MCPickup ------------------------------
(* A recipient and two posts.                                              *)
EXTENDS Pickup

MCPosts == {1, 2}

\* The posts are alike, so one order of their claims stands for both.
Order == [none |-> 0, pending |-> 1, picked_up |-> 2]
MCInit == Init /\ Order[claim[1].status] <= Order[claim[2].status]
MCSpec == MCInit /\ [][Next]_vars /\ WF_vars(System)
=============================================================================
