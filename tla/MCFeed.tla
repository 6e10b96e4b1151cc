------------------------------- MODULE MCFeed -------------------------------
(* Three posts: the first is near and untagged, the last far away.         *)
EXTENDS Feed

MCFitting == [tags |-> {2, 3}, near |-> {1, 2}, text |-> {1, 3}]
MCPosted == {1, 2}
=============================================================================
