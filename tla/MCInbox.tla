------------------------------- MODULE MCInbox ------------------------------
(* Interchangeable notifications, some of which arrive later. *)
EXTENDS Inbox

MCSymmetry == Permutations(Notes)
=============================================================================
