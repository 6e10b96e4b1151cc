------------------------------- MODULE MCDesk -------------------------------
(* A host with one post. *)
EXTENDS Desk

MCOnePost == {1}
=============================================================================
