----------------------------- MODULE MCComposer -----------------------------
(* The form with room for two photos. *)
EXTENDS Composer
=============================================================================
