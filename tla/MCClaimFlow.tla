---------------------------- MODULE MCClaimFlow -----------------------------
(***************************************************************************)
(* ClaimFlow on a small instance.                                          *)
(***************************************************************************)
EXTENDS ClaimFlow, TLC

\* Recipients, and request slots, are interchangeable.
Symmetry == Permutations(Recipients) \cup Permutations(Requests)
=============================================================================
