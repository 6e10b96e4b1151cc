----------------------------- MODULE MCSession -----------------------------
(* Two people share a phone: Ann signs in with her address, Abe with Apple. *)
EXTENDS Session

CONSTANTS ann, abe
MCAccounts == {ann, abe}
MCAppleIds == {abe}
=============================================================================
