----------------------------- MODULE MCSession -----------------------------
(* A small instance of Session. *)
EXTENDS Session, TLC
Symmetry == Permutations(Request)
=============================================================================
