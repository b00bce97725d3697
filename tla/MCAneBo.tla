------------------------------ MODULE MCAneBo ------------------------------
(* AneBo on small instances; the bounds are explained in README.md. *)
EXTENDS AneBo, TLC

Symm == Permutations(Clients) \cup Permutations(Bos)
=============================================================================
