------------------------------ MODULE MCFakeIP ------------------------------
(* Model-checking instances of FakeIP.                                     *)
EXTENDS FakeIP, TLC

Symmetry == Permutations(Procs) \cup Permutations(Domains)
=============================================================================
