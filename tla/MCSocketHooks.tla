--------------------------- MODULE MCSocketHooks ---------------------------
(* Model-checking instances of SocketHooks.                                *)
EXTENDS SocketHooks, TLC

Symmetry == Permutations(Threads) \cup Permutations(Fds) \cup Permutations(Fakes)
=============================================================================
