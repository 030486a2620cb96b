-------------------------- MODULE MCAndroidApiStub --------------------------
(* Two threads that call the stub. *)
EXTENDS AndroidApiStub
CONSTANTS c1, c2
MCCallers == {c1, c2}
Symm == Permutations(MCCallers)
=============================================================================
