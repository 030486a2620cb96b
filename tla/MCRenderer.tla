----------------------------- MODULE MCRenderer -----------------------------
(* Two render threads, two colour buffers of different size. *)
EXTENDS Renderer, TLC
CONSTANTS t1, t2
MCThreads == {t1, t2}
MCSizeOf == <<0, 1>>
Symm == Permutations(MCThreads)
=============================================================================
