------------------------ MODULE MCBinderTransactions ------------------------
(***************************************************************************)
(* Two processes that call each other, one of them with two threads and    *)
(* methods without a reply.                                                *)
(***************************************************************************)
EXTENDS BinderTransactions, TLC

CONSTANTS a1, a2, b1, A, B

MCThreads == {a1, a2, b1}
MCProcs == {A, B}
MCProcOf == a1 :> A @@ a2 :> A @@ b1 :> B
MCCallees == A :> {B} @@ B :> {A}
MCAsync == {A}
MCSymmetry == Permutations({a1, a2})
=============================================================================
