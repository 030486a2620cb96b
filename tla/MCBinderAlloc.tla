---- MODULE MCBinderAlloc ----
(* Five pages of four words and headers of three, so that a header shares a  *)
(* page with its neighbours or lies across two.                              *)
EXTENDS BinderAlloc
MCSizes == {0, 1, 2, 5}
====
