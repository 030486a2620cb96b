--------------------------- MODULE MCWindowManager ---------------------------
(* Two tasks. *)
EXTENDS WindowManager
CONSTANTS t1, t2
MCTasks == {t1, t2}
=============================================================================
