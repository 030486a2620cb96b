------------------------- MODULE MCContainerManager -------------------------
(* Two sessions, one after the other or at once, and a manager that is       *)
(* started twice.                                                            *)
EXTENDS ContainerDaemon
CONSTANTS s1, s2
MCSessions == {s1, s2}
MCMaxRequests == [s \in MCSessions |-> IF s = s1 THEN 2 ELSE 1]
=============================================================================
