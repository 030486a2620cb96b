--------------------------- MODULE MCBufferQueue ---------------------------
(* BufferQueue with one producer, one consumer and a thread that closes it. *)
EXTENDS BufferQueue, TLC

CONSTANTS p1, c1, k1, b1, b2

MCProducers == {p1}
MCConsumers == {c1}
MCClosers == {k1}
MCBuffers == {b1, b2}
MCCapacity == 3
=============================================================================
