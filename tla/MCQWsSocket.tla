--------------------------- MODULE MCQWsSocket ---------------------------
(* Messages on both sides of the seven-bit length and of the frame size.   *)
EXTENDS QWsSocket

Bytes(n) == [i \in 1 .. n |-> (i \div 2) % 2]

MCEvents == {Bytes(1), Bytes(126)}
MCKeys == {<<0, 1, 1, 0>>}
MCOutputs == {Bytes(n) : n \in {125, 126, 252}}

=============================================================================
