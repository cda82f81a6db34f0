--------------------------- MODULE MCImageLoader ---------------------------
(* Three pictures, one of them transparent, for a store of two.            *)
EXTENDS ImageLoader

MCKeys == 1 .. 3
MCTransparent == {2}

=============================================================================
