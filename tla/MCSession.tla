----------------------------- MODULE MCSession -----------------------------
(* Two browsers for TLC: the first with every kind of request, the second a recent one.    *)
EXTENDS Session, TLC

CONSTANTS b1, b2

TwoBrowsers == {b1, b2}
EveryKindMeetsV13 == b1 :> {"v13", "v4", "v0", "plain"} @@ b2 :> {"v13"}
=============================================================================
