--------------------------- MODULE MCEventBridge ---------------------------
(* Three widgets for TLC: a window and its two children.                    *)
EXTENDS EventBridge, TLC

CONSTANTS win, left, right

MCWidgets == {win, left, right}
MCParent == win :> NoWidget @@ left :> win @@ right :> win
=============================================================================
