------------------------------- MODULE MCDisplay -------------------------------
(* A main window, a modal dialog, and a plain widget that may change sides.  *)
EXTENDS Display

CONSTANTS Main, Dialog, Label

MCKindOf == (Main :> "Window") @@ (Dialog :> "Dialog") @@ (Label :> "Widget")
=============================================================================
