--------------------------- MODULE MCWebRenderer ---------------------------
(* Three widgets for WebRenderer.  WebRenderer.cfg keeps one of them open  *)
(* for good and gives another a mask; WebRendererLostPaint.cfg does        *)
(* neither.                                                                *)
EXTENDS WebRenderer

CONSTANTS a, b, c

MCWidgets == {a, b, c}
MCStable == {a}
MCMasked == {c}
MCNone == {}

=============================================================================
