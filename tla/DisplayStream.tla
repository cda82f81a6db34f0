--------------------------- MODULE DisplayStream ---------------------------
(***************************************************************************)
(* What the injected library promises about the stream of commands it      *)
(* sends to the browser, without buffers and locks (src/src/lib/paint/     *)
(* JSONBuilder.cpp).                                                       *)
(*                                                                         *)
(* Commands are numbered in the order in which they are completed,         *)
(* whatever their kind.  Draw and layout commands travel in two channels:  *)
(* a flush sends all the draw commands that are waiting and then, some     *)
(* time later, all the layout commands that are waiting by then.           *)
(***************************************************************************)
EXTENDS Naturals

VARIABLES
  issued,    \* number of commands completed so far
  draws,     \* the draw commands that are waiting
  layouts,   \* the layout commands that are waiting
  drawn,     \* the draw commands sent
  laid,      \* the layout commands sent
  flushing   \* the draws of a flush are out and its layout commands are not

streamVars == <<issued, draws, layouts, drawn, laid, flushing>>

StreamTypeOK ==
  /\ issued \in Nat
  /\ draws \subseteq 1 .. issued
  /\ layouts \subseteq 1 .. issued
  /\ drawn \subseteq 1 .. issued
  /\ laid \subseteq 1 .. issued
  /\ flushing \in BOOLEAN

Init ==
  /\ issued = 0
  /\ draws = {}
  /\ layouts = {}
  /\ drawn = {}
  /\ laid = {}
  /\ flushing = FALSE

Draw ==
  /\ issued' = issued + 1
  /\ draws' = draws \cup {issued'}
  /\ UNCHANGED <<layouts, drawn, laid, flushing>>

Layout ==
  /\ issued' = issued + 1
  /\ layouts' = layouts \cup {issued'}
  /\ UNCHANGED <<draws, drawn, laid, flushing>>

SendDraws ==
  /\ ~ flushing
  /\ drawn' = drawn \cup draws
  /\ draws' = {}
  /\ flushing' = TRUE
  /\ UNCHANGED <<issued, layouts, laid>>

SendLayouts ==
  /\ flushing
  /\ laid' = laid \cup layouts
  /\ layouts' = {}
  /\ flushing' = FALSE
  /\ UNCHANGED <<issued, draws, drawn>>

Next == Draw \/ Layout \/ SendDraws \/ SendLayouts

Spec == Init /\ [][Next]_streamVars

-----------------------------------------------------------------------------
\* Every command is in exactly one place: none is lost or sent twice.
InOnePlace ==
  /\ draws \cup layouts \cup drawn \cup laid = 1 .. issued
  /\ draws \cap drawn = {}
  /\ layouts \cap laid = {}
  /\ (draws \cup drawn) \cap (layouts \cup laid) = {}

\* Two channels cannot keep the order between a draw and a layout command, but a draw
\* overtakes by one message at most: between two flushes no sent draw is younger than
\* a layout command that waits, be it the create or the resize of the same widget.
BoundedOvertaking ==
  ~ flushing => \A d \in drawn, l \in layouts : d < l

=============================================================================
