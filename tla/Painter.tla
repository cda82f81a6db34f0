------------------------------ MODULE Painter ------------------------------
(***************************************************************************)
(* The painter's state on its way to the page.  Before a primitive, Qt     *)
(* reports to the paint engine what has changed in the QPainter;           *)
(* JSONBuilder keeps it in cur_state with dirty flags and sends what is    *)
(* dirty with the next primitive (state and saveStatePriv in               *)
(* src/src/lib/paint/JSONBuilder.cpp).  CanvasDrawer in                    *)
(* src/src/server/canvas.html starts every draw command from its defaults, *)
(* keeps what it is sent and sets up the canvas context with it.           *)
(*                                                                         *)
(* One field is modelled, the transform, which pixmap() sets aside for its *)
(* picture; the pen takes the same way.  Of a transform that is its        *)
(* scaling and turning: rectangles, lines and ellipses drop its            *)
(* translation on the page.                                                *)
(***************************************************************************)
EXTENDS JSONBuilder

VARIABLES
  transform,  \* cur_state.transform
  flags,      \* cur_state.state: the transform's flag, and those of the other fields
  told,       \* history: Qt has reported a transform since beginRender
  page        \* the widget's CanvasDrawer, once the page has executed what
              \* render_buffer holds of the open draw command

painterVars == <<transform, flags, told, page>>
paintVars == <<vars, painterVars>>

Identity == "identity"
Transforms == {Identity, "turned"}

\* What Qt reports before a call: the transform, if it has changed, and whether others have.
Unchanged == "unchanged"
Reports == [transform : Transforms \cup {Unchanged}, others : BOOLEAN]

\* CanvasDrawer.transform, the transform of its context t_ctx, and the one that
\* t_ctx.save() has kept.
Setup == [drawer |-> Identity, context |-> Identity, saved |-> Identity]

PaintInit ==
  /\ Init
  /\ transform = Identity
  /\ flags = {}
  /\ told = FALSE
  /\ page = Setup

-----------------------------------------------------------------------------
(* cur_state and the state fragments.                                      *)

\* state(): the field and the flags after a report.
Current(report) == IF report.transform = Unchanged THEN transform ELSE report.transform

Flagged(report) ==
  flags \cup (IF report.transform = Unchanged THEN {} ELSE {"transform"})
        \cup (IF report.others THEN {"others"} ELSE {})

\* Mutant: the context is left as t_ctx.restore() brings it back.
RestoreStateMutant(p) == [p EXCEPT !.context = p.saved]

\* restoreState: t_ctx.restore(), and the set-ups with the drawer's fields.
RestoreState(p) == [p EXCEPT !.context = p.drawer]

\* setupClipping.
SetupClipping(p) == [RestoreState(p) EXCEPT !.saved = RestoreState(p).context]

\* drawState: the clip first, then the fields the fragment names.
DrawState(p, named, t, clip) ==
  LET q == IF clip THEN SetupClipping(p) ELSE p IN
  IF "transform" \in named THEN [q EXCEPT !.drawer = t, !.context = t] ELSE q

\* saveStatePriv: one state fragment with what is flagged, if anything is, and with the
\* clip, if clipping is enabled.
SaveState(p, flagged, t, clip) ==
  IF flagged = {} THEN p ELSE DrawState(p, flagged, t, clip)

\* The page when the primitive itself is drawn.
AtShape(report, clip) == SaveState(page, Flagged(report), Current(report), clip)
AtPixmap(report, clip) ==
  SaveState(page, Flagged(report) \cup {"transform"}, Identity, clip)

-----------------------------------------------------------------------------
(* The calls of the paint engine within a draw command.                    *)

\* state() before the call.
Report(report) ==
  /\ transform' = Current(report)
  /\ told' = (told \/ report.transform # Unchanged)

\* CanvasDrawer.setup; cur_state stays as the last draw command left it.
StartDrawing ==
  /\ BeginRender
  /\ told' = FALSE
  /\ page' = Setup
  /\ UNCHANGED <<transform, flags>>

\* ellipse, image, line, path, points, polygon, rect, text.
DrawShape(report, clip) ==
  /\ Primitive
  /\ Report(report)
  /\ flags' = {}
  /\ page' = AtShape(report, clip)

\* pixmap: a state with the identity, the picture, a state with the painter's transform.
DrawPixmap(report, clip) ==
  /\ Primitive
  /\ Report(report)
  /\ flags' = {}
  /\ page' = SaveState(AtPixmap(report, clip), {"transform"}, Current(report), clip)

\* image, also for tiledPixmap, of a picture that has no key.
DrawNothing(report) ==
  /\ gui = "run"
  /\ drawing # NotDrawing
  /\ Report(report)
  /\ flags' = Flagged(report)
  /\ UNCHANGED <<vars, page>>

\* CanvasDrawer.flush ends the drawing on the page.
EndDrawing ==
  /\ EndRender
  /\ told' = FALSE
  /\ page' = Setup
  /\ UNCHANGED <<transform, flags>>

\* Steps that have nothing to do with the painter.
Elsewhere ==
  \/ HookReturns
  \/ BeginLayout \/ EndLayout
  \/ EmitReadyRead
  \/ OnConnection \/ OnDisconnection \/ Quit
  \/ ReadData \/ Flush

PaintNext ==
  \/ StartDrawing
  \/ \E report \in Reports :
       \/ \E clip \in BOOLEAN : DrawShape(report, clip) \/ DrawPixmap(report, clip)
       \/ DrawNothing(report)
  \/ EndDrawing
  \/ Elsewhere /\ UNCHANGED painterVars

PaintSpec == PaintInit /\ [][PaintNext]_paintVars

FairPaintSpec == PaintSpec /\ Fairness

-----------------------------------------------------------------------------
(* Correctness.                                                            *)

\* Whatever is drawn next is drawn under the right transform, wherever this draw command
\* and the earlier ones left the flags, the clip and the pixmaps: a shape under the
\* painter's, if Qt has reported one since beginRender, and a pixmap under the identity.
DrawnAsPainted ==
  drawing # NotDrawing =>
    \A report \in Reports, clip \in BOOLEAN :
      /\ told \/ report.transform # Unchanged =>
           AtShape(report, clip).context = Current(report)
      /\ AtPixmap(report, clip).context = Identity

=============================================================================
