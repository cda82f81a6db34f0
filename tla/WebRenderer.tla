---------------------------- MODULE WebRenderer ----------------------------
(***************************************************************************)
(* The render queue of the injected library (src/src/lib/paint/            *)
(* WebRenderer.h, WebRenderer.cpp), as driven by the paint and life-cycle  *)
(* cases of EventFilter::eventFilter on the GUI thread.                    *)
(*                                                                         *)
(* A Paint event of a tracked widget puts the widget, with the dirty       *)
(* rectangle, on a queue and starts a 50 ms single-shot timer.  When the   *)
(* timer fires, render() empties the queue and paints every entry a second *)
(* time, into the JSON protocol.  QWidget::render sends the widget another *)
(* Paint event, which has to be told from a genuine one: that is the job   *)
(* of the marker currentRenderingWidget.                                   *)
(*                                                                         *)
(* A widget is Extent cells wide and a rectangle is an interval of cells:  *)
(* enough to tell a union, a bounding rectangle and a lost cell apart.     *)
(***************************************************************************)
EXTENDS Integers, Sequences

CONSTANTS
  Widgets,   \* the addresses QWidgets live at
  Stable,    \* widgets that, once tracked, are never hidden, closed or destroyed
  Masked,    \* widgets whose mask (QWidget::setMask) may leave nothing to paint
  Extent,    \* number of cells of a widget
  NoWidget   \* the null pointer

ASSUME WebRendererAssumption ==
  /\ Stable \subseteq Widgets
  /\ Masked \subseteq Widgets \ Stable
  /\ NoWidget \notin Widgets
  /\ Extent \in Nat \ {0}

Cell == 1 .. Extent
Rect == {r \in [lo : Cell, hi : Cell] : r.lo <= r.hi}
WholeWidget == [lo |-> 1, hi |-> Extent]
NullRect == [lo |-> 0, hi |-> -1]     \* QRect(): neither width nor height

Cells(r) == r.lo .. r.hi

Entry == [w : Widgets, rect : Rect]

VARIABLES
  tracked,   \* WidgetsCollection::m_widgets
  queue,     \* WebRenderer::_render
  sem,       \* available permits of renderSemaphore
  armed,     \* the single-shot timer t is running
  current,   \* currentRenderingWidget
  phase,     \* where the GUI thread is: outside render(), in its loop, or
             \* in the paintEvent of the widget being rendered
  damage     \* history: per widget, the cells that genuine Paint events of the
             \* tracked widget reported and that were not sent to the client since

vars == <<tracked, queue, sem, armed, current, phase, damage>>

TypeOK ==
  /\ tracked \in SUBSET Widgets
  /\ queue \in Seq(Entry)
  /\ sem \in {0, 1}
  /\ armed \in BOOLEAN
  /\ current \in Widgets \cup {NoWidget}
  /\ phase \in {"idle", "render", "paint"}
  /\ damage \in [Widgets -> SUBSET Cell]

Init ==
  /\ tracked = {}
  /\ queue = <<>>
  /\ sem = 1
  /\ armed = FALSE
  /\ current = NoWidget
  /\ phase = "idle"
  /\ damage = [w \in Widgets |-> {}]

-----------------------------------------------------------------------------
(* The operations of RenderQueue and of QRect they use.                    *)

\* Mutant: insert() keeps the newer rectangle only.
UnitedMutant(r, s) == r

\* QRect::united: the bounding rectangle of both.
United(r, s) ==
  [lo |-> IF r.lo <= s.lo THEN r.lo ELSE s.lo,
   hi |-> IF r.hi >= s.hi THEN r.hi ELSE s.hi]

\* QRect::contains: a null rectangle contains nothing and is contained in none.
Contains(r, s) ==
  /\ r # NullRect
  /\ s # NullRect
  /\ r.lo <= s.lo
  /\ s.hi <= r.hi

Queued(w) == \E i \in DOMAIN queue : queue[i].w = w

PositionOf(w) ==
  CHOOSE i \in DOMAIN queue :
    queue[i].w = w /\ \A j \in DOMAIN queue : j < i => queue[j].w # w

\* Mutant: the most recent request is served first.
InsertMutant(w, r) ==
  IF Queued(w)
  THEN [queue EXCEPT ![PositionOf(w)] = [w |-> w, rect |-> United(r, @.rect)]]
  ELSE <<[w |-> w, rect |-> r]>> \o queue

\* RenderQueue::insert: the first entry of the widget grows, or a new one is added.
Insert(w, r) ==
  IF Queued(w)
  THEN [queue EXCEPT ![PositionOf(w)] = [w |-> w, rect |-> United(r, @.rect)]]
  ELSE Append(queue, [w |-> w, rect |-> r])

\* RenderQueue::removeAll(Widget(w)): entries equal to a Widget without rectangle,
\* under _Widget::operator==.
EqualsBare(e, w) == e.w = w /\ Contains(NullRect, e.rect)

RemoveAll(w) ==
  IF \E i \in DOMAIN queue : EqualsBare(queue[i], w)
  THEN SelectSeq(queue, LAMBDA e : ~ EqualsBare(e, w))
  ELSE queue

-----------------------------------------------------------------------------
(* Events of the event filter.  They arrive from the event loop, or nested *)
(* inside the paintEvent of the widget that is being rendered.             *)

Handling == phase \in {"idle", "paint"}

\* Create, ChildAdded, Show, ShowToParent: the widget enters WidgetsCollection.
Track(w) ==
  /\ Handling
  /\ w \notin tracked
  /\ tracked' = tracked \cup {w}
  /\ UNCHANGED <<queue, sem, armed, current, phase, damage>>

\* Destroy, ChildRemoved, Close, Hide, HideToParent: remove(w) and dequeue(w).
\* What the client shows of the widget no longer matters.
Untrack(w) ==
  /\ Handling
  /\ w \in tracked \ Stable
  /\ tracked' = tracked \ {w}
  /\ queue' = RemoveAll(w)
  /\ damage' = [damage EXCEPT ![w] = {}]
  /\ UNCHANGED <<sem, armed, current, phase>>

\* QEvent::Paint for the rectangle r; a NullRect stands for an event whose
\* rectangle and region are empty, for which the code takes widget->rect().
Paint(w, r) ==
  /\ Handling
  /\ w \in tracked
  /\ LET dirty == IF r = NullRect THEN WholeWidget ELSE r IN
     /\ damage' = [damage EXCEPT ![w] = @ \cup Cells(dirty)]
     /\ \/ /\ current # w
           /\ queue' = Insert(w, dirty)
           /\ IF sem > 0
              THEN sem' = sem - 1 /\ armed' = TRUE
              ELSE UNCHANGED <<sem, armed>>
           /\ UNCHANGED current
        \/ /\ current = w
           /\ current' = NoWidget
           /\ UNCHANGED <<queue, sem, armed>>
  /\ UNCHANGED <<tracked, phase>>

-----------------------------------------------------------------------------
(* WebRenderer::render, the slot of the timer.                             *)

\* Mutant: the permit goes back when the pass starts, so that a Paint nested in it
\* schedules the next one.
TimeoutMutant ==
  /\ phase = "idle"
  /\ armed
  /\ armed' = FALSE
  /\ sem' = sem + 1
  /\ phase' = "render"
  /\ UNCHANGED <<tracked, queue, current, damage>>

Timeout ==
  /\ phase = "idle"
  /\ armed
  /\ armed' = FALSE
  /\ phase' = "render"
  /\ UNCHANGED <<tracked, queue, sem, current, damage>>

\* The entry's widget is not in WidgetsCollection: only the marker is set.
SkipUntracked ==
  /\ phase = "render"
  /\ queue # <<>>
  /\ Head(queue).w \notin tracked
  /\ queue' = Tail(queue)
  /\ current' = Head(queue).w
  /\ UNCHANGED <<tracked, sem, armed, phase, damage>>

\* QWidget::render finds nothing to paint, for the widget's mask leaves no part of the
\* rectangle, and sends no Paint event: an empty draw command, and the marker stays.
RenderNothing ==
  /\ phase = "render"
  /\ queue # <<>>
  /\ Head(queue).w \in tracked \cap Masked
  /\ queue' = Tail(queue)
  /\ current' = Head(queue).w
  /\ damage' = [damage EXCEPT ![Head(queue).w] = @ \ Cells(Head(queue).rect)]
  /\ UNCHANGED <<tracked, sem, armed, phase>>

\* beginRender and QWidget::render, whose Paint event comes back to queue() at once
\* and clears the marker; the widget's own paintEvent runs next.
RenderEntry ==
  /\ phase = "render"
  /\ queue # <<>>
  /\ Head(queue).w \in tracked
  /\ queue' = Tail(queue)
  /\ current' = NoWidget
  /\ phase' = "paint"
  /\ damage' = [damage EXCEPT ![Head(queue).w] = @ \ Cells(Head(queue).rect)]
  /\ UNCHANGED <<tracked, sem, armed>>

\* The paintEvent returns; endRender and finish.
EndPaint ==
  /\ phase = "paint"
  /\ phase' = "render"
  /\ UNCHANGED <<tracked, queue, sem, armed, current, damage>>

\* Mutant: one entry per timeout, the permit given back with entries left.
EndRenderEarlyMutant ==
  /\ phase = "render"
  /\ sem' = sem + 1
  /\ phase' = "idle"
  /\ UNCHANGED <<tracked, queue, armed, current, damage>>

\* The queue is empty: render() gives the permit back and returns.
EndRender ==
  /\ phase = "render"
  /\ queue = <<>>
  /\ sem' = sem + 1
  /\ phase' = "idle"
  /\ UNCHANGED <<tracked, queue, armed, current, damage>>

Render == SkipUntracked \/ RenderNothing \/ RenderEntry \/ EndPaint \/ EndRender

Next ==
  \/ \E w \in Widgets : Track(w) \/ Untrack(w)
  \/ \E w \in Widgets, r \in Rect \cup {NullRect} : Paint(w, r)
  \/ Timeout
  \/ Render

\* The GUI thread returns to its event loop, which delivers timeouts, and render()
\* is straight-line code around paintEvents that return.
Fairness == WF_vars(Timeout) /\ WF_vars(Render)

Spec == Init /\ [][Next]_vars

FairSpec == Spec /\ Fairness

-----------------------------------------------------------------------------
(* Correctness.                                                            *)

\* A queued widget always has a render pass coming: the timer is running or render()
\* is at work.  queue() starts the timer only when it gets the permit, so this is
\* about the order in which render() empties the queue and gives the permit back.
RenderScheduled == queue # <<>> => armed \/ phase # "idle"

\* The permit of renderSemaphore is out exactly while one render pass is scheduled or
\* running, and never two: a second pass would reenter render() from a paintEvent.
OnePassAtATime ==
  /\ sem = 0 <=> armed \/ phase # "idle"
  /\ ~ (armed /\ phase # "idle")

\* A widget has at most one entry, so that one pass renders it at most once more
\* than its paintEvents ask for.
OneEntryPerWidget ==
  \A i, j \in DOMAIN queue : queue[i].w = queue[j].w => i = j

Covered(w) == UNION {Cells(queue[i].rect) : i \in {k \in DOMAIN queue : queue[k].w = w}}

\* No genuine Paint event of a stable widget is lost, whatever the other widgets do:
\* every cell it reported was rendered since, or is in the widget's queue entry.
NoLostPaint == \A w \in Stable : damage[w] \subseteq Covered(w)

\* The same for every tracked widget: "rendering is an operation carried out every
\* time a change of any element of the user interface is detected".
EveryPaintKept == \A w \in tracked : damage[w] \subseteq Covered(w)

\* No entry stays in the queue for ever, be its widget tracked or not: render() takes
\* entries from the front and insert() adds them at the back.
EventuallyTaken == \A w \in Widgets : Queued(w) ~> ~ Queued(w)

=============================================================================
