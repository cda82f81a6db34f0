------------------------- MODULE WebRendererProofs -------------------------
(***************************************************************************)
(* Proofs about the render queue: its types, the one render pass, the one  *)
(* entry per widget, and that no paint of a stable widget is lost.         *)
(***************************************************************************)
EXTENDS WebRenderer, SequenceTheorems, TLAPS

-----------------------------------------------------------------------------
(* The operators of the queue.                                             *)

\* The bounding rectangle of two rectangles is a rectangle and contains both.
LEMMA UnitedContains ==
  ASSUME NEW r \in Rect, NEW s \in Rect
  PROVE  /\ United(r, s) \in Rect
         /\ Cells(r) \subseteq Cells(United(r, s))
         /\ Cells(s) \subseteq Cells(United(r, s))
BY WebRendererAssumption, SMTT(30) DEF United, Rect, Cell, Cells

\* QRect() contains no rectangle, so that removeAll, as dequeue calls it, takes
\* nothing out of the queue.
LEMMA RemoveAllNothing ==
  ASSUME NEW w \in Widgets
  PROVE  RemoveAll(w) = queue
BY DEF RemoveAll, EqualsBare, Contains

\* The entry insert() finds is the only one of the widget.
LEMMA PositionIsUnique ==
  ASSUME TypeOK, OneEntryPerWidget, NEW w \in Widgets, Queued(w)
  PROVE  /\ PositionOf(w) \in DOMAIN queue
         /\ queue[PositionOf(w)].w = w
<1>1. PICK i \in DOMAIN queue : queue[i].w = w
  BY DEF Queued
<1>2. \A j \in DOMAIN queue : j < i => queue[j].w # w
  BY <1>1, LenProperties DEF OneEntryPerWidget, TypeOK
<1> QED
  BY <1>1, <1>2 DEF PositionOf

\* insert() of a queued widget: its entry grows, the others stay.
LEMMA InsertGrows ==
  ASSUME TypeOK, OneEntryPerWidget, NEW w \in Widgets, NEW r \in Rect, Queued(w)
  PROVE  /\ Insert(w, r) \in Seq(Entry)
         /\ DOMAIN Insert(w, r) = DOMAIN queue
         /\ \A i \in DOMAIN queue : Insert(w, r)[i].w = queue[i].w
         /\ \A i \in DOMAIN queue :
              Cells(queue[i].rect) \subseteq Cells(Insert(w, r)[i].rect)
         /\ \E i \in DOMAIN queue :
              queue[i].w = w /\ Cells(r) \subseteq Cells(Insert(w, r)[i].rect)
<1> DEFINE p == PositionOf(w)
           q == Insert(w, r)
<1>1. p \in DOMAIN queue /\ queue[p].w = w
  BY PositionIsUnique
<1>2. /\ queue \in Seq(Entry)
      /\ DOMAIN queue = 1 .. Len(queue)
      /\ \A i \in DOMAIN queue : queue[i] \in Entry
  BY LenProperties, ElementOfSeq DEF TypeOK
<1>3. q = [queue EXCEPT ![p] = [w |-> w, rect |-> United(r, queue[p].rect)]]
  BY DEF Insert
<1>4. DOMAIN q = DOMAIN queue
  BY <1>3
<1>5. \A i \in DOMAIN queue : i # p => q[i] = queue[i]
  BY <1>3
<1>6. q[p] = [w |-> w, rect |-> United(r, queue[p].rect)]
  BY <1>1, <1>3
<1>7. queue[p].rect \in Rect
  BY <1>1, <1>2 DEF Entry
<1>8. q[p].w = w /\ q[p].rect = United(r, queue[p].rect) /\ q[p] \in Entry
  BY <1>6, <1>7, UnitedContains DEF Entry
<1>9. \A i \in DOMAIN queue : q[i] \in Entry
  BY <1>2, <1>5, <1>8
<1>10. q \in Seq(Entry)
  <2>1. q \in [1 .. Len(queue) -> Entry]
    <3>1. q = [i \in DOMAIN queue |-> q[i]]
      BY <1>3
    <3> QED
      BY <3>1, <1>2, <1>9
  <2>2. Len(queue) \in Nat
    BY <1>2, LenProperties
  <2> HIDE DEF q
  <2> QED
    BY <2>1, <2>2, SeqDef
<1>11. Cells(r) \subseteq Cells(q[p].rect) /\ Cells(queue[p].rect) \subseteq Cells(q[p].rect)
  BY <1>7, <1>8, UnitedContains DEF Entry
<1> HIDE DEF q, p
<1>12. \A i \in DOMAIN queue : q[i].w = queue[i].w
  BY <1>1, <1>5, <1>8
<1>13. \A i \in DOMAIN queue : Cells(queue[i].rect) \subseteq Cells(q[i].rect)
  BY <1>5, <1>11
<1>14. \E i \in DOMAIN queue : queue[i].w = w /\ Cells(r) \subseteq Cells(q[i].rect)
  BY <1>1, <1>11
<1> QED
  BY <1>4, <1>10, <1>12, <1>13, <1>14 DEF q

\* insert() of another widget: one more entry at the end.
LEMMA InsertAdds ==
  ASSUME TypeOK, NEW w \in Widgets, NEW r \in Rect, ~ Queued(w)
  PROVE  /\ Insert(w, r) \in Seq(Entry)
         /\ DOMAIN Insert(w, r) = 1 .. Len(queue) + 1
         /\ DOMAIN queue = 1 .. Len(queue)
         /\ Len(queue) \in Nat
         /\ \A i \in DOMAIN queue : Insert(w, r)[i] = queue[i]
         /\ Insert(w, r)[Len(queue) + 1] = [w |-> w, rect |-> r]
<1> DEFINE e == [w |-> w, rect |-> r]
<1>1. queue \in Seq(Entry) /\ e \in Entry
  BY DEF TypeOK, Entry
<1>2. Insert(w, r) = Append(queue, e)
  BY DEF Insert
<1> QED
  BY <1>1, <1>2, AppendProperties, LenProperties

\* The loop of render() takes the first entry.
LEMMA TailEntries ==
  ASSUME TypeOK, queue # <<>>
  PROVE  /\ Tail(queue) \in Seq(Entry)
         /\ Head(queue) \in Entry
         /\ Head(queue) = queue[1]
         /\ Len(queue) \in Nat
         /\ DOMAIN queue = 1 .. Len(queue)
         /\ DOMAIN Tail(queue) = 1 .. Len(queue) - 1
         /\ \A i \in DOMAIN Tail(queue) : Tail(queue)[i] = queue[i + 1]
BY HeadTailProperties, LenProperties DEF TypeOK

-----------------------------------------------------------------------------
(* The inductive invariant.                                                *)

\* NoLostPaint, cell by cell.
PaintsKept ==
  \A w \in Stable : \A c \in damage[w] :
    \E i \in DOMAIN queue : queue[i].w = w /\ c \in Cells(queue[i].rect)

\* render() leaves its marker only on a widget that it skips or that it cannot paint.
MarkerUnstable == current \notin Stable

\* A stable widget with an entry is in WidgetsCollection: render() does not skip it.
QueuedTracked ==
  \A i \in DOMAIN queue : queue[i].w \in Stable => queue[i].w \in tracked

IInv ==
  /\ TypeOK
  /\ RenderScheduled
  /\ OnePassAtATime
  /\ OneEntryPerWidget
  /\ MarkerUnstable
  /\ QueuedTracked
  /\ PaintsKept

\* No rectangle, no marker, no entry: the state before the first event.
LEMMA IInvInit == Init => IInv
<1> SUFFICES ASSUME Init PROVE IInv
  OBVIOUS
<1>1. TypeOK
  <2>1. queue \in Seq(Entry)
    BY EmptySeq DEF Init
  <2>2. damage \in [Widgets -> SUBSET Cell]
    BY DEF Init
  <2> QED
    BY <2>1, <2>2 DEF Init, TypeOK
<1>2. DOMAIN queue = {}
  BY EmptySeq, LenProperties DEF Init
<1>3. MarkerUnstable
  BY WebRendererAssumption DEF Init, MarkerUnstable
<1>4. RenderScheduled /\ OnePassAtATime
  BY DEF Init, RenderScheduled, OnePassAtATime
<1>5. OneEntryPerWidget /\ QueuedTracked
  BY <1>2 DEF OneEntryPerWidget, QueuedTracked
<1>6. PaintsKept
  BY WebRendererAssumption DEF Init, PaintsKept
<1> QED
  BY <1>1, <1>3, <1>4, <1>5, <1>6 DEF IInv

\* A tracked widget more.
LEMMA TrackStep ==
  ASSUME IInv, NEW w \in Widgets, Track(w)
  PROVE  IInv'
<1> USE DEF IInv, Track, Handling
<1>1. TypeOK'
  BY DEF TypeOK
<1>2. (RenderScheduled /\ OnePassAtATime /\ OneEntryPerWidget /\ MarkerUnstable)'
  BY DEF RenderScheduled, OnePassAtATime, OneEntryPerWidget, MarkerUnstable
<1>3. (QueuedTracked /\ PaintsKept)'
  BY DEF QueuedTracked, PaintsKept
<1> QED
  BY <1>1, <1>2, <1>3

\* A tracked widget less: it is not stable, and the queue stays.
LEMMA UntrackStep ==
  ASSUME IInv, NEW w \in Widgets, Untrack(w)
  PROVE  IInv'
<1> USE DEF IInv, Untrack, Handling
<1>1. queue' = queue
  BY RemoveAllNothing
<1>2. TypeOK'
  BY <1>1 DEF TypeOK
<1>3. (RenderScheduled /\ OnePassAtATime /\ OneEntryPerWidget /\ MarkerUnstable)'
  BY <1>1 DEF RenderScheduled, OnePassAtATime, OneEntryPerWidget, MarkerUnstable
<1>4. QueuedTracked'
  BY <1>1 DEF QueuedTracked
<1>5. \A v \in Stable : damage'[v] = damage[v]
  BY WebRendererAssumption DEF TypeOK
<1>6. PaintsKept'
  BY <1>1, <1>5 DEF PaintsKept
<1> QED
  BY <1>2, <1>3, <1>4, <1>6

\* The rectangle that a Paint event adds to the queue.
LEMMA DirtyIsRect ==
  ASSUME NEW r \in Rect \cup {NullRect}
  PROVE  (IF r = NullRect THEN WholeWidget ELSE r) \in Rect
BY WebRendererAssumption DEF Rect, WholeWidget, Cell

\* A rectangle lies in its widget.
LEMMA CellsOfRect ==
  ASSUME NEW r \in Rect
  PROVE  Cells(r) \subseteq Cell
BY WebRendererAssumption DEF Cells, Rect, Cell

\* A Paint event: the marker swallows it only for a widget that is not stable.
LEMMA PaintStep ==
  ASSUME IInv, NEW w \in Widgets, NEW r \in Rect \cup {NullRect}, Paint(w, r)
  PROVE  IInv'
<1> DEFINE d == IF r = NullRect THEN WholeWidget ELSE r
<1>1. d \in Rect
  BY DirtyIsRect
<1>2. Cells(d) \subseteq Cell
  BY <1>1, CellsOfRect
<1>3. /\ w \in tracked
      /\ phase \in {"idle", "paint"}
      /\ damage' = [damage EXCEPT ![w] = @ \cup Cells(d)]
      /\ UNCHANGED <<tracked, phase>>
  BY DEF Paint, Handling
<1> HIDE DEF d
<1>4. /\ damage' \in [Widgets -> SUBSET Cell]
      /\ damage'[w] = damage[w] \cup Cells(d)
      /\ \A v \in Widgets : v # w => damage'[v] = damage[v]
  BY <1>2, <1>3 DEF IInv, TypeOK
<1>5. CASE current = w
  <2>1. current' = NoWidget /\ UNCHANGED <<queue, sem, armed>>
    BY <1>5 DEF Paint
  <2>2. TypeOK'
    BY <1>3, <1>4, <2>1 DEF IInv, TypeOK
  <2>3. (RenderScheduled /\ OnePassAtATime /\ OneEntryPerWidget /\ QueuedTracked)'
    BY <1>3, <2>1
    DEF IInv, RenderScheduled, OnePassAtATime, OneEntryPerWidget, QueuedTracked
  <2>4. MarkerUnstable'
    BY <2>1, WebRendererAssumption DEF MarkerUnstable
  <2>5. \A v \in Stable : damage'[v] = damage[v]
    BY <1>4, <1>5, WebRendererAssumption DEF IInv, MarkerUnstable
  <2>6. PaintsKept'
    BY <2>1, <2>5 DEF IInv, PaintsKept
  <2> QED
    BY <2>2, <2>3, <2>4, <2>6 DEF IInv
<1>6. CASE current # w
  <2>1. /\ queue' = Insert(w, d)
        /\ current' = current
        /\ IF sem > 0 THEN sem' = sem - 1 /\ armed' = TRUE ELSE UNCHANGED <<sem, armed>>
    BY <1>6 DEF Paint, d
  <2>2. (RenderScheduled /\ OnePassAtATime)'
    BY <1>3, <2>1 DEF IInv, TypeOK, RenderScheduled, OnePassAtATime
  <2>3. MarkerUnstable'
    BY <2>1 DEF IInv, MarkerUnstable
  <2>5. sem' \in {0, 1} /\ armed' \in BOOLEAN
    <3>1. sem \in {0, 1} /\ armed \in BOOLEAN
      BY DEF IInv, TypeOK
    <3>2. CASE sem > 0
      <4>1. sem' = sem - 1 /\ armed' = TRUE
        BY <2>1, <3>2
      <4>2. sem' \in {0, 1}
        BY <3>1, <3>2, <4>1
      <4> QED
        BY <4>1, <4>2
    <3>3. CASE ~ (sem > 0)
      <4>1. sem' = sem /\ armed' = armed
        BY <2>1, <3>3
      <4> QED
        BY <3>1, <4>1
    <3> QED
      BY <3>2, <3>3
  <2>6. TypeOK /\ OneEntryPerWidget
    BY DEF IInv
  <2>4. TypeOK' /\ (OneEntryPerWidget /\ QueuedTracked /\ PaintsKept)'
    <3>1. CASE Queued(w)
      <4>1. /\ queue' \in Seq(Entry)
            /\ DOMAIN queue' = DOMAIN queue
            /\ \A i \in DOMAIN queue : queue'[i].w = queue[i].w
            /\ \A i \in DOMAIN queue :
                 Cells(queue[i].rect) \subseteq Cells(queue'[i].rect)
            /\ \E i \in DOMAIN queue :
                 queue[i].w = w /\ Cells(d) \subseteq Cells(queue'[i].rect)
        <5>1. /\ Insert(w, d) \in Seq(Entry)
              /\ DOMAIN Insert(w, d) = DOMAIN queue
              /\ \A i \in DOMAIN queue : Insert(w, d)[i].w = queue[i].w
              /\ \A i \in DOMAIN queue :
                   Cells(queue[i].rect) \subseteq Cells(Insert(w, d)[i].rect)
              /\ \E i \in DOMAIN queue :
                   queue[i].w = w /\ Cells(d) \subseteq Cells(Insert(w, d)[i].rect)
          BY <1>1, <2>6, <3>1, InsertGrows
        <5> QED
          BY <2>1, <5>1
      <4>2. TypeOK'
        BY <1>3, <1>4, <2>1, <2>5, <4>1 DEF IInv, TypeOK
      <4>3. OneEntryPerWidget' /\ QueuedTracked'
        BY <1>3, <4>1 DEF IInv, OneEntryPerWidget, QueuedTracked
      <4>4. PaintsKept'
        <5> SUFFICES ASSUME NEW v \in Stable, NEW c \in damage'[v]
                     PROVE  \E i \in DOMAIN queue' :
                              queue'[i].w = v /\ c \in Cells(queue'[i].rect)
          BY DEF PaintsKept
        <5>1. CASE c \in damage[v]
          <6>1. PICK i \in DOMAIN queue : queue[i].w = v /\ c \in Cells(queue[i].rect)
            BY <5>1 DEF IInv, PaintsKept
          <6> QED
            BY <4>1, <6>1
        <5>2. CASE c \notin damage[v]
          <6>1. v = w /\ c \in Cells(d)
            BY <1>4, <5>2, WebRendererAssumption
          <6> QED
            BY <4>1, <6>1
        <5> QED
          BY <5>1, <5>2
      <4> QED
        BY <4>2, <4>3, <4>4
    <3>2. CASE ~ Queued(w)
      <4>1. /\ queue' \in Seq(Entry)
            /\ DOMAIN queue' = 1 .. Len(queue) + 1
            /\ DOMAIN queue = 1 .. Len(queue)
            /\ Len(queue) \in Nat
            /\ \A i \in DOMAIN queue : queue'[i] = queue[i]
            /\ queue'[Len(queue) + 1] = [w |-> w, rect |-> d]
        BY <1>1, <2>1, <2>6, <3>2, InsertAdds
      <4>2. TypeOK'
        BY <1>3, <1>4, <2>1, <2>5, <4>1 DEF IInv, TypeOK
      <4>3. \A i \in DOMAIN queue : queue[i].w # w
        BY <3>2 DEF Queued
      <4>4. OneEntryPerWidget'
        BY <4>1, <4>3 DEF IInv, OneEntryPerWidget
      <4>5. QueuedTracked'
        BY <1>3, <4>1 DEF IInv, QueuedTracked
      <4>6. PaintsKept'
        <5> SUFFICES ASSUME NEW v \in Stable, NEW c \in damage'[v]
                     PROVE  \E i \in DOMAIN queue' :
                              queue'[i].w = v /\ c \in Cells(queue'[i].rect)
          BY DEF PaintsKept
        <5>1. CASE c \in damage[v]
          <6>1. PICK i \in DOMAIN queue : queue[i].w = v /\ c \in Cells(queue[i].rect)
            BY <5>1 DEF IInv, PaintsKept
          <6> QED
            BY <4>1, <6>1
        <5>2. CASE c \notin damage[v]
          <6>1. v = w /\ c \in Cells(d)
            BY <1>4, <5>2, WebRendererAssumption
          <6> QED
            BY <4>1, <6>1
        <5> QED
          BY <5>1, <5>2
      <4> QED
        BY <4>2, <4>4, <4>5, <4>6
    <3> QED
      BY <3>1, <3>2
  <2> QED
    BY <2>2, <2>3, <2>4 DEF IInv
<1> QED
  BY <1>5, <1>6

-----------------------------------------------------------------------------
(* The steps of render().                                                  *)

\* The timer fires: a pass that was scheduled is now running.
LEMMA TimeoutStep == ASSUME IInv, Timeout PROVE IInv'
<1> USE DEF IInv, Timeout
<1>1. TypeOK'
  BY DEF TypeOK
<1>2. (RenderScheduled /\ OnePassAtATime /\ MarkerUnstable)'
  BY DEF RenderScheduled, OnePassAtATime, MarkerUnstable
<1>3. (OneEntryPerWidget /\ QueuedTracked /\ PaintsKept)'
  BY DEF OneEntryPerWidget, QueuedTracked, PaintsKept
<1> QED
  BY <1>1, <1>2, <1>3

\* What taking the first entry keeps, whatever is done with it.
LEMMA TakeKeeps ==
  ASSUME IInv, queue # <<>>, queue' = Tail(queue), tracked' = tracked
  PROVE  /\ queue' \in Seq(Entry)
         /\ OneEntryPerWidget'
         /\ QueuedTracked'
         /\ \A v \in Stable \ {Head(queue).w} : \A c \in damage[v] :
              \E i \in DOMAIN queue' : queue'[i].w = v /\ c \in Cells(queue'[i].rect)
         /\ Head(queue).w \in Stable =>
              damage[Head(queue).w] \subseteq Cells(Head(queue).rect)
<1>1. /\ queue' \in Seq(Entry)
      /\ Head(queue) = queue[1]
      /\ Len(queue) \in Nat
      /\ DOMAIN queue = 1 .. Len(queue)
      /\ DOMAIN queue' = 1 .. Len(queue) - 1
      /\ \A i \in DOMAIN queue' : queue'[i] = queue[i + 1]
  BY TailEntries DEF IInv
<1>2. 1 \in DOMAIN queue
  BY <1>1, EmptySeq DEF IInv, TypeOK
<1>3. OneEntryPerWidget'
  BY <1>1 DEF IInv, OneEntryPerWidget
<1>4. QueuedTracked'
  BY <1>1 DEF IInv, QueuedTracked
<1>5. ASSUME NEW v \in Stable \ {Head(queue).w}, NEW c \in damage[v]
      PROVE  \E i \in DOMAIN queue' : queue'[i].w = v /\ c \in Cells(queue'[i].rect)
  <2>1. PICK i \in DOMAIN queue : queue[i].w = v /\ c \in Cells(queue[i].rect)
    BY DEF IInv, PaintsKept
  <2>2. i # 1
    BY <1>1, <2>1
  <2>3. i - 1 \in DOMAIN queue' /\ queue'[i - 1] = queue[i]
    BY <1>1, <2>2
  <2> QED
    BY <2>1, <2>3
<1>6. ASSUME Head(queue).w \in Stable, NEW c \in damage[Head(queue).w]
      PROVE  c \in Cells(Head(queue).rect)
  <2>1. PICK i \in DOMAIN queue :
          queue[i].w = Head(queue).w /\ c \in Cells(queue[i].rect)
    BY <1>6 DEF IInv, PaintsKept
  <2>2. i = 1
    BY <1>1, <1>2, <2>1 DEF IInv, OneEntryPerWidget
  <2> QED
    BY <1>1, <2>1, <2>2
<1> QED
  BY <1>1, <1>3, <1>4, <1>5, <1>6

\* An entry whose widget is gone: the widget is not stable.
LEMMA SkipStep == ASSUME IInv, SkipUntracked PROVE IInv'
<1>1. /\ queue # <<>> /\ queue' = Tail(queue)
      /\ phase = "render" /\ current' = Head(queue).w /\ Head(queue).w \notin tracked
      /\ UNCHANGED <<tracked, sem, armed, phase, damage>>
  BY DEF SkipUntracked
<1>2. Head(queue) \in Entry /\ Head(queue) = queue[1] /\ 1 \in DOMAIN queue
  BY <1>1, TailEntries, EmptySeq DEF IInv, TypeOK
<1>3. Head(queue).w \in Widgets \ Stable
  BY <1>1, <1>2 DEF IInv, QueuedTracked, Entry
<1>4. queue' \in Seq(Entry) /\ OneEntryPerWidget' /\ QueuedTracked'
  BY <1>1, TakeKeeps
<1>5. TypeOK'
  BY <1>1, <1>3, <1>4 DEF IInv, TypeOK
<1>6. RenderScheduled' /\ OnePassAtATime' /\ MarkerUnstable'
  BY <1>1, <1>3 DEF IInv, RenderScheduled, OnePassAtATime, MarkerUnstable
<1>7. \A v \in Stable : v # Head(queue).w
  BY <1>3
<1>8. PaintsKept'
  BY <1>1, <1>7, TakeKeeps DEF PaintsKept
<1> QED
  BY <1>4, <1>5, <1>6, <1>8 DEF IInv

\* What the entry covers goes to the client and is no longer dirty.
LEMMA RenderedKept ==
  ASSUME IInv, queue # <<>>, queue' = Tail(queue), tracked' = tracked,
         damage' = [damage EXCEPT ![Head(queue).w] = @ \ Cells(Head(queue).rect)]
  PROVE  damage' \in [Widgets -> SUBSET Cell] /\ PaintsKept'
<1> DEFINE h == Head(queue)
<1>1. h \in Entry /\ h.w \in Widgets
  BY TailEntries DEF IInv, Entry
<1> HIDE DEF h
<1>2. damage' = [damage EXCEPT ![h.w] = damage[h.w] \ Cells(h.rect)]
  BY DEF h
<1>3. damage' \in [Widgets -> SUBSET Cell]
  BY <1>1, <1>2 DEF IInv, TypeOK
<1>4. damage'[h.w] = damage[h.w] \ Cells(h.rect)
  BY <1>1, <1>2 DEF IInv, TypeOK
<1>5. \A v \in Stable \ {h.w} : damage'[v] = damage[v]
  BY <1>1, <1>2, WebRendererAssumption DEF IInv, TypeOK
<1>6. h.w \in Stable => damage'[h.w] = {}
  BY <1>4, TakeKeeps DEF h
<1>7. PaintsKept'
  BY <1>5, <1>6, TakeKeeps DEF PaintsKept, h
<1> QED
  BY <1>3, <1>7

\* The marker stays on a widget with a mask, which is not stable.
LEMMA RenderNothingStep == ASSUME IInv, RenderNothing PROVE IInv'
<1>1. /\ queue # <<>> /\ queue' = Tail(queue) /\ phase = "render"
      /\ current' = Head(queue).w /\ Head(queue).w \in Masked
      /\ damage' = [damage EXCEPT ![Head(queue).w] = @ \ Cells(Head(queue).rect)]
      /\ UNCHANGED <<tracked, sem, armed, phase>>
  BY DEF RenderNothing
<1>2. Head(queue).w \in Widgets \ Stable
  BY <1>1, WebRendererAssumption
<1>3. queue' \in Seq(Entry) /\ OneEntryPerWidget' /\ QueuedTracked'
  BY <1>1, TakeKeeps
<1>4. damage' \in [Widgets -> SUBSET Cell] /\ PaintsKept'
  BY <1>1, RenderedKept
<1>5. TypeOK'
  BY <1>1, <1>2, <1>3, <1>4 DEF IInv, TypeOK
<1>6. RenderScheduled' /\ OnePassAtATime' /\ MarkerUnstable'
  BY <1>1, <1>2 DEF IInv, RenderScheduled, OnePassAtATime, MarkerUnstable
<1> QED
  BY <1>3, <1>4, <1>5, <1>6 DEF IInv

\* The Paint event of QWidget::render clears the marker.
LEMMA RenderEntryStep == ASSUME IInv, RenderEntry PROVE IInv'
<1>1. /\ queue # <<>> /\ queue' = Tail(queue) /\ phase = "render"
      /\ current' = NoWidget /\ phase' = "paint"
      /\ damage' = [damage EXCEPT ![Head(queue).w] = @ \ Cells(Head(queue).rect)]
      /\ UNCHANGED <<tracked, sem, armed>>
  BY DEF RenderEntry
<1>2. queue' \in Seq(Entry) /\ OneEntryPerWidget' /\ QueuedTracked'
  BY <1>1, TakeKeeps
<1>3. damage' \in [Widgets -> SUBSET Cell] /\ PaintsKept'
  BY <1>1, RenderedKept
<1>4. TypeOK'
  BY <1>1, <1>2, <1>3 DEF IInv, TypeOK
<1>5. MarkerUnstable'
  BY <1>1, WebRendererAssumption DEF MarkerUnstable
<1>6. RenderScheduled' /\ OnePassAtATime'
  BY <1>1 DEF IInv, RenderScheduled, OnePassAtATime
<1> QED
  BY <1>2, <1>3, <1>4, <1>5, <1>6 DEF IInv

\* The paintEvent of the rendered widget returns.
LEMMA EndPaintStep == ASSUME IInv, EndPaint PROVE IInv'
<1> USE DEF IInv, EndPaint
<1>1. TypeOK'
  BY DEF TypeOK
<1>2. (RenderScheduled /\ OnePassAtATime /\ MarkerUnstable)'
  BY DEF RenderScheduled, OnePassAtATime, MarkerUnstable
<1>3. (OneEntryPerWidget /\ QueuedTracked /\ PaintsKept)'
  BY DEF OneEntryPerWidget, QueuedTracked, PaintsKept
<1> QED
  BY <1>1, <1>2, <1>3

\* The permit was out, for the pass was running: giving it back makes one.
LEMMA EndRenderStep == ASSUME IInv, EndRender PROVE IInv'
<1> USE DEF IInv, EndRender
<1>1. sem = 0 /\ ~ armed
  BY DEF OnePassAtATime, TypeOK
<1>2. TypeOK'
  BY <1>1 DEF TypeOK
<1>3. (RenderScheduled /\ OnePassAtATime /\ MarkerUnstable)'
  BY <1>1 DEF RenderScheduled, OnePassAtATime, MarkerUnstable
<1>4. (OneEntryPerWidget /\ QueuedTracked /\ PaintsKept)'
  BY DEF OneEntryPerWidget, QueuedTracked, PaintsKept
<1> QED
  BY <1>2, <1>3, <1>4

\* Every step keeps the invariant.
LEMMA IInvStep == IInv /\ [Next]_vars => IInv'
<1> SUFFICES ASSUME IInv, [Next]_vars PROVE IInv'
  OBVIOUS
<1>1. ASSUME NEW w \in Widgets, Track(w) PROVE IInv'
  BY <1>1, TrackStep
<1>2. ASSUME NEW w \in Widgets, Untrack(w) PROVE IInv'
  BY <1>2, UntrackStep
<1>3. ASSUME NEW w \in Widgets, NEW r \in Rect \cup {NullRect}, Paint(w, r) PROVE IInv'
  BY <1>3, PaintStep
<1>4. CASE Timeout
  BY <1>4, TimeoutStep
<1>5. CASE Render
  BY <1>5, SkipStep, RenderNothingStep, RenderEntryStep, EndPaintStep, EndRenderStep
  DEF Render
<1>6. CASE UNCHANGED vars
  BY <1>6 DEF vars, IInv, TypeOK, RenderScheduled, OnePassAtATime, OneEntryPerWidget,
              MarkerUnstable, QueuedTracked, PaintsKept
<1> QED
  BY <1>1, <1>2, <1>3, <1>4, <1>5, <1>6 DEF Next

\* The invariant holds in every state.
LEMMA Invariance == Spec => []IInv
BY IInvInit, IInvStep, PTL DEF Spec

-----------------------------------------------------------------------------
(* The theorems.                                                           *)

\* The variables keep their types: among them, renderSemaphore never has two permits,
\* although render() gives one back without having taken one itself.
THEOREM TypeCorrect == Spec => []TypeOK
<1>1. IInv => TypeOK
  BY DEF IInv
<1> QED
  BY <1>1, Invariance, PTL

\* Whatever the number of widgets and the order of events, a queued widget has a pass
\* coming.
THEOREM QueueIsScheduled == Spec => []RenderScheduled
<1>1. IInv => RenderScheduled
  BY DEF IInv
<1> QED
  BY <1>1, Invariance, PTL

\* render() is never scheduled while it runs, nor twice.
THEOREM SinglePass == Spec => []OnePassAtATime
<1>1. IInv => OnePassAtATime
  BY DEF IInv
<1> QED
  BY <1>1, Invariance, PTL

\* RenderQueue::insert never adds a second entry for a widget.
THEOREM SingleEntry == Spec => []OneEntryPerWidget
<1>1. IInv => OneEntryPerWidget
  BY DEF IInv
<1> QED
  BY <1>1, Invariance, PTL

\* No cell that a stable widget reported dirty is forgotten before it is rendered,
\* although the other widgets come and go and render() leaves its marker on them.
THEOREM StablePaintsKept == Spec => []NoLostPaint
<1>1. IInv => NoLostPaint
  <2> SUFFICES ASSUME IInv, NEW w \in Stable, NEW c \in damage[w]
               PROVE  c \in Covered(w)
    BY DEF NoLostPaint
  <2>1. PICK i \in DOMAIN queue : queue[i].w = w /\ c \in Cells(queue[i].rect)
    BY DEF IInv, PaintsKept
  <2> QED
    BY <2>1 DEF Covered
<1> QED
  BY <1>1, Invariance, PTL

=============================================================================
