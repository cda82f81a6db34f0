------------------------------ MODULE EventFilter ------------------------------
(***************************************************************************)
(* The application's half of the display: the widgets (Qt, external), the  *)
(* events Qt sends as they change, what EventFilter::eventFilter makes of  *)
(* each event, and EventDispatcher for the window events of the browser.   *)
(*                                                                         *)
(* Qt delivers the events of one call (show(), setParent(), ...) one after *)
(* the other inside that call: `events' holds those still to come, and the *)
(* application does nothing else before they are delivered.  The websocket *)
(* thread and the browser run in between.                                  *)
(*                                                                         *)
(* `wire' is the layout command stream, from layout_buffer to the page; it *)
(* is first in, first out.  Draw commands travel apart, in `draws':        *)
(* flush() sends them ahead of layout commands issued before them, and the *)
(* page may hold them back for their pictures.                             *)
(*                                                                         *)
(* Left out: positions, sizes, titles and the stacking order, with the     *)
(* commands that carry them, and removeChild, for which the page has no    *)
(* case.  Plain widgets are children of windows, one level deep; a window  *)
(* of the kind "Window" is constructed without a parent, every other with  *)
(* one.                                                                    *)
(***************************************************************************)
EXTENDS WidgetKinds, Queues, SequencesExt

VARIABLES
    born,            \* widgets constructed so far
    gone,            \* widgets destroyed
    parents,         \* the parents each widget has had, the present one last
    wanted,          \* not WA_WState_Hidden: shown as soon as its parent is
    visible,         \* WA_WState_Visible
    active,          \* QApplication::activeWindow()
    events,          \* Qt events still to be delivered in the present call
    tracked,         \* WidgetsCollection
    isActivateEvent, \* EventDispatcher::_isActivateEvent
    inbox,           \* browser events posted to the GUI thread
    wire,            \* layout commands on their way to the page
    draws            \* widgets with a draw command on its way to the page

qtVars == <<born, gone, parents, wanted, visible, active>>
filterVars == <<tracked, wire>>
appVars == <<qtVars, filterVars, events, isActivateEvent, inbox, draws>>

Alive == born \ gone
Parent(w) == IF parents[w] = <<>> THEN NoWidget ELSE Last(parents[w])

Event(type, w) == [type |-> type, w |-> w, child |-> NoWidget]
ChildEvent(type, w, child) == [type |-> type, w |-> w, child |-> child]

InitApp ==
    /\ born = {} /\ gone = {} /\ wanted = {} /\ visible = {}
    /\ parents = [w \in Widgets |-> <<>>]
    /\ active = NoWidget
    /\ events = <<>>
    /\ tracked = {}
    /\ isActivateEvent = FALSE
    /\ inbox = <<>> /\ wire = <<>> /\ draws = {}

-----------------------------------------------------------------------------
(* Qt: what the calls of the application send.                             *)

\* The application runs: no call is under way.
Idle == events = <<>> /\ ~isActivateEvent

ShownWith(w) == {c \in Alive \cap wanted : ~IsWindow(c) /\ Parent(c) = w}
EventsFor(type, ws) == LET s == SetToSeq(ws) IN [i \in 1..Len(s) |-> Event(type, s[i])]

\* A window that is hidden gives the activation up first; its children are
\* hidden with it.  A widget that was not on the screen gets HideToParent alone.
HideEvents(w) ==
    (IF w \notin visible THEN <<>>
     ELSE (IF w = active THEN <<Event("WindowDeactivate", w)>> ELSE <<>>)
          \o <<Event("Hide", w)>>
          \o EventsFor("Hide", ShownWith(w) \cap visible))
    \o <<Event("HideToParent", w)>>

\* setActiveWindow(w): the new window hears of it before the old one.
ActivationEvents(w) ==
    IF w = active THEN <<>>
    ELSE <<Event("WindowActivate", w)>>
         \o (IF active = NoWidget THEN <<>> ELSE <<Event("WindowDeactivate", active)>>)

\* QWidget's constructor: the parent hears of the child before the child's
\* Create is sent.  A child of a parent not yet shown is shown with it.
Construct(w, p) ==
    /\ Idle
    /\ w \in Widgets \ born
    /\ \/ p \in Alive /\ IsWindow(p)
       \/ p = NoWidget /\ IsWindow(w)
    /\ (KindOf[w] = "Window") <=> (p = NoWidget)
    /\ born' = born \cup {w}
    /\ parents' = [parents EXCEPT ![w] = IF p = NoWidget THEN <<>> ELSE <<p>>]
    /\ wanted' = IF IsWindow(w) \/ p \in visible THEN wanted ELSE wanted \cup {w}
    /\ events' = (IF p = NoWidget THEN <<>> ELSE <<ChildEvent("ChildAdded", p, w)>>)
                 \o <<Event("Create", w)>>
    /\ UNCHANGED <<gone, visible, active, filterVars, isActivateEvent, inbox, draws>>

\* QWidget::show.
ShowWidget(w) ==
    /\ Idle
    /\ w \in Alive \ visible
    /\ IsWindow(w) \/ w \notin wanted
    /\ wanted' = wanted \cup {w}
    /\ IF IsWindow(w) \/ Parent(w) \in visible
         THEN /\ visible' = visible \cup {w} \cup ShownWith(w)
              /\ events' = EventsFor("Show", ShownWith(w))
                           \o <<Event("Show", w), Event("ShowToParent", w)>>
         ELSE /\ events' = <<Event("ShowToParent", w)>>
              /\ UNCHANGED visible
    /\ UNCHANGED <<born, gone, parents, active, filterVars, isActivateEvent, inbox, draws>>

Unshow(w) ==
    /\ visible' = visible \ ({w} \cup ShownWith(w))
    /\ active' = IF w = active THEN NoWidget ELSE active

\* QWidget::hide, for a widget on the screen or not.
HideWidget(w) ==
    /\ Idle
    /\ w \in Alive
    /\ wanted' = wanted \ {w}
    /\ Unshow(w)
    /\ events' = HideEvents(w)
    /\ UNCHANGED <<born, gone, parents, filterVars, isActivateEvent, inbox, draws>>

\* QWidget::close: the window may refuse.
CloseWindow(w, accepts) ==
    /\ w \in Alive /\ IsWindow(w)
    /\ IF accepts /\ w \in visible
         THEN /\ wanted' = wanted \ {w}
              /\ Unshow(w)
              /\ events' = <<Event("Close", w)>> \o HideEvents(w)
         ELSE /\ events' = <<Event("Close", w)>>
              /\ UNCHANGED <<wanted, visible, active>>
    /\ UNCHANGED <<born, gone, parents, filterVars, isActivateEvent, draws>>

CloseCall(w, accepts) ==
    /\ Idle
    /\ CloseWindow(w, accepts)
    /\ UNCHANGED inbox

\* QWidget::setParent hides the widget; unless it was hidden by a call of its
\* own it is shown with its new parent, when that is not on the screen yet.
SetParent(w, p) ==
    /\ Idle
    /\ w \in Alive /\ ~IsWindow(w)
    /\ p \in Alive \ {Parent(w)} /\ IsWindow(p)
    /\ parents' = [parents EXCEPT ![w] = Append(@, p)]
    /\ \/ wanted' = wanted \ {w}
       \/ p \notin visible /\ wanted' = wanted \cup {w}
    /\ visible' = visible \ {w}
    /\ events' = (IF w \in wanted THEN HideEvents(w) ELSE <<>>)
                 \o <<ChildEvent("ChildRemoved", Parent(w), w), ChildEvent("ChildAdded", p, w)>>
    /\ UNCHANGED <<born, gone, active, filterVars, isActivateEvent, inbox, draws>>

\* ~QWidget: a window on the screen is hidden first, a plain widget is not; the
\* plain children go too.
Destroy(w) ==
    LET dead == {w} \cup {c \in Alive : Parent(c) = w} IN
    /\ Idle
    /\ w \in Alive
    /\ \A c \in dead \ {w} : ~IsWindow(c)
    /\ gone' = gone \cup dead
    /\ wanted' = wanted \ dead
    /\ visible' = visible \ dead
    /\ active' = IF w = active THEN NoWidget ELSE active
    /\ events' = (IF IsWindow(w) /\ w \in visible THEN HideEvents(w) ELSE <<>>)
                 \o EventsFor("Destroy", dead \ {w}) \o <<Event("Destroy", w)>>
    /\ UNCHANGED <<born, parents, filterVars, isActivateEvent, inbox, draws>>

\* QApplication::setActiveWindow, by the application, Qt or the focus.
ActivateWindow(w) ==
    /\ Idle
    /\ w \in visible \ {active} /\ IsWindow(w)
    /\ active' = w
    /\ events' = ActivationEvents(w)
    /\ UNCHANGED <<born, gone, parents, wanted, visible, filterVars, isActivateEvent, inbox, draws>>

-----------------------------------------------------------------------------
(* EventFilter::eventFilter, a case each.                                  *)

Receiver == Head(events).w

\* The widget that the event ends the tracking of; WebRenderer::dequeue also
\* drops the events posted to it.
Dequeued ==
    IF events = <<>> THEN NoWidget
    ELSE IF Head(events).type = "ChildRemoved" THEN Head(events).child
    ELSE IF Head(events).type \in {"Destroy", "Close", "Hide", "HideToParent"} THEN Receiver
    ELSE NoWidget

Delivering(types) ==
    /\ events # <<>>
    /\ Head(events).type \in types
    /\ events' = Tail(events)
    /\ inbox' = Without(inbox, {m \in ToSet(inbox) : m.id = Dequeued})
    /\ UNCHANGED <<qtVars, isActivateEvent, draws>>

Issue(cmd) == wire' = Append(wire, cmd)
Command(c, w) == [c |-> c, id |-> w, child |-> NoWidget]

\* Mutant: the page is not told of a new widget.
FilterCreateMutant ==
    /\ Delivering({"Create"})
    /\ tracked' = tracked \cup {Receiver}
    /\ UNCHANGED wire

FilterCreate ==
    /\ Delivering({"Create"})
    /\ tracked' = tracked \cup {Receiver}
    /\ Issue(Command("create", Receiver))

FilterChildAdded ==
    /\ Delivering({"ChildAdded"})
    /\ tracked' = tracked \cup {Receiver, Head(events).child}
    /\ Issue([c |-> "addChild", id |-> Receiver, child |-> Head(events).child])

\* The cases that end tracking and tell the page nothing it acts on.
FilterGone ==
    /\ Delivering({"Destroy", "Close", "ChildRemoved"})
    /\ tracked' = tracked \ {Dequeued}
    /\ UNCHANGED wire

FilterHide ==
    /\ Delivering({"Hide", "HideToParent"})
    /\ tracked' = tracked \ {Dequeued}
    /\ Issue(Command("hide", Receiver))

FilterShow ==
    /\ Delivering({"Show"})
    /\ tracked' = tracked \cup {Receiver}
    /\ Issue(Command("show", Receiver))

FilterShowToParent ==
    /\ Delivering({"ShowToParent"})
    /\ tracked' = tracked \cup {Receiver}
    /\ UNCHANGED wire

\* Mutant: isActivateEvent() is not asked.
ReportedMutant(w) == w \in tracked /\ IsWindow(w)

\* The page is not told of an activation that it asked for.
Reported(w) == w \in tracked /\ IsWindow(w) /\ ~isActivateEvent

FilterActivation ==
    /\ Delivering({"WindowActivate", "WindowDeactivate"})
    /\ IF Reported(Receiver)
         THEN Issue(Command(IF Head(events).type = "WindowActivate"
                            THEN "activate" ELSE "deactivate", Receiver))
         ELSE UNCHANGED wire
    /\ UNCHANGED tracked

Filter ==
    \/ FilterCreate \/ FilterChildAdded \/ FilterGone \/ FilterHide
    \/ FilterShow \/ FilterShowToParent \/ FilterActivation

\* A pass of WebRenderer over a widget on the screen ends in a draw command.
RenderWidget(w) ==
    /\ w \in visible \cap tracked
    /\ draws' = draws \cup {w}
    /\ UNCHANGED <<qtVars, filterVars, events, isActivateEvent, inbox>>

-----------------------------------------------------------------------------
(* EventDispatcher::eventFilter, for the events of the browser's windows.  *)

DispatchActivate ==
    /\ Idle
    /\ inbox # <<>> /\ Head(inbox).c = "activate"
    /\ Head(inbox).id \in tracked
    /\ inbox' = Tail(inbox)
    /\ isActivateEvent' = TRUE
    /\ active' = Head(inbox).id
    /\ events' = ActivationEvents(Head(inbox).id)
    /\ UNCHANGED <<born, gone, parents, wanted, visible, filterVars, draws>>

\* setActiveWindow has returned.
EndActivate ==
    /\ isActivateEvent /\ events = <<>>
    /\ isActivateEvent' = FALSE
    /\ UNCHANGED <<qtVars, filterVars, events, inbox, draws>>

DispatchClose(accepts) ==
    /\ Idle
    /\ inbox # <<>> /\ Head(inbox).c = "close"
    /\ Head(inbox).id \in tracked
    /\ inbox' = Tail(inbox)
    /\ CloseWindow(Head(inbox).id, accepts)

\* The widget is no longer tracked: the event finds no one.
DispatchNothing ==
    /\ Idle
    /\ inbox # <<>> /\ Head(inbox).id \notin tracked
    /\ inbox' = Tail(inbox)
    /\ UNCHANGED <<qtVars, filterVars, events, isActivateEvent, draws>>

Dispatch ==
    \/ DispatchActivate \/ EndActivate
    \/ (\E accepts \in BOOLEAN : DispatchClose(accepts))
    \/ DispatchNothing
=============================================================================
