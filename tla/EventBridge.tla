---------------------------- MODULE EventBridge ----------------------------
(***************************************************************************)
(* Mouse and key events on their way from the browser to a widget: the     *)
(* websocket thread looks the widget up and posts an event                 *)
(* (src/src/lib/events/EventConverter.cpp), the GUI thread serves it later *)
(* (EventDispatcher.cpp) and, before a mouse move, tells the widgets that  *)
(* the mouse has left or entered.  In between the application hides and    *)
(* shows widgets, also from the handlers of these events.                  *)
(*                                                                         *)
(* What the browser sends is any event for any widget, since it does not   *)
(* know which are tracked.  Positions, modifiers, the hover events that go *)
(* with Enter and Leave, and the widgets that are disabled or take no      *)
(* moves are left out; children are plain widgets, no widget is destroyed  *)
(* or changes its parent, and no handler runs an event loop of its own.    *)
(***************************************************************************)
EXTENDS Queues, SequencesExt

CONSTANTS
  Widgets,
  NoWidget,
  Parent,    \* parentWidget() of each
  MaxInbox   \* bound: events posted and not served

ASSUME EventBridgeAssumption ==
  /\ NoWidget \notin Widgets
  /\ Parent \in [Widgets -> Widgets \cup {NoWidget}]
  /\ \A S \in SUBSET Widgets : S # {} => \E w \in S : Parent[w] \notin S
  /\ MaxInbox \in Nat \ {0}

\* Press, release, double click, wheel and resize take the same way: "button".  A key names
\* no widget: the websocket thread asks QApplication::focusWidget(), which the application
\* changes as it likes.
Types == {"move", "button", "key"}
Events == [type : Types, w : Widgets, stale : BOOLEAN]
NoEvent == [type |-> "none", w |-> NoWidget, stale |-> FALSE]

VARIABLES
  posting,  \* EventConverter::parse is between the lookup and postEvent with this event
  inbox,    \* posted events of the GUI thread
  tracked,  \* WidgetsCollection
  grabber,  \* currentMouseGrabber
  target,   \* processEnterEvents is running for this widget
  sends,    \* Leave and Enter events that it has still to send
  entered,  \* widgets whose last event of the two was Enter
  lost      \* history: the mouse went on from a widget that was no longer tracked

mouse == <<grabber, target, sends, entered, lost>>
vars == <<posting, inbox, tracked, mouse>>

Crossings == [type : {"Leave", "Enter"}, w : Widgets]

TypeOK ==
  /\ posting \in Events \cup {NoEvent}
  /\ inbox \in Seq(Events) /\ Len(inbox) <= MaxInbox
  /\ tracked \subseteq Widgets
  /\ \A w \in tracked : Parent[w] # NoWidget => Parent[w] \in tracked
  /\ grabber \in Widgets \cup {NoWidget}
  /\ target \in Widgets \cup {NoWidget}
  /\ sends \in Seq(Crossings)
  /\ entered \subseteq Widgets
  /\ lost \in BOOLEAN

Init ==
  /\ posting = NoEvent
  /\ inbox = <<>>
  /\ tracked = Widgets
  /\ grabber = NoWidget
  /\ target = NoWidget
  /\ sends = <<>>
  /\ entered = {}
  /\ lost = FALSE

\* A widget and its parents, itself first, up to the one before stop.
Outward(stop) ==
  LET way[w \in Widgets] ==
        <<w>> \o (IF Parent[w] \in {NoWidget, stop} THEN <<>> ELSE way[Parent[w]])
  IN way

\* All of them.
Chain(w) == IF w = NoWidget THEN {} ELSE ToSet(Outward(NoWidget)[w])

-----------------------------------------------------------------------------
(* The websocket thread.                                                   *)

Lookup(type, w) ==
  /\ posting = NoEvent
  /\ type # "key" => w \in tracked
  /\ posting' = [type |-> type, w |-> w, stale |-> FALSE]
  /\ UNCHANGED <<inbox, tracked, mouse>>

Post ==
  /\ posting # NoEvent
  /\ Len(inbox) < MaxInbox
  /\ inbox' = Append(inbox, posting)
  /\ posting' = NoEvent
  /\ UNCHANGED <<tracked, mouse>>

-----------------------------------------------------------------------------
(* The application, in its event loop or in a handler.                     *)

Subtree(w) == {c \in Widgets : w \in Chain(c)}

\* Mutant: the posted events are left alone.
DequeueNothing(ws, queue) == queue

\* removePostedEvents of each widget that is hidden.
Dequeue(ws, queue) == Without(queue, {e \in ToSet(queue) : e.w \in ws})

\* What outlives the hiding of its widget is stale.
Aged(ws, queue) == [i \in DOMAIN queue |-> [queue[i] EXCEPT !.stale = @ \/ queue[i].w \in ws]]

\* Mutant: the filter looks at the Hide of the widget alone.
HideWidgetAlone(w) ==
  /\ w \in tracked
  /\ tracked' = tracked \ {w}
  /\ inbox' = Aged({w}, Dequeue({w}, inbox))
  /\ posting' = [posting EXCEPT !.stale = @ \/ posting.w = w]
  /\ UNCHANGED mouse

\* Hiding a widget hides the children that are shown.
HideWidget(w) ==
  LET hidden == Subtree(w) \cap tracked IN
  /\ w \in tracked
  /\ tracked' = tracked \ hidden
  /\ inbox' = Aged(hidden, Dequeue(hidden, inbox))
  /\ posting' = [posting EXCEPT !.stale = @ \/ posting.w \in hidden]
  /\ UNCHANGED mouse

ShowWidget(w) ==
  /\ w \notin tracked
  /\ Parent[w] # NoWidget => Parent[w] \in tracked
  /\ tracked' = tracked \cup {w}
  /\ UNCHANGED <<posting, inbox, mouse>>

-----------------------------------------------------------------------------
(* EventDispatcher, in the GUI thread.                                     *)

InLoop == target = NoWidget

\* A mouse event is served if its widget is tracked, a key in any case: it is an event of Qt.
Serve ==
  /\ InLoop
  /\ inbox # <<>>
  /\ Head(inbox).type = "move" => Head(inbox).w \notin tracked \/ Head(inbox).w = grabber
  /\ inbox' = Tail(inbox)
  /\ UNCHANGED <<posting, tracked, mouse>>

\* processEnterEvents: from w outward, up to the widget the mouse comes from.
EnterStack(w) == Outward(grabber)[w]

\* Nothing is left on the way inward, nor from a widget that is not tracked.
LeaveStack(w) ==
  IF grabber \in tracked /\ grabber \notin Chain(w) THEN Outward(NoWidget)[grabber] ELSE <<>>

Apart(s, t) == Without(s, ToSet(t))
Sends(type, s) == [i \in DOMAIN s |-> [type |-> type, w |-> s[i]]]

\* Mutant: the common ends of the stacks are not popped.
CrossingsToAll(w) == Sends("Leave", LeaveStack(w)) \o Sends("Enter", Reverse(EnterStack(w)))

\* The ends that the stacks have in common are popped; Leave goes outward, Enter inward.
CrossingsTo(w) ==
  Sends("Leave", Apart(LeaveStack(w), EnterStack(w)))
    \o Sends("Enter", Reverse(Apart(EnterStack(w), LeaveStack(w))))

ProcessEnterEvents ==
  /\ InLoop
  /\ inbox # <<>>
  /\ Head(inbox).type = "move"
  /\ Head(inbox).w \in tracked \ {grabber}
  /\ inbox' = Tail(inbox)
  /\ target' = Head(inbox).w
  /\ sends' = CrossingsTo(Head(inbox).w)
  /\ lost' = (lost \/ grabber \notin tracked \cup {NoWidget})
  /\ UNCHANGED <<posting, tracked, grabber, entered>>

SendCrossing ==
  /\ sends # <<>>
  /\ sends' = Tail(sends)
  /\ entered' = IF Head(sends).type = "Enter" THEN entered \cup {Head(sends).w}
                ELSE entered \ {Head(sends).w}
  /\ UNCHANGED <<posting, inbox, tracked, grabber, target, lost>>

EndEnterEvents ==
  /\ target # NoWidget
  /\ sends = <<>>
  /\ grabber' = target
  /\ target' = NoWidget
  /\ UNCHANGED <<posting, inbox, tracked, sends, entered, lost>>

-----------------------------------------------------------------------------
Next ==
  \/ \E type \in Types, w \in Widgets : Lookup(type, w)
  \/ Post
  \/ \E w \in Widgets : HideWidget(w) \/ ShowWidget(w)
  \/ Serve
  \/ ProcessEnterEvents
  \/ SendCrossing
  \/ EndEnterEvents

Spec == Init /\ [][Next]_vars

-----------------------------------------------------------------------------
(* What must hold.                                                         *)

Pending(type) == {sends[i].w : i \in {j \in DOMAIN sends : sends[j].type = type}}

\* A widget is told that the mouse left only if it was told that it came.  As long as the mouse
\* never went on from a widget that was hidden under it, no widget is told twice, a widget is
\* told only while its parents know, and in the end those that know are the widget under the
\* mouse and its parents (processEnterEvents and the handlers it calls).
CrossingsMatch ==
  /\ Pending("Leave") \subseteq entered
  /\ ~lost =>
       /\ Pending("Enter") \cap entered = {}
       /\ \A w \in entered : Parent[w] # NoWidget => Parent[w] \in entered
       /\ (entered \ Pending("Leave")) \cup Pending("Enter")
            = Chain(IF target = NoWidget THEN grabber ELSE target)

\* Of the events posted to a widget, at most one was looked up before the widget was last hidden:
\* the one that the websocket thread had in hand (parse posts after the lookup;
\* WebRenderer::dequeue removes the posted events).
OneStaleEvent ==
  \A w \in Widgets :
    \A i, j \in DOMAIN inbox :
      inbox[i].w = w /\ inbox[i].stale /\ inbox[j].w = w /\ inbox[j].stale => i = j

=============================================================================
