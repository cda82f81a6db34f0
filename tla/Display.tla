-------------------------------- MODULE Display --------------------------------
(***************************************************************************)
(* The application's windows and the page that shows them: EventFilter and *)
(* ClientTree, joined by the stream of layout commands, the draw commands, *)
(* and the events of the browser that the websocket thread receives        *)
(* (EventConverter::parse).  The browser is connected from the start, as   *)
(* the startup hook sees to.                                               *)
(***************************************************************************)
EXTENDS EventFilter, ClientTree, Functions

CONSTANTS MaxCalls,  \* bound: calls of the application after construction
          MaxClicks, \* bound: clicks of the user
          MaxBehind, \* bound: layout commands under way when a call is made
          Drawn      \* bound: widgets that are drawn

ASSUME BoundsAssumption == MaxCalls \in Nat /\ MaxClicks \in Nat /\ MaxBehind \in Nat

VARIABLES
    posting,   \* an event between its lookup and its post in EventConverter::parse
    overtaken, \* history: widgets drawn before a command that frames them was executed
    calls, clicks

counts == <<calls, clicks>>
boundary == <<posting, overtaken, counts>>
vars == <<appVars, pageVars, boundary>>

Init == InitApp /\ InitPage /\ posting = <<>> /\ overtaken = {} /\ calls = 0 /\ clicks = 0

-----------------------------------------------------------------------------
\* The application: its calls of Qt.
Build == \E w \in Widgets, p \in Widgets \cup {NoWidget} : Construct(w, p)

Call ==
    \/ \E w \in Widgets : ShowWidget(w) \/ HideWidget(w) \/ Destroy(w) \/ ActivateWindow(w)
    \/ \E w \in Widgets, accepts \in BOOLEAN : CloseCall(w, accepts)
    \/ \E w, p \in Widgets : SetParent(w, p)

Application ==
    /\ Len(wire) <= MaxBehind
    /\ \/ Build /\ UNCHANGED calls
       \/ Call /\ calls < MaxCalls /\ calls' = calls + 1
    /\ UNCHANGED <<pageVars, posting, overtaken, clicks>>

\* The GUI thread inside a call, and its event loop.  Of the draw commands only
\* those of windows with a frame do more to the page than paint pixels; one is under
\* way at a time (a bound).
Deliver == Filter /\ UNCHANGED <<pageVars, boundary>>
Render ==
    \E w \in Widgets :
      draws = {} /\ w \in Drawn /\ RenderWidget(w) /\ UNCHANGED <<pageVars, boundary>>
Serve == Dispatch /\ UNCHANGED <<pageVars, boundary>>

\* EventConverter::parse in the websocket thread: the widget is looked up ...
Parse ==
    /\ posting = <<>> /\ up # <<>>
    /\ up' = Tail(up)
    /\ posting' = IF Head(up).id \in tracked THEN <<Head(up)>> ELSE <<>>
    /\ UNCHANGED <<appVars, known, kids, type, box, off, root, frameVars, overtaken, counts>>

\* ... and the event is posted to the GUI thread.  A post to a widget destroyed in
\* between has no defined outcome; here the event is lost.
Post ==
    /\ posting # <<>>
    /\ posting' = <<>>
    /\ inbox' = IF Head(posting).id \in Alive THEN inbox \o posting ELSE inbox
    /\ UNCHANGED <<qtVars, filterVars, events, isActivateEvent, draws, pageVars, overtaken, counts>>

\* The page takes the next layout command ...
PageExecute ==
    /\ wire # <<>>
    /\ Execute(Head(wire))
    /\ wire' = Tail(wire)
    /\ UNCHANGED <<qtVars, tracked, events, isActivateEvent, inbox, draws, boundary>>

\* A command that frames the dialog w, by addChild or create, is on its way to the page.
FramePending(w) ==
    /\ IsDialog(w)
    /\ \E i \in DOMAIN wire : \/ wire[i].c = "create" /\ wire[i].id = w
                              \/ wire[i].c = "addChild" /\ wire[i].child = w

\* ... or a draw command, whichever comes first.
PageDraw(w) ==
    /\ w \in draws
    /\ draws' = draws \ {w}
    /\ Draw(w)
    /\ overtaken' = IF FramePending(w) THEN overtaken \cup {w} ELSE overtaken
    /\ UNCHANGED <<qtVars, filterVars, events, isActivateEvent, inbox, posting, counts>>

User ==
    /\ clicks < MaxClicks /\ clicks' = clicks + 1
    /\ \E w \in Widgets : Click(w) \/ ClickClose(w)
    /\ UNCHANGED <<appVars, posting, overtaken, calls>>

Next ==
    \/ Application \/ Deliver \/ Render \/ Serve
    \/ Parse \/ Post \/ PageExecute \/ (\E w \in Widgets : PageDraw(w)) \/ User

Spec == Init /\ [][Next]_vars

\* The event loops of the two threads and of the page go on working while there
\* is something to do; the application and the user owe nothing.
Work == Deliver \/ Serve \/ Parse \/ Post \/ PageExecute

FairSpec == Spec /\ WF_vars(Work)

-----------------------------------------------------------------------------
CommandNames == {"create", "addChild", "show", "hide", "activate", "deactivate"}

TypeOK ==
    /\ gone \subseteq born /\ born \subseteq Widgets
    /\ parents \in [Widgets -> Seq(Widgets)]
    /\ visible \subseteq wanted /\ wanted \subseteq Alive
    /\ active \in Alive \cup {NoWidget}
    /\ tracked \subseteq Widgets /\ draws \subseteq Widgets
    /\ isActivateEvent \in BOOLEAN
    /\ \A i \in 1..Len(events) : events[i].w \in Widgets
    /\ \A i \in 1..Len(wire) : wire[i].c \in CommandNames /\ wire[i].id \in Widgets
    /\ \A i \in 1..Len(inbox) : inbox[i].id \in born
    /\ events = <<>> => \A i \in 1..Len(inbox) : inbox[i].id \in Alive
    /\ \A i \in 1..Len(up) : up[i].id \in framed
    /\ posting = <<>> \/ (Len(posting) = 1 /\ posting[1].id \in framed)
    /\ root \in known \cup {NoWidget}
    /\ shown \cup ghosts \subseteq framed /\ overtaken \subseteq Widgets
    /\ framed \subseteq known /\ off \subseteq known
    /\ curtains \in [Widgets -> Nat] /\ strays \in Nat

\* Every layout command has been executed, and no call of Qt is under way.
Settled == events = <<>> /\ wire = <<>>

\* Dialogs as applications make them, with a parent.
Dialogs == {d \in born : IsDialog(d) /\ parents[d] # <<>>}

\* Once the layout commands have been executed, the frame of a dialog is on the
\* page exactly if the application shows the dialog, however late the draw
\* commands come (showElement, hideElement, the class Hidden in updateWidget),
\* although a dialog's frame is made twice and each hide() is reported twice; the
\* first of the two frames is not on the page beside the second, unless a draw of the
\* dialog overtook the command that makes the second (createDialog then leaves the first
\* where it is, for good); and the canvas of a widget that the application shows is not
\* hidden.
ShowingMatches ==
    Settled => /\ \A d \in Dialogs : d \in shown <=> d \in visible
               /\ Dialogs \cap ghosts \subseteq overtaken
               /\ visible \cap off = {}

\* A modal dialog that is shown has one curtain before it and any other dialog
\* none, also after several rounds of show and hide.
CurtainsMatch ==
    Settled => \A d \in Dialogs :
                 curtains[d] = IF d \in Modal \cap visible THEN 1 ELSE 0

\* showElement and hideElement read this.widgets[id] with no check: the page has
\* always heard of the widget before, from its create or an addChild.
ShownIsKnown ==
    wire # <<>> /\ Head(wire).c \in {"show", "hide"} => Head(wire).id \in known

InPlace(w) == box[w] = Parent(w)
Plain == {w \in Alive : ~IsWindow(w)}

\* Once the layout commands have been executed, the container of a plain widget
\* stands in its parent's, unless the widget has come back to a parent it had.
FirstMovesFollowed ==
    Settled => \A w \in Plain : IsInjective(parents[w]) => InPlace(w)

\* The same of every plain widget.
MovesFollowed == Settled => \A w \in Plain : InPlace(w)

\* Activations do not echo for ever: the page answers each activation of the
\* application with one of its own, which the filter does not report again.
NothingInTransit ==
    events = <<>> /\ wire = <<>> /\ up = <<>> /\ posting = <<>> /\ inbox = <<>>
EchoesEnd == <>[]NothingInTransit
=============================================================================
