------------------------------ MODULE ClientTree ------------------------------
(***************************************************************************)
(* The browser's half of the display: what QtLogic in canvas.html does to  *)
(* the document for each layout command, for a draw command, and for the   *)
(* user's clicks on a window's frame.                                      *)
(*                                                                         *)
(* A widget of the page has a container, which stands in the pool          *)
(* ("#widgets"), in the box of another widget, or in a window frame of its *)
(* own in "#dialogs".  Frames stand one beside the other, and a curtain    *)
(* stands directly before the frame it was made for, so the curtains are   *)
(* counted by frame.  A frame that was replaced stays, empty, displayed if *)
(* it was.                                                                 *)
(***************************************************************************)
EXTENDS WidgetKinds, Naturals, Sequences

\* The two places of a container that are no widget.
ASSUME PlacesAssumption == {"pool", "frame"} \cap Widgets = {}

VARIABLES
    known,        \* keys of this.widgets
    kids,         \* widget.children: those added to the widget, ever
    type,         \* widget.type
    box,          \* where the container is: "pool", "frame" or a widget
    framed,       \* widgets whose canvas has the class DialogCanvas
    off,          \* canvases hidden
    hidden,       \* frames with the class Hidden
    shown,        \* frames displayed
    ghosts,       \* widgets with a replaced frame that is still displayed
    curtains,     \* curtains before each frame
    strays,       \* replaced frames with curtains before them
    root,         \* this.main
    activeFrame,  \* the frame with the class Active
    up            \* events on their way to the server

frameVars == <<framed, hidden, shown, ghosts, curtains, strays, activeFrame>>
pageVars == <<known, kids, type, box, off, root, frameVars, up>>

InitPage ==
    /\ known = {} /\ off = {} /\ framed = {} /\ hidden = {} /\ shown = {} /\ ghosts = {}
    /\ kids = [w \in Widgets |-> {}]
    /\ type = [w \in Widgets |-> "none"]
    /\ box = [w \in Widgets |-> "pool"]
    /\ curtains = [w \in Widgets |-> 0]
    /\ strays = 0
    /\ root = NoWidget /\ activeFrame = NoWidget
    /\ up = <<>>

\* canvas.parents('.Dialog'): the widget in whose frame w stands, if any.
FrameAround(w) ==
    LET outer[n \in 0..Cardinality(Widgets)] ==
          IF n = 0 THEN w
          ELSE IF box[outer[n - 1]] \in Widgets THEN box[outer[n - 1]] ELSE outer[n - 1]
        top == outer[Cardinality(Widgets)]
    IN IF box[top] = "frame" THEN top ELSE NoWidget

\* createDialog for each of ws: a new frame, not displayed, gets the canvas.  Nothing
\* hides the frame that had it.
CreateDialogs(ws) ==
    /\ framed' = framed \cup ws
    /\ hidden' = hidden \ ws
    /\ shown' = shown \ ws
    /\ ghosts' = ghosts \cup (ws \cap shown)
    /\ curtains' = [w \in Widgets |-> IF w \in ws THEN 0 ELSE curtains[w]]
    /\ strays' = strays + Cardinality({w \in ws : curtains[w] > 0})
    /\ activeFrame' = IF activeFrame \in ws THEN NoWidget ELSE activeFrame

\* Mutant: ... that is new to the page.
NewToMutant(p, c) == c \notin known

\* addWidgetChild moves the container of a child that is new to this parent.
NewTo(p, c) == c \notin kids[p]

\* addWidgetChild: the first parent of all becomes the main window.
AddChild(p, c) ==
    LET main == IF root = NoWidget THEN {p} ELSE {}
        new == NewTo(p, c)
        typed == new /\ type[c] = "none"
        dialogs == main \cup (IF typed /\ IsDialog(c) THEN {c} ELSE {})
    IN
    /\ known' = known \cup {p, c}
    /\ root' = IF root = NoWidget THEN p ELSE root
    /\ kids' = [kids EXCEPT ![p] = @ \cup {c}]
    /\ type' = [type EXCEPT ![c] = IF typed /\ IsDialog(c) THEN "Dialog"
                                   ELSE IF typed /\ IsPopup(c) THEN "Popup" ELSE @]
    /\ box' = [w \in Widgets |-> IF w \in dialogs THEN "frame"
                                 ELSE IF w = c /\ new THEN p ELSE box[w]]
    /\ CreateDialogs(dialogs)
    /\ UNCHANGED <<off, up>>

\* createCommand: a dialog gets a frame whether it has one or not.
Create(w) ==
    LET dialogs == IF IsDialog(w) THEN {w} ELSE {} IN
    /\ known' = known \cup {w}
    /\ type' = [type EXCEPT ![w] = IF IsDialog(w) THEN "Dialog"
                                   ELSE IF IsPopup(w) THEN "Popup" ELSE @]
    /\ box' = [v \in Widgets |-> IF v \in dialogs THEN "frame" ELSE box[v]]
    /\ CreateDialogs(dialogs)
    /\ UNCHANGED <<kids, off, root, up>>

\* showElement and hideElement take a widget the page knows for granted.
Show(w) ==
    LET f == FrameAround(w) IN
    /\ w \in known
    /\ off' = off \ {w}
    /\ IF w \in framed /\ f # NoWidget
         THEN /\ hidden' = hidden \ {f}
              /\ shown' = shown \cup {f}
              /\ curtains' = [curtains EXCEPT ![f] = IF w \in Modal THEN @ + 1 ELSE @]
         ELSE UNCHANGED <<hidden, shown, curtains>>
    /\ UNCHANGED <<known, kids, type, box, framed, ghosts, strays, root, activeFrame, up>>

\* Mutant: the curtain stays.
HideMutant(w) ==
    LET f == FrameAround(w) IN
    /\ w \in known
    /\ off' = off \cup {w}
    /\ IF w \in framed /\ f # NoWidget
         THEN hidden' = hidden \cup {f} /\ shown' = shown \ {f}
         ELSE UNCHANGED <<hidden, shown>>
    /\ UNCHANGED <<known, kids, type, box, framed, ghosts, curtains, strays, root, activeFrame, up>>

Hide(w) ==
    LET f == FrameAround(w) IN
    /\ w \in known
    /\ off' = off \cup {w}
    /\ IF w \in framed /\ f # NoWidget
         THEN /\ hidden' = hidden \cup {f}
              /\ shown' = shown \ {f}
              /\ curtains' = [curtains EXCEPT ![f] = IF @ > 0 THEN @ - 1 ELSE @]
         ELSE UNCHANGED <<hidden, shown, curtains>>
    /\ UNCHANGED <<known, kids, type, box, framed, ghosts, strays, root, activeFrame, up>>

\* Mutant: a widget without a frame is activated too.
ActivationMutant(w) == activeFrame # w

\* activateDialog, for a click on the frame of w or a command.
Activation(w) == w \in framed /\ activeFrame # w
SendEvents(msgs) == up' = up \o msgs
Message(c, w) == [c |-> c, id |-> w]

\* The case "activate" of singleInput runs on into the case "deactivate".
Activate(w) ==
    /\ known' = known \cup {w}
    /\ SendEvents(IF Activation(w) THEN <<Message("activate", w)>> ELSE <<>>)
    /\ activeFrame' = NoWidget
    /\ UNCHANGED <<kids, type, box, framed, off, hidden, shown, ghosts, curtains, strays, root>>

Deactivate(w) ==
    /\ activeFrame' = NoWidget
    /\ UNCHANGED <<known, kids, type, box, framed, off, hidden, shown, ghosts, curtains, strays, root, up>>

\* singleInput.
Execute(cmd) ==
    \/ cmd.c = "create" /\ Create(cmd.id)
    \/ cmd.c = "addChild" /\ AddChild(cmd.id, cmd.child)
    \/ cmd.c = "show" /\ Show(cmd.id)
    \/ cmd.c = "hide" /\ Hide(cmd.id)
    \/ cmd.c = "activate" /\ Activate(cmd.id)
    \/ cmd.c = "deactivate" /\ Deactivate(cmd.id)

\* Mutant: the class Hidden is not looked at.
DrawMutant(w) ==
    LET f == FrameAround(w) IN
    /\ known' = known \cup {w}
    /\ shown' = IF w \in framed /\ f # NoWidget THEN shown \cup {f} ELSE shown
    /\ UNCHANGED <<kids, type, box, off, framed, hidden, ghosts, curtains, strays, root, activeFrame, up>>

\* drawCommand and updateWidget: the frame around the widget is displayed
\* unless it is hidden.
Draw(w) ==
    LET f == FrameAround(w) IN
    /\ known' = known \cup {w}
    /\ shown' = IF w \in framed /\ f \notin hidden \cup {NoWidget}
                  THEN shown \cup {f} ELSE shown
    /\ UNCHANGED <<kids, type, box, off, framed, hidden, ghosts, curtains, strays, root, activeFrame, up>>

\* The user clicks on a displayed frame, of which a replaced one still acts for its
\* widget ...
Click(w) ==
    /\ w \in shown \cup ghosts
    /\ SendEvents(IF Activation(w) THEN <<Message("activate", w)>> ELSE <<>>)
    /\ activeFrame' = w
    /\ UNCHANGED <<known, kids, type, box, framed, off, hidden, shown, ghosts, curtains, strays, root>>

\* ... or on its close button, where the click goes on to the frame and from
\* there to "#dialogs", whose handler finds no canvas in a replaced frame.
ClickClose(w) ==
    /\ w \in shown
    /\ SendEvents(<<Message("activate", w), Message("close", w)>>)
    /\ activeFrame' = w
    /\ UNCHANGED <<known, kids, type, box, framed, off, hidden, shown, ghosts, curtains, strays, root>>
=============================================================================
