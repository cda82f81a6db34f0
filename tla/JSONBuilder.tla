---------------------------- MODULE JSONBuilder ----------------------------
(***************************************************************************)
(* The two output buffers of the injected library (src/src/lib/paint/      *)
(* JSONBuilder.cpp).  The GUI thread appends draw commands to              *)
(* render_buffer and layout commands to layout_buffer and emits            *)
(* readyRead; the websocket thread receives that signal through its event  *)
(* queue and flushes both buffers to the connected browser.                *)
(*                                                                         *)
(* _render_sem is held from beginRender to endRender, across the           *)
(* application's paintEvent; _layout_sem around each layout command.       *)
(***************************************************************************)
EXTENDS Naturals, Sequences

CONSTANTS
  MaxCommands,   \* bound: draw and layout commands the application issues
  MaxPrimitives  \* bound: primitives of one draw command

ASSUME JSONBuilderAssumption ==
  /\ MaxCommands \in Nat
  /\ MaxPrimitives \in Nat

(***************************************************************************)
(* A buffer is a sequence of fragments.  The text of a draw command is     *)
(* appended in parts: its head, its primitives, its end, which carries the *)
(* number of the command.  A layout command is one fragment.               *)
(***************************************************************************)
Fragment == [part : {"head", "primitive", "end", "layout"}, command : Nat]
Part(p) == [part |-> p, command |-> 0]

VARIABLES
  renderBuffer,  \* render_buffer
  layoutBuffer,  \* layout_buffer
  renderSem,     \* permits of _render_sem
  layoutSem,     \* permits of _layout_sem
  gui,           \* GUI thread: in the startup hook, running, in a layout command,
                 \* or about to emit readyRead
  drawing,       \* primitives of the open draw command, or NotDrawing: context is empty
  readsPosted,   \* readData() invocations in the websocket thread's event queue
  ws,            \* websocket thread: in its event loop, or where it is in flush()
  client,        \* WebsocketServer::client is a connected browser
  quitting,      \* a client has disconnected: WebsocketThread::quit() is in the
                 \* GUI thread's event queue, or done
  completed,     \* history: commands completed, in the order of their numbers
  sentRender,    \* history: fragments sent in messages made of render_buffer
  sentLayout,    \* history: fragments sent in messages made of layout_buffer
  drawLog,       \* history: every fragment appended to render_buffer
  layoutLog      \* history: every fragment appended to layout_buffer

guiVars == <<gui, drawing>>
wsVars == <<ws, client, quitting>>
sent == <<sentRender, sentLayout>>
log == <<completed, drawLog, layoutLog>>
vars == <<renderBuffer, layoutBuffer, renderSem, layoutSem, guiVars, readsPosted,
          wsVars, sent, log>>

NotDrawing == MaxPrimitives + 1

TypeOK ==
  /\ renderBuffer \in Seq(Fragment)
  /\ layoutBuffer \in Seq(Fragment)
  /\ renderSem \in {0, 1}
  /\ layoutSem \in {0, 1}
  /\ gui \in {"hook", "run", "layout", "emit"}
  /\ drawing \in 0 .. NotDrawing
  /\ readsPosted \in Nat
  /\ ws \in {"loop", "wantRender", "render", "wantLayout", "layout", "stopped"}
  /\ client \in BOOLEAN
  /\ quitting \in BOOLEAN
  /\ completed \in Nat
  /\ sentRender \in Seq(Fragment)
  /\ sentLayout \in Seq(Fragment)
  /\ drawLog \in Seq(Fragment)
  /\ layoutLog \in Seq(Fragment)

Init ==
  /\ renderBuffer = <<>>
  /\ layoutBuffer = <<>>
  /\ renderSem = 1
  /\ layoutSem = 1
  /\ gui = "hook"
  /\ drawing = NotDrawing
  /\ readsPosted = 0
  /\ ws = "loop"
  /\ client = FALSE
  /\ quitting = FALSE
  /\ completed = 0
  /\ sentRender = <<>>
  /\ sentLayout = <<>>
  /\ drawLog = <<>>
  /\ layoutLog = <<>>

-----------------------------------------------------------------------------
(* The GUI thread.                                                         *)

AppendRender(f) ==
  /\ renderBuffer' = Append(renderBuffer, f)
  /\ drawLog' = Append(drawLog, f)

\* Probe::qt_startup_hook returns once waitForConnected has seen a browser; the
\* application creates its widgets after that.
HookReturns ==
  /\ gui = "hook"
  /\ client
  /\ gui' = "run"
  /\ UNCHANGED <<renderBuffer, layoutBuffer, renderSem, layoutSem, drawing,
                 readsPosted, wsVars, sent, log>>

\* Mutant: beginRender does not take _render_sem.
BeginRenderMutant ==
  /\ gui = "run"
  /\ drawing = NotDrawing
  /\ completed < MaxCommands
  /\ AppendRender(Part("head"))
  /\ drawing' = 0
  /\ UNCHANGED <<layoutBuffer, renderSem, layoutSem, gui, readsPosted, wsVars, sent,
                 completed, layoutLog>>

BeginRender ==
  /\ gui = "run"
  /\ drawing = NotDrawing
  /\ completed < MaxCommands
  /\ renderSem > 0
  /\ renderSem' = renderSem - 1
  /\ AppendRender(Part("head"))
  /\ drawing' = 0
  /\ UNCHANGED <<layoutBuffer, layoutSem, gui, readsPosted, wsVars, sent,
                 completed, layoutLog>>

\* ellipse, rect, text, image...: called by PaintEngine inside paintEvent.
Primitive ==
  /\ gui = "run"
  /\ drawing < MaxPrimitives
  /\ AppendRender(Part("primitive"))
  /\ drawing' = drawing + 1
  /\ UNCHANGED <<layoutBuffer, renderSem, layoutSem, gui, readsPosted, wsVars, sent,
                 completed, layoutLog>>

\* endRender; WebRenderer::render calls finish() next.
EndRender ==
  /\ gui = "run"
  /\ drawing # NotDrawing
  /\ completed' = completed + 1
  /\ AppendRender([part |-> "end", command |-> completed'])
  /\ renderSem' = renderSem + 1
  /\ drawing' = NotDrawing
  /\ gui' = "emit"
  /\ UNCHANGED <<layoutBuffer, layoutSem, readsPosted, wsVars, sent, layoutLog>>

\* createWidget, addChild, resize, showWidget...: also from within a paintEvent.
BeginLayout ==
  /\ gui = "run"
  /\ completed < MaxCommands
  /\ layoutSem > 0
  /\ layoutSem' = layoutSem - 1
  /\ gui' = "layout"
  /\ UNCHANGED <<renderBuffer, layoutBuffer, renderSem, drawing, readsPosted, wsVars,
                 sent, log>>

EndLayout ==
  /\ gui = "layout"
  /\ completed' = completed + 1
  /\ LET f == [part |-> "layout", command |-> completed'] IN
     /\ layoutBuffer' = Append(layoutBuffer, f)
     /\ layoutLog' = Append(layoutLog, f)
  /\ layoutSem' = layoutSem + 1
  /\ gui' = "emit"
  /\ UNCHANGED <<renderBuffer, renderSem, drawing, readsPosted, wsVars, sent, drawLog>>

\* Mutant: readyRead is not emitted when an earlier one is still in the queue and the
\* websocket thread is at work.
EmitReadyReadMutant ==
  /\ gui = "emit"
  /\ gui' = "run"
  /\ readsPosted' = IF ws = "loop" THEN readsPosted + 1 ELSE readsPosted
  /\ UNCHANGED <<renderBuffer, layoutBuffer, renderSem, layoutSem, drawing, wsVars,
                 sent, log>>

\* finish(): the queued connection to WebsocketServer::readData.
EmitReadyRead ==
  /\ gui = "emit"
  /\ gui' = "run"
  /\ readsPosted' = readsPosted + 1
  /\ UNCHANGED <<renderBuffer, layoutBuffer, renderSem, layoutSem, drawing, wsVars,
                 sent, log>>

Gui ==
  \/ HookReturns
  \/ BeginRender \/ Primitive \/ EndRender
  \/ BeginLayout \/ EndLayout
  \/ EmitReadyRead

-----------------------------------------------------------------------------
(* The websocket thread.                                                   *)

\* onConnection: nextPendingConnection becomes the client, and connectionSemaphore,
\* which the startup hook polls, gets its permit.  One browser at a time; Session
\* has the second one.
OnConnection ==
  /\ ws = "loop"
  /\ ~ client
  /\ client' = TRUE
  /\ UNCHANGED <<renderBuffer, layoutBuffer, renderSem, layoutSem, guiVars,
                 readsPosted, ws, quitting, sent, log>>

\* onDisconnection: the client is forgotten and disconnected() posts quit() to the
\* WebsocketThread object, which lives in the GUI thread.
OnDisconnection ==
  /\ ws = "loop"
  /\ client
  /\ client' = FALSE
  /\ quitting' = TRUE
  /\ UNCHANGED <<renderBuffer, layoutBuffer, renderSem, layoutSem, guiVars,
                 readsPosted, ws, sent, log>>

\* The GUI thread's event loop delivers quit(): exec() of the websocket thread returns.
Quit ==
  /\ quitting
  /\ gui = "run"
  /\ ws = "loop"
  /\ ws' = "stopped"
  /\ UNCHANGED <<renderBuffer, layoutBuffer, renderSem, layoutSem, guiVars,
                 readsPosted, client, quitting, sent, log>>

\* readData() and the test of the device in flush(): without a client the buffers stay.
ReadData ==
  /\ ws = "loop"
  /\ readsPosted > 0
  /\ readsPosted' = readsPosted - 1
  /\ ws' = IF client THEN "wantRender" ELSE "loop"
  /\ UNCHANGED <<renderBuffer, layoutBuffer, renderSem, layoutSem, guiVars, client,
                 quitting, sent, log>>

LockRender ==
  /\ ws = "wantRender"
  /\ renderSem > 0
  /\ renderSem' = renderSem - 1
  /\ ws' = "render"
  /\ UNCHANGED <<renderBuffer, layoutBuffer, layoutSem, guiVars, readsPosted, client,
                 quitting, sent, log>>

\* Mutant: flush() does not wait for a layout command in progress, but leaves the
\* layout commands to the next flush.
SendRenderOnlyMutant ==
  /\ ws = "render"
  /\ sentRender' = sentRender \o renderBuffer
  /\ renderBuffer' = <<>>
  /\ renderSem' = renderSem + 1
  /\ ws' = IF layoutSem > 0 THEN "wantLayout" ELSE "loop"
  /\ UNCHANGED <<layoutBuffer, layoutSem, guiVars, readsPosted, client, quitting,
                 sentLayout, log>>

\* One message with all draw commands, if there are any.
SendRender ==
  /\ ws = "render"
  /\ sentRender' = sentRender \o renderBuffer
  /\ renderBuffer' = <<>>
  /\ renderSem' = renderSem + 1
  /\ ws' = "wantLayout"
  /\ UNCHANGED <<layoutBuffer, layoutSem, guiVars, readsPosted, client, quitting,
                 sentLayout, log>>

LockLayout ==
  /\ ws = "wantLayout"
  /\ layoutSem > 0
  /\ layoutSem' = layoutSem - 1
  /\ ws' = "layout"
  /\ UNCHANGED <<renderBuffer, layoutBuffer, renderSem, guiVars, readsPosted, client,
                 quitting, sent, log>>

\* Mutant: _layout_sem is released twice.
SendLayoutTwiceMutant ==
  /\ ws = "layout"
  /\ sentLayout' = sentLayout \o layoutBuffer
  /\ layoutBuffer' = <<>>
  /\ layoutSem' = layoutSem + 2
  /\ ws' = "loop"
  /\ UNCHANGED <<renderBuffer, renderSem, guiVars, readsPosted, client, quitting,
                 sentRender, log>>

\* One message with all layout commands, if there are any.
SendLayout ==
  /\ ws = "layout"
  /\ sentLayout' = sentLayout \o layoutBuffer
  /\ layoutBuffer' = <<>>
  /\ layoutSem' = layoutSem + 1
  /\ ws' = "loop"
  /\ UNCHANGED <<renderBuffer, renderSem, guiVars, readsPosted, client, quitting,
                 sentRender, log>>

Flush == LockRender \/ SendRender \/ LockLayout \/ SendLayout

Next == Gui \/ OnConnection \/ OnDisconnection \/ Quit \/ ReadData \/ Flush

Spec == Init /\ [][Next]_vars

\* A started draw or layout command ends, for paintEvents return; the websocket
\* thread's event loop delivers readData(), and flush() gets a semaphore that is free.
\* QSemaphore queues no waiter, so the last holds because the application pauses:
\* here, because it issues MaxCommands commands.
Fairness ==
  /\ WF_vars(HookReturns)
  /\ WF_vars(EndRender)
  /\ WF_vars(EndLayout)
  /\ WF_vars(EmitReadyRead)
  /\ WF_vars(ReadData)
  /\ WF_vars(Flush)

-----------------------------------------------------------------------------
(* Correctness.                                                            *)

\* Each buffer is in one thread's hands at a time: the permit of its semaphore is
\* free, or with the open command, or with flush().  The primitives append without
\* taking _render_sem: they rely on beginRender having it.
ExclusiveBuffers ==
  /\ (IF drawing = NotDrawing THEN 0 ELSE 1) + (IF ws = "render" THEN 1 ELSE 0)
       = 1 - renderSem
  /\ (IF gui = "layout" THEN 1 ELSE 0) + (IF ws = "layout" THEN 1 ELSE 0)
       = 1 - layoutSem

\* Every message made of draw commands holds whole commands: the browser parses each
\* one as JSON by itself.
WholeDraws == sentRender # <<>> => sentRender[Len(sentRender)].part = "end"

\* No fragment is lost, sent twice or reordered within its buffer.
NothingLost ==
  /\ drawLog = sentRender \o renderBuffer
  /\ layoutLog = sentLayout \o layoutBuffer

\* The numbers of the commands whose last fragment is in s.
Commands(s) == {s[i].command : i \in DOMAIN s} \ {0}

\* The buffers, the locks and the fragments implement the two channels of
\* DisplayStream.
Stream == INSTANCE DisplayStream WITH
  issued <- completed,
  draws <- Commands(renderBuffer),
  layouts <- Commands(layoutBuffer),
  drawn <- Commands(sentRender),
  laid <- Commands(sentLayout),
  flushing <- ws \in {"wantLayout", "layout"}

ImplementsDisplayStream == Stream!Spec

\* Between two flushes the browser has no draw command that is younger than a layout
\* command it lacks: a draw overtakes its widget's create or resize by one message.
BoundedOvertaking == Stream!BoundedOvertaking

Sent(n) == n \in Commands(sentRender) \cup Commands(sentLayout)

\* A completed command reaches the browser, unless the browser has gone: readyRead of a
\* command that is completed during a flush is not absorbed by that flush.
EventuallyDelivered ==
  \A n \in 1 .. MaxCommands : completed >= n ~> Sent(n) \/ quitting

=============================================================================
