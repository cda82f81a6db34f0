# A verification project for kdeappstream

kdeappstream shows unmodified KDE/Qt applications in a web browser. A launcher
(`kappstream-server`) answers HTTP requests; for each request it starts an
application with a library preloaded. The library hooks the application's event
loop, paints every widget a second time into a JSON protocol, sends that over a
websocket, serves pictures over a small HTTP server of its own, and turns the
browser's mouse and key events back into Qt events. The browser
(`canvas.html`) keeps a canvas for each widget.

The modules here model the parts of this whose correctness depends on order,
interleaving and failure; TLC checks them on small instances and TLAPS proves
the main invariants for every instance. Paths below are relative to the
repository, with `lib/` for `src/src/lib/` and `server/` for `src/src/server/`.

## 1. Inventory

### Processes and threads

| process | threads | talks to |
|---|---|---|
| `kappstream-server` | main event loop (HttpServer); one ApplicationWrapperThread for each application, which only waits for its process | browsers by HTTP on 8080; applications by the local socket `kappstream_init` |
| an application with the library | GUI thread (hooks, event filter, rendering); WebsocketThread (websocket server, image server, event parsing) | launcher, browser |
| `kappstream-server accept x`, ... | one | the access list file |
| browser | one event loop | launcher, application |

Between the two threads of the library: queued signals (`readyRead` to
`readData`, `quit`), posted Qt events, and state under semaphores
(`_render_sem`, `_layout_sem`, `m_sem`, `connectionSemaphore`).

### Components

| component | state | operations | what makes it correct |
|---|---|---|---|
| render queue: `lib/paint/WebRenderer.*`, `lib/hooking/WidgetsCollection.*` | tracked widgets; queue of (widget, dirty rectangle); `renderSemaphore`; timer; `currentRenderingWidget` | `queue` (on Paint), `dequeue`, `render` (on timeout), `add`, `remove` | a queued widget has a pass coming, passes do not nest, no damage is forgotten |
| event filter: `lib/events/EventFilter.cpp` | none of its own | one case for each of 40 event types: tracking, painting, layout commands, some events eaten | the tree of the browser follows the tree of the application |
| output buffers: `lib/paint/JSONBuilder.cpp` | `render_buffer`, `layout_buffer`, a semaphore each, `context`, `cur_state` with its dirty flags | `beginRender`, `state`, primitives, `endRender`, layout commands, `finish`, `flush` | whole commands, none lost or doubled, bounded overtaking of one buffer by the other |
| image store: `lib/paint/ImagesHostServer.cpp` | `m_cached`, `m_data` | `hostImage` (twice), `/add`, `/rm` | a key that was given out is served |
| browser image loader: `server/canvas.html` | `QtLogic.images`, one delayer for each waiting message | `onmessage`, `loadImages`, `onload`, `onerror`, drawing | every message is executed, with its pictures |
| canvas drawing: `server/canvas.html` | for each widget the fields of `CanvasDrawer` and its 2d context, through a draw command | `setup`, `draw`, `drawState`, clips, `flush` | a primitive is drawn in its painter's state |
| browser window tree: `server/canvas.html` | widgets with their children, dialog stack | create, addChild, show, hide, activate, resize, ... | same tree and stacking as the application's |
| websocket session: `lib/websocket/WebsocketServer.cpp`, `WebsocketThread.cpp` | `client`, `connectionSemaphore` | `onConnection`, `onDisconnection`, `waitForConnected`, `readData` | the current browser gets the stream until it leaves |
| websocket protocol: `lib/websocket/QWsServer.cpp`, `QWsSocket.cpp` | handshake and frame parser state | `dataReceived`, `processDataV0/V4`, `write`, `close` | a message arrives as it was sent, however TCP cuts it |
| startup hook: `lib/hooking/Probe.cpp` | none | `qt_startup_hook` | ports reach the launcher; the application starts after a browser connected |
| event injection: `lib/events/EventConverter.cpp`, `EventDispatcher.cpp` | widget under the mouse | `parse`, enter and leave events | events reach the widget they are for, or none |
| application launcher: `server/HttpServer.cpp`, `ApplicationWrapperThread.cpp` | pending connections of `kappstream_init`; one wrapper for each application | `readClient`, `sendCanvas` | a browser gets the ports of the application it asked for |
| access lists: `server/ACLProvider.cpp`, `main.cpp` | the file; lists and modes in memory | accept, reject, accept-all, reject-all, `isAccepted`, `save` | a name is decided as the administrator said last |

### Where the difficulty lies

* *Reentrancy on the GUI thread.* `render()` calls the application's
  `paintEvent`, which may paint, show, hide and delete widgets while `render()`
  is half way. It tells its own Paint event from genuine ones by a marker that
  outlives the pass in two cases.
* *Two threads, two buffers, two locks.* `flush()` runs between any two steps of
  the GUI thread; a draw command is under construction across a whole
  `paintEvent`.
* *Ordering across channels.* Draw commands, layout commands and pictures travel
  in three channels; the browser delays a message for its pictures but not the
  messages behind it.
* *One-shot state.* A picture is served once and its key remembered for ever; an
  eviction or a failed request cannot be repaired.
* *Lifetimes.* Browser connections, application processes and widgets come and
  go, and their addresses and sockets are remembered elsewhere.

`PROJECT.json` lists these at their lines under "hazards", each with the
property that covers it or the reason why none does.

## 2. Modules

| module | kind | extends / instantiates |
|---|---|---|
| `WebRenderer` | render queue and the event filter cases that drive it | |
| `WebRendererProofs` | its theorems | `WebRenderer`, `TLAPS` |
| `DisplayStream` | abstract: what the output buffers promise | |
| `JSONBuilder` | output buffers, `flush()`, the startup hook's wait | `Stream == INSTANCE DisplayStream` |
| `Painter` | the painter's state from Qt through the buffers to the page's canvas | `JSONBuilder` |
| `JSONBuilderProofs` | theorems about both, the refinement among them | `Painter`, `SequenceTheorems`, `TLAPS` |
| `ImagesHostServer` | image store | |
| `ImageLoader` | image store, channels and browser loader composed | `ImagesHostServer` |
| `ImageLoaderProofs` | its theorems | `ImageLoader`, `FiniteSetTheorems`, `TLAPS` |
| `ACLProvider` | the access list file, commands and server as processes | |
| `QWsServer` | the opening handshake of the websocket protocol | |
| `Session` | the life of an application's process: startup hook, websocket thread and server, browsers that come, take over and leave | `QWsServer` |
| `Queues` | a queue from which entries are taken where they stand | |
| `QueuesProofs` | lemmas about it | `Queues`, `TLAPS` |
| `EventBridge` | mouse and key events from the browser to a widget, enter and leave events | `Queues` |
| `EventBridgeProofs` | its theorems | `EventBridge`, `QueuesProofs`, `TLAPS` |
| `QWsSocket` | the websocket protocol after the handshake: frames and closing | |
| `WebsocketProofs` | theorems about the handshake, the session and the frames | `Session`, `QWsSocket`, `QueuesProofs`, `TLAPS` |
| `AppLaunch` | HTTP server, wrapped processes, startup hook, local socket | |
| `ServerProofs` | theorems about the launcher: its lists and its processes | `ACLProvider`, `AppLaunch`, `TLAPS` |
| `WidgetKinds` | the widgets and their window flags, for both halves of the display | |
| `EventFilter` | the application's half: Qt's events, the filter's cases, window events of the browser | `WidgetKinds`, `Queues` |
| `ClientTree` | the page's half: containers, frames, curtains, activation | `WidgetKinds` |
| `Display` | both halves, joined by layout commands, draw commands and browser events | `EventFilter`, `ClientTree` |
| `DisplayProofs` | its theorems | `Display`, `QueuesProofs`, `FiniteSetTheorems`, `TLAPS` |
| `MCDisplay`, `MCWebRenderer`, `MCImageLoader`, `MCACLProvider`, `MCQWsSocket`, `MCSession`, `MCEventBridge` | instances for TLC | |

### WebRenderer

`tracked`, `queue`, `sem`, `armed`, `current` are `m_widgets`, `_render`,
`renderSemaphore`, the timer and `currentRenderingWidget`; `phase` is where the
GUI thread is: outside `render()`, in its loop, or in the `paintEvent` that
`QWidget::render` calls. Actions: `Track` and `Untrack` for the event filter
cases that add to and remove from the collection (with `dequeue`), `Paint` for
`WebRenderer::queue`, `Timeout` for the slot, and one action for each way through
the loop of `render()`: an entry whose widget is no longer tracked, one with
nothing to paint, one that is painted, the end of its `paintEvent`, the end of
the loop. `Track`, `Untrack` and `Paint` also happen in phase "paint": a
`paintEvent` may call `show()`, `hide()` or `repaint()`.

A widget is an interval of `Extent` cells and a rectangle a subinterval; this
keeps what `QRect::united` and `contains` do to a bounding rectangle and to the
null rectangle (one dimension of the two). `removeAll`, which `dequeue` calls,
compares with `contains` against a null rectangle, so it removes nothing: the
model keeps the operator as written, and lemma `RemoveAllNothing` proves it.

`damage` is a history variable: the cells that genuine Paint events of a tracked
widget reported and that were not painted since.

`Stable` and `Masked` name the widgets that are never hidden or closed once
shown, and those whose mask may leave nothing to paint. They let one
specification state what holds (`NoLostPaint`, for stable widgets) and what does
not (`EveryPaintKept`, for all).

### JSONBuilder and DisplayStream

A buffer is a sequence of fragments: the head, the primitives and the end of a
draw command, or a layout command. `renderSem` and `layoutSem` are the permits.
`gui` and `drawing` say where the GUI thread is (a layout command may be issued
inside a draw command, from a `paintEvent`); `ws` says where the websocket thread
is in `flush()`. `readsPosted` is the event queue of the websocket thread.
`OnConnection`, `OnDisconnection` and `Quit` model one browser that connects and
leaves, and the posted `quit()` that then stops the thread. `HookReturns` is the
end of `qt_startup_hook`. The text of a primitive, with the painter's state before it,
is one fragment; its contents never decide what the buffers do. What they do to the
page's canvas is in `Painter`.

`DisplayStream` numbers the commands in the order they are completed and has two
sets of waiting commands and two sets of sent ones; a flush sends all waiting
draws and, later, all waiting layouts. `ImplementsDisplayStream` maps the
buffers' fragments to it.

### Painter

`Painter` adds to the draw commands of `JSONBuilder` what they say of the painter's state.
`transform` and `flags` are `cur_state.transform` and `cur_state.state`, which last from
one draw command to the next; `page` is the `CanvasDrawer` of the widget: the field it
keeps, the transform of its 2d context, and the one that `save()` has put by. `page` is what
the page will have once it has executed what is in `render_buffer` of the open command: a
draw command is sent and executed whole (`WholeDraws`), so where in time it is executed makes
no difference, and a command that is not yet executed can be judged while it is composed.
Before each primitive Qt reports what has changed (`Reports`, `Report`); `DrawShape` is any
primitive that saves what is flagged and draws, `DrawPixmap` the one that lends `cur_state`
the identity and sends a second state behind the picture, `DrawNothing` the picture without a key
(`image`, also for `tiledPixmap`), whose report stays flagged. `SaveState` composes a state
fragment and `DrawState` executes it, the clip first: `SetupClipping` is what is left of
`setupClipping` after its early `return`, a restore of the context and its repair.
`StartDrawing` and `EndDrawing` are `beginRender` and `endRender` with the page's `setup` and
`flush`.

Of the state's fields the transform is modelled, since `pixmap()` treats it apart; the pen goes
the same way without that. The transform is its scaling and turning: its translation is
dropped by the page (section 5). What Qt leaves in `cur_state` between commands is not claimed
to reach the page: a painter that reports no transform within a draw command draws under the
page's default, the identity.

### ImagesHostServer and ImageLoader

A picture is the hash the code computes, so two pictures with the same bytes are
one. `Store` is the common tail of both `hostImage`s; `QMap` order is the order of
the numbers in `Keys`, and eviction removes the smallest ones, possibly the one
just inserted, as the code does. `ImageLoader` composes the store with the
websocket (an ordered sequence of messages), the HTTP connections (one for each
picture, unordered, any of which may fail) and the browser: `Receive` is
`onmessage` with `input` and `loadImages`; `Delayer` is the closure of
`delayCallback`. A request fails because it is answered with nothing, answered 400
when its line arrives in two segments, or cut off. The page sends `/add` only; `/rm`
changes no state of the store (`readClient` hands `removeCache` the path in place of the
key, see section 5) and so has no action.

### ACLProvider

Every run of `kappstream-server` is a process: the server, which reads the list
file at its first request, or a command, which reads, changes and saves it.
`step[p]` is where a process is, `mem[p]` its lists. `disk` and `file` are the
file: `file` has the lists in it, or those of an empty list when it is truncated or
garbled, since that is what the constructor makes of anything that is no XML
document. The three places where the code touches the file (the existence test,
opening with truncation, writing) are steps of their own, so commands interleave
and die between them. `dir` says whether `~/.config` is there: `createPermissionsFile` makes no
directory and gives up when it cannot open the file (`CreateFails`, which may also happen with
the directory there), so the process goes on with the constructor's closed lists and no file;
`save` makes the directory (`SaveOpen`) and may fail as well (`SaveFails`). Two writers at one offset leave the text of the later one, or
that text followed by the end of a longer one (`Write`). A list is written by one
system call, which is so while it is shorter than the file's buffer.

`Parsed` keeps the conversion between the attributes of the file and the two
flags: a new file spells its default `<reject all="true">`, an element the
constructor does not look for, and is in mode reject-all because neither attribute
it looks for is there.

`alone` and `due` are history: what the verdicts should be after commands that ran
one at a time, counted from what the first of them found: the file, the new file with
testapp on it, or closed lists. An initial file written by hand is not modelled: with a name on both
lists, `accept` would return without saving.

### QWsSocket

`processDataV4` and `composeFrames` on bytes: `wire` and `avail` are the bytes on
their way and in the TCP socket, `readingState` and the fields behind it the
parser's, `down` the bytes written to the browser. Each way through the parser's
loop is an action (`ReadHeader`, `ReadLength`, `ReadMask`, `ReadPending`,
`StopReading`); `ReadMask` falls through to the body as the `switch` does.
`processDataV4` has no case for `CloseDataPending`, and neither has the model
anything but `StopReading` for it. `state` and `tcpState` are the states of the
websocket and of the socket under it; `Close` is `close(status)`, `TcpClosing`,
`TcpClosed` and `TcpReset` are `processTcpStateChanged`. The browser is external:
it sends one masked frame for each message and reads frames as RFC 6455 defines
them (`FrameAt`, `TextMessages`). `MaxFrame` is assumed to be 65535 at most: in the code it
is the constant `maxBytesPerFrame`, 1400 (`QWsSocket.cpp:8`), so the length of a frame
in 64 bits is never written. Payload bytes are 0 or 1, so that the exclusive
or is addition modulo 2; header bytes are whole.

The model keeps what the code does with a ping (it answers with a binary message
that holds the header of a pong), with the status of a close frame (it is echoed
without unmasking it), and with the bytes behind the status (two too many are
asked for). None of them reaches the messages, which is what the properties are
about. Messages in several frames are not sent by the browser here: `opcode` is that
of the last frame, so `frameReceived` would not be emitted for them.

### QWsServer and Session

`QWsServer` is `dataReceived` with the sockets and buffers it works on. `Sent` is what
browsers send: requests of the versions with `Sec-WebSocket-Version` (13 and 4), of version
0, whose eight bytes `key3` follow the empty line, and a page request that got to this
port. A line is one item and a cut inside it is its arrival with the next segment, so
`Segment` delivers any number of items; `readyRead` (`ReadyRead`) is served for what has
come since. `NotFetched`, `BadRequest` and `Handshake` are the three ways out of
`dataReceived`. A response keeps its status, its fields, whether the empty line at its end
is there, and which digest proves that the request was understood; `Accepts` is what a
browser of each version looks for in it. It keeps what the code does with a request it does
not understand: it answers 400, without the empty line at the end of the answer, leaves the
connection open and its lines in `headerBuffer`.

`Session` extends it with the three parties: the startup hook and then the application in
the GUI thread (`main`), the websocket thread (`thread`: every action of it is one event it
serves), and any number of browsers. `sem`, `client` are `connectionSemaphore` and
`WebsocketServer::client`; `deaf` are the connections whose signals `onDisconnection` has
disconnected, `deleting` those with a `deleteLater()` pending, whose destructor aborts an
open connection (`DeferredDelete`). `OnConnection` takes the new connection for the client,
whoever was: a page that is reloaded opens its second connection before the first is
noticed to be closed, or after. `OnDisconnection` acts on `client`, not on the connection that
ended. It ends two event loops in two ways: `quit()` of the thread object is posted to the
GUI thread (`quitPosted`, `QuitThread`), and `qApp->quit()` is called across threads
(`quitNow`, `MainReturns`), which is forgotten when `exec()` has not begun (`quitLost`).
`ProcessDataV0` reads a frame of version 0; if its end has not come the thread spins in
it, appending zeros, until memory is at its end (`OutOfMemory`). The stream of draw and layout
commands is left to `JSONBuilder`, frames of the later versions to `QWsSocket`; opening and
accepting at the level of the kernel is external.

### EventBridge

`Lookup` is `EventConverter::parse` up to the test of `WidgetsCollection` (or, for keys,
`QApplication::focusWidget()`), `Post` the `postEvent` behind it; between them the
application goes on. `Types` merges the events that take the same way: press, release,
double click, wheel and resize. `HideWidget` and `ShowWidget` are what the event filter does
when a widget is hidden with the children that are shown, or shown: the widgets leave and
enter the collection, and `WebRenderer::dequeue` removes their posted events. `Serve` is
`EventDispatcher::eventFilter` for an event that calls no handler of interest;
`ProcessEnterEvents` computes the stacks of widgets that the mouse leaves and enters: `Outward`
follows the parents of a widget, `Apart` takes away what the two stacks have in common;
`SendCrossing` sends one of the events, and between any two the handlers may hide and show
widgets; `EndEnterEvents` remembers the widget (`currentMouseGrabber`). `entered` is
history: the widgets whose last event of the two was Enter. `stale` marks events that were
looked up before their widget was last hidden.

Positions, modifiers and hover events are left out, as are widgets that are disabled or do
not track the mouse. A handler that runs an event loop of its own, and widgets destroyed or
moved to another parent in the middle of a crossing, are not modelled: the code keeps plain
pointers in its stacks, and what happens then is undefined.

### AppLaunch

`serving` is the request in `sendCanvas` and `reading` the connection it waits on;
both are None while the server's event loop runs. A connection to `kappstream_init`
goes from `backlog` (the kernel's) to `pending` (`QLocalServer`'s), by
`waitForNewConnection` or by the event loop, and from there into `sendCanvas`. Data
that the event loop has read (`buffered`) are no news to `waitForReadyRead`, so such a
connection fails the request it is taken for. The ten and the thirty seconds are
steps that may happen whenever nothing else ends the wait. `proc[r]` is the process
started for request r: a program that cannot be started, one that crashes or hangs
at any point, one that never connects, and the startup hook of one that does.
`late` is history: the processes that connected after their request was answered.
`crashed()` never is true (`_crashed = false` in the crash case), so the model's
answer to a crash is the empty page.

### EventFilter, ClientTree and Display

The application changes its windows by calls of Qt (`Construct`, `ShowWidget`,
`HideWidget`, `CloseCall`, `SetParent`, `Destroy`, `ActivateWindow`). Qt is outside the
repository: each call is modelled by the events it sends, in the order in which the
filter sees them (`HideEvents`, `ActivationEvents`, ...), which wait in `events`
and are delivered one at a time. `EventFilter` has one action for each case of
`eventFilter` that acts on them: it changes `tracked`, issues a layout command, and
where it calls `WebRenderer::dequeue` drops the browser events posted to the widget
(`Dequeued`). While events are left the application is inside the call; the
websocket thread, the page and the user are not. `EventDispatcher` takes the posted
window events: `DispatchActivate` and `EndActivate` are the two ends of
`setActiveWindow` with `_isActivateEvent` set between them.

`ClientTree` is `QtLogic`'s document. A widget's container is in the pool, in
another widget's box or in a frame of its own (`box`); `framed` is the class
`DialogCanvas`, `hidden` and `shown` the class `Hidden` and jQuery's `show`/`hide` of a
frame, `curtains` what `before` put in front of it. `createDialog` takes a canvas out of the
frame it had and does nothing to that frame: `ghosts` has the widgets whose earlier frame was
displayed then, and stays so. It keeps what the code does: a
dialog's frame is made by `addChild` and again by `create`; the first parent of all
gets a frame as the main window; the command `activate` runs on into `deactivate`,
there being no `break`; a click on the close button also activates.

`Display` joins them: `wire` is the stream of layout commands (first in, first out;
`JSONBuilder` is where that is shown), `draws` the draw commands, which come when they
like, since `flush` sends them ahead and `loadImages` holds them back (`overtaken` is history:
the dialogs that were drawn while a command that frames them was on its way); `up`,
`posting` and `inbox` are a browser event before, inside and after
`EventConverter::parse`, whose lookup and post are separate steps.

What this leaves out, and why it may: geometry, titles and stacking order, with
their commands, change nothing that is modelled; `removeChild` has no case in the page;
a draw of a plain widget only paints. What it restricts: plain widgets are one
level deep and dialogs keep the parent they were made with; windows made without a
parent are of the kind `Window` (a dialog without one would become the page's main
window through its first child and get a second frame); an address is used once;
`setActiveWindow` is not called from inside its own events; `deleteLater` is not used.
What the properties do not speak of, although the model has it: a window that
refuses to close stays visible and untracked; `ChildAdded` tracks its parent again
when that is hidden; a plain widget that is destroyed while visible stays on the page;
the main window is without a frame until its first child has come.

## 3. Runs

Every module of a run is checked for deadlock unless the configuration says
otherwise, and it says otherwise only where the model stops at a bound.

| run | instance | shows |
|---|---|---|
| `web_renderer` | 3 widgets: one stable, one with a mask, one plain; 2 cells | `TypeOK`; `RenderScheduled`: a queued widget has a pass coming; `NoLostPaint`: no damage of the stable widget is forgotten; `EventuallyTaken`: no entry stays in the queue |
| `web_renderer_lost_paint` | 3 plain widgets | `EveryPaintKept` is violated: see finding 1 |
| `json_builder` | module `Painter`, 3 commands, 1 primitive each | `WholeDraws`: messages hold whole commands; the refinement `ImplementsDisplayStream`; `EventuallyDelivered`; `DrawnAsPainted`: a shape is drawn under its painter's transform and a picture under the identity |
| `image_loader` | 3 pictures (1 transparent), a store of 2, 2 messages | `RequestServed`: what the browser asks for is there unless evicted; `AskerDrawsImage`: the message that asked for a picture is drawn with it or after its request failed; `EveryMessageExecuted` |
| `acl_provider` | 2 names, 2 processes, with or without a directory | `NothingUngranted`: no broken file lets an application run that no command allowed; `LastVerdictHolds`: commands that do not overlap have the effect asked for |
| `app_launch` | 3 requests with their processes | `PromptPagesMatch`: while no process is late, pages have their own process's ports, whatever dies; `EveryRequestAnswered`, with no fairness of processes |
| `app_launch_late` | 2 requests | `PagesMatch` is violated: see finding 2 |
| `ws_frames` | 2 messages or pings in, of 1 and 126 bytes; 1 message out, of 125, 126 or 252 bytes in frames of 126 | `ReceivedInOrder`, `EventuallyReceived`: the messages come out whole and in order, however they are cut; `BrowserReadsMessages`: the frames parse back to what was written; `DisconnectedOnce`, `EventuallyDisconnected`: the end is told once, also when a close frame is stuck |
| `session` | 2 browsers, the first with any kind of request, the second of version 13; 1 poll before the last | `WholeRequestsAccepted`: a request with a version field is accepted however TCP cuts it, with the answer of its version, and nothing else becomes a websocket; `ClientIsLive`: the semaphore says whether there is a client, and the client is an open connection that nobody deletes; `AloneIsKept`: as long as connections do not overlap the open one is the client and is not dropped; `EventuallyServed`, `EndsWithBrowser`: who connects is accepted, and the application ends with its browser, but for what section 5 lists |
| `event_bridge` | a window and two children; 2 posted events | `CrossingsMatch`: no widget is told that the mouse left it which was not told that it came, and as long as the mouse does not go on from a widget hidden under it, those told are the widget under the mouse and its parents; `OneStaleEvent`: one event at most outlives the hiding of its widget |
| `display` | main window, modal dialog, label; 3 calls and 1 click; the page one command behind | `ShownIsKnown`: no show or hide before the page knows the widget; whenever the layout commands have been executed, `ShowingMatches`: a dialog's frame is on the page exactly if the dialog is shown, no shown widget's canvas is hidden, and a frame that was replaced is not on the page unless a draw overtook the command that replaces it, `CurtainsMatch`: a modal dialog on the page has its one curtain, `FirstMovesFollowed`: plain widgets are in their parents' boxes; `EchoesEnd`: activations are not answered for ever |
| `display_return` | the same; 2 calls | `MovesFollowed` is violated: see finding 3 |

*Bounds.* Two cells are the least with which a bounding rectangle differs from
its parts' union being lost; three widgets put one entry before and one behind
another in the queue, and give one of each kind. Three commands let a layout command be
under construction inside a draw command while one of either kind is buffered or between
the halves of `flush()`, and let a draw command find what two others left in `cur_state`. One primitive
in each is enough for `DrawnAsPainted`, which asks of every state what the next primitive
would be drawn under, a second one included; the states that more of them lead to are those of
the proof's invariant. Three pictures for
a store of two give an eviction; two messages are the least with which one can
overtake another. Two processes overlap in every way a pair can, and each starts
again after it ended. For `ws_frames`, 125 and 126 are the two sides of the seven-bit
length, 126 and 252 multiples of the frame size, which end with an empty frame. A cut
anywhere means anywhere within `MaxCut` bytes of the start and the end of what is on
its way: in every field of the header and at the edges of the body, whose inside is
one `Len(avail) < payloadLength` to the parser. The 64-bit length is beyond TLC's
sizes. Three processes let a second one be shifted by the first and shift a third.
For `session`, two browsers are the least that overlap, and the one that a third would meet is
the second again, for the server remembers one client only; the second is of the version
that browsers speak, so that every kind meets it. One poll before the last (`Polls`, nine in the
code) lets the browser come and go between two looks. For `event_bridge`, a window with two
children gives every crossing there is between two widgets: inward, outward, aside; a queue
of two holds a stale event and one behind it, and while it is full `parse` waits, in the model
only.
For the display, a window of each kind and a widget that can
be in either are the least with which a parent can be changed, one window activate
another, and one hide while the other shows. `MaxCalls` counts the application's calls
of Qt (constructions are not counted, since each widget is made once): three are a dialog
shown, hidden and shown again. `MaxClicks` counts clicks, on a frame or on its close button:
one is enough to race with each of the calls, and starts an activation that is answered.
`MaxBehind` is the number of layout commands the page may be behind when the application
makes a call on its own account: one in both runs, besides those that the call itself
issues. That is what it takes for a draw of the dialog (`Drawn`, the only widget whose draw the
runs have: a draw of the label does nothing to a frame, and no property speaks of the main
window's) to come between the two commands that frame it. A browser
event is dispatched, and a click made, however far behind the page is; since commands are
executed in order, what a page further behind could do differently is send older
clicks. One draw command is under way at a
time; each may stay for as long as it likes. The number of commands and messages is bounded in the guards
(`MaxCommands`, `MaxPrimitives`, `MaxMessages`, `MaxSent`, `MaxWritten`, `MaxCut`,
`MaxCalls`, `MaxClicks`, `MaxBehind`, `Drawn`, `MaxInbox`), and `Polls` is a parameter; nothing else is. The theorems
do not depend on any of these values.

*Fairness.* `WebRenderer`: the event loop delivers a timeout that is due, and
`render()` goes on; nothing is assumed of the application (`Paint`, `Track`,
`Untrack`). `EventuallyTaken` holds although paintEvents may ask for paints
without end, because the queue is served from its front. `JSONBuilder`: started
commands end, the event queue of the websocket thread is served, and `flush()`
gets a permit that is free. `QSemaphore` keeps no queue of waiters, so under an
application that paints without pause the last would be an assumption about the
scheduler; the instance issues finitely many commands, after which the permit
stays free, and weak fairness is enough. Browser connections are not assumed
fair: delivery is promised until a browser left. `ImageLoader`: sockets deliver
or fail, and the two event loops take what was delivered. That an HTTP request
fails is never assumed and never excluded. `QWsSocket`: TCP delivers what was sent
and then its end, and the parser's loop goes on; the browser is not fair, and a
connection that breaks excuses delivery. `AppLaunch`: the event loop takes requests and
each of the server's waits ends, by its time limit if by nothing else. `Display`: as
long as an event or a message is on its way one of the three event loops takes one
(`Work`, one condition for all of them); the application, the user and draw commands owe
nothing. `Session`: both threads are scheduled, the websocket thread serves each connection's
events, and TCP delivers what was sent; browsers connect, leave and stay silent as they
like.

## 4. Theorems

Proved for every value of the constants that satisfies the modules' ASSUMEs,
which give the constants their types and say besides:

* a widget with a mask is not counted as stable (`WebRenderer`), and widgets are finitely
  many;
* the parents of widgets have no cycle (`EventBridge`), as `QObject`'s have none;
* the places "pool" and "frame" of the page are no widgets (`ClientTree`);
* a message of the browser has 65535 bytes at most (`QWsSocket`), since `ClientFrame` writes
  its length in seven bits or in two bytes; the library's own composer is not so limited.

The theorems:

* `WebRendererProofs`: `TypeCorrect`, `QueueIsScheduled`, `SinglePass`,
  `SingleEntry`, `StablePaintsKept`. The inductive invariant `IInv` adds to the
  properties that the marker never rests on a stable widget (`MarkerUnstable`),
  that a stable widget in the queue is tracked (`QueuedTracked`), and that every
  dirty cell is in a queue entry (`PaintsKept`). The first is what `NoLostPaint` rests on: a marker left on a
  widget swallows its next Paint. `UnitedContains`, `InsertGrows`, `InsertAdds`
  and `TailEntries` say what the queue operations do to entries.

* `JSONBuilderProofs`: `BufferTypes`, `BuffersAreExclusive`, `DrawsAreWhole`, `FragmentsKept`;
  `BuffersImplementStream`, the refinement; `NothingLostOrTwice` and
  `DrawsOvertakeOneMessage`, proved of the abstract stream (`StreamInv`) and taken
  through the refinement. `JInv` adds that
  `render_buffer` ends with a complete command whenever no draw command is open
  (`WholeBuffer`): `flush()` then sends whole commands, because with the permit
  in its hands no command is open.
  `PainterKeepsBuffers`: every behaviour of `Painter` is one of `JSONBuilder`, so all of this holds
  with the painter's state too. `PaintedAsReported` is `DrawnAsPainted` for any number of
  commands and primitives. `PaintInv` says what stands between two primitives: once Qt has
  reported a transform within the command, the page's drawer has `cur_state`'s or the transform is
  flagged, and the context has what the drawer has. The last holds because `restoreState` sets
  the context up from the drawer's fields; what `t_ctx.restore()` alone brings back may be older.

* `ImageLoaderProofs`: `LoaderTypes`, `RequestsAreServed`, `AskersDraw`, for any
  pictures, limit and number of messages. `IInv` adds that every key under way to the
  browser is in `m_cached` (`Hosted`); that a cached key has its picture in `m_data`, or
  lost it to the limit, or has been asked for and answered (`Stored`), which is why
  one request for a key is all the browser may make; and that each picture a waiting message
  asked for is still counted by its delayer, has loaded, or has failed (`Waits`). That
  the limit is kept (`TrimmedFits`) is a counting argument: keys that stay have different
  numbers of keys after them, all below the limit.

* `ServerProofs`, of `ACLProvider`: `ListTypes`, `VerdictsAreSingle`, `ServerIsClosed`,
  `LastVerdictStands`, for any number of processes. `AInv` adds `GrantedEverywhere`
  (the lists of every process, not of servers only, and of the file allow nothing
  ungranted) and `Sequential`: while nothing has overlapped or died, one process at
  most is under way, and at each of its steps either the file or its own lists
  stand for the rules that are due (`Owed`). `NothingToSave` is why `accept` may
  return without saving. What is owed starts from what the first command found, which is closed
  lists, without testapp, where no first file could be made; `VerdictsAreSingle` (`OneVerdictPerName`)
  is not among the properties of the run, being the invariant that `NothingToSave` rests on.

* `ServerProofs`, of `AppLaunch`: `LaunchTypes`, `PromptPages`, `PortsOnce`, for any number of
  requests. `LInv` adds that a connection is in one place (`OnePlace`), that a process
  which has not connected is in none (`Unconnected`), and that without late processes
  only the request at hand has one (`Prompt`): when its connection is taken, the queues
  are empty for the next request. This is the argument by which taking the oldest
  connection is right, and lateness is what breaks it.

* `WebsocketProofs`, of `Session`: `ClientAlwaysLive`, `AloneAlwaysKept`, `WholeRequestsAlwaysAccepted`,
  `SessionTypes`, for any number of browsers and whatever they send. `IInv` adds that a
  connection which is deaf or to be deleted was a websocket (`DeafWereOpen`) and types
  (`Shapes`): a connection that has just made its handshake is neither, which is why it can be
  the client at once. `HInv` is about requests (`Understood`): `headerBuffer` holds lines of
  the request only, so a version field is there exactly for those who sent one; and of a
  request with that field it holds all lines up to where the socket has been read
  (`Collected`), so that they are complete when the empty line is met.

* `WebsocketProofs`, of `QWsSocket`: `OneDisconnection`, for any messages, keys and frame size, by
  the invariant `Ended`. It matters because `WebsocketServer::onDisconnection` uses
  `client` without asking whether there is one.
  `MessagesInOrder`: for any messages, masking keys and cuts, the parser hands on the browser's
  messages in their order, unmasked and whole. `RInv` looks at all bytes that have not been
  read, those in the socket and then those on their way, as one stream: it is the sequence of the
  frames to come (`ToCome`), each laid at the place where it begins (`OnItsWay`), the texts
  among them being the messages sent and not yet received. The first of them is the frame in
  hand; it has been read up to where the parser's state says, which makes its place negative, and the
  parser's fields are that frame's (`Parsing`). So a step moves all places by what it has
  read (`BytesRead`), and a cut changes nothing at all (`SplitStream`). When the body is
  there, what is at its place are the masked bytes of the first frame, masked again
  (`MaskTwice`). Of the frame's header it is `LengthBytes` and `LengthRead` that the length
  written in two bytes is read back. A close frame is the last, so that the two bytes which are
  read too many behind its status are not those of another frame; the parser that is stuck in
  one never comes to a frame again. When the connection breaks nothing is on its way any more, and the
  parser is not run again (`ResetEnds`).
  `SocketTypes`: what is composed are bytes (`HeaderBytes`, `NumberBytes`, `FramesBytes`), for
  payloads of any length.
  `BrowserReads`: the browser reads every message of the application, whole and in order, and one close
  frame at most, for payloads of any length, pongs in between included. The frames are written
  one behind the other, so `WInv` says that the bytes written end where a frame ends (`Cut`), that the
  frames up to there decode to `written` with no message left open (`Browse`), and that a close
  frame is among them only if `closingHandshakeSent` is set or the websocket is Unconnected,
  when nothing closes it any more; and a websocket that is Connected has sent none, which is why
  `TcpClosing`, which does not ask for `closingHandshakeSent`, writes no second one. A step that
  writes adds frames at the end: what was read before stays read (`FrameStays`, `FrameFollows`), and
  the frame composed behind it is read back, whichever of the forms its length has
  (`FrameWritten`, from `HeaderIs`, `LengthBytes` and `LengthRead`). That a message cut by `composeFrames`
  is put together again goes by its pieces (`ComposedBrowsed`): a piece leaves the message open
  with the bytes so far (`PieceGoesOn`), the last one, which may be empty, ends it (`PieceEnds`). `FramesOf`
  and `Decoded` are recursive; that they exist and compute this is `FramesRead` and `DecodedRead`.

* `EventBridgeProofs`: `BridgeTypes`, `CrossingsAlwaysMatch`, `StaleOnce`, for any tree of
  widgets and any length of the queue. `Outward` is recursive, so the proof first shows that it exists and that
  there is only one: a way from a widget to the outermost one ends since parents
  have no cycle, and two such ways are equal (`OneWay`). Stacks rise (`Rising`), the common part is their
  end, and so the events in hand are ordered (`Ordered`): a widget is left before its parents and
  entered after them, and each is in hand once (`CrossingsFacts`). `MInv` adds this (`InTurn`), and
  that the widget under the mouse and its parents know of it or will be told, also after the mouse
  went on from a hidden widget (`Told`); `CrossingsMatch` alone is not inductive, since
  it says nothing of the order in which what is left of a crossing is sent. For
  `StaleOnce`, `StaleInHand`: hiding a widget leaves no posted event of it behind, so if the one that
  `parse` has in hand is stale there is no other.

* `DisplayProofs`: `PageKnowsWhatItShows`, for any finite number of widgets and any lag
  of the page. `TInv` says of the application that a widget which was constructed has
  been told of or its Create event is still to come (`BornTold`), of Qt that the events
  that show and hide are for widgets told of (`About`), and of the stream that
  each show and hide in it comes after what tells of its widget (`ToldBefore`). The last
  is what `showElement` and `hideElement` rely on when they ask for no widget's existence.
  `MovesAreFollowed`: a plain widget that never came back to an earlier parent stands in
  its parent's container once the page has executed every command. `MInv` follows the
  list of the parents it was given (`Follows`): each is executed by the page, named by
  an `addChild` on the wire, or by a ChildAdded event still to come (`NoneForgotten`), the
  older never after the younger (`OldestFirst`, `WireInTurn`, `EventLast`), and the
  container it stands in is the youngest one executed (`InLatest`). No parent occurs twice in
  the list, so a parent stands for its move; this is where the return of finding 3
  breaks the argument, since the container that already holds the widget ignores it.
  `FramesFollow` and `CurtainsFollow`: once the page has executed every command it displays the
  dialogs that the application shows, each modal one behind one curtain, and hides no canvas
  of a widget that is shown. `DialogInv` compares the two ends through what is between them: the events of a call that
  are still to come say what is so when the call ends (`EventsAgree`); the last show or hide of a dialog on the stream,
  or what the page has executed if there is none, says the same as the application, or an event
  corrects it (`Followed`, `InStep`, `CanvasShown`). A frame is made twice, by `addChild` and by
  `create`; both stand on the stream before the first show (`FramedFirst`, `AddedFirst`), when the
  frame is bare (`FramingBare`), so making it again undoes nothing, unless a draw came between
  the two and displayed the first: that frame stays, and `Overtaking` says that only then one does. That a curtain is not put up twice
  is `ShowsApart`: between two shows of a modal dialog on the stream there is a hide, which takes the
  curtain away (`CurtainFalls`).
  `DisplayTypes` needs that what is dispatched is for a widget that lives: an event posted to
  a widget that was destroyed goes with its Destroy event, and nothing is dispatched before that is
  delivered (`InboxLives`).

* `QueuesProofs`: `WithoutKeeps` and `WithoutShorter` say what is left of a queue: its other
  entries, at rising places, in their order. The function is recursive; that it exists, and
  what it computes, is shown by the smallest counterexample (`Smallest`), as for every recursive
  function here.

Model-checked only are the liveness properties, which are out of TLAPS's reach (`EchoesEnd` of
`Display` is one of them). Every other property of a passing run is the statement of a theorem, or a
conjunct of one. `MovesFollowed` and the other two properties of the runs that expect
a violation are false.

## 5. What the code does otherwise than its documents say

1. `web_renderer_lost_paint`: `render()` sets `currentRenderingWidget` before it
   looks whether the widget is still tracked (`lib/paint/WebRenderer.cpp:86`). A
   widget hidden while queued leaves the marker behind, and the first Paint after
   it is shown again is swallowed. The thesis says every change of an interface
   element is rendered.
2. `app_launch_late`: the ports of an application that connects after its request was
   given up are given to the next request (`server/HttpServer.cpp:180`). The thesis
   says the port is handed to the client of the application.
3. `display_return`: a widget that returns to a parent it had before stays where it was
   on the page (`server/canvas.html:891`): the page never forgets a child, and has no
   case for `removeChild`. The thesis says that changing the parent of a widget is no
   problem and is done very often. `FirstMovesFollowed` is what remains true.

The other models have behaviour that a reader of the documents would not expect, without a
run of its own:

* A message that names a picture an earlier message is still loading does not wait for it
  (`server/canvas.html:502`), although the thesis has all needed pictures loaded before a
  widget is drawn (`src/thesis/implementation/problems.tex:48`); `AskerDrawsImage` is what
  remains true.
* `/rm?i=key` removes the key `/rm` (`lib/paint/ImagesHostServer.cpp:83`), although the
  thesis offers the request to control the size of the buffer
  (`src/thesis/implementation/server_details.tex:21`).
* `Session`: a browser that leaves before the application enters `exec()` leaves an
  application without browser behind, whose websocket thread stops as soon as `exec()`
  begins (`lib/websocket/WebsocketServer.cpp:95`, `quitLost`). A page that is reloaded ends the application, and
  with its new connection dropped if that was made before the old one's end was noticed
  (`overlapped`). A frame of version 0 that TCP cuts keeps the websocket thread for ever
  (`lib/websocket/QWsSocket.cpp:314`, `spinning`). `EventuallyServed`, `EndsWithBrowser`
  and `AloneIsKept` name these cases as the exceptions.
* `QWsServer`: "we abord the connection" (`lib/websocket/QWsServer.cpp:159`) is an answer
  400; the connection stays open.
* `Display`: a draw command that is executed between the two commands that frame its dialog
  displays the first frame (`server/canvas.html:729`); `createDialog` (`server/canvas.html:758`)
  moves the canvas to a second one and leaves the first on the page, empty, for good: no later
  hide finds it (`ghosts`). `ShowingMatches` names the case as the exception.
* `ACLProvider`: where `~/.config` is missing, the first command makes a file without
  testapp (`server/ACLProvider.cpp:70`, `CreateFails`), which every other first file accepts.
* `Painter`: the page drops the translation of a transform at the first rectangle, line or
  ellipse, and for what follows, since the copy it changes is no copy (`server/canvas.html:1351`);
  a text leaves the fill style at the pen's (`:1427`); a dash pattern is never taken back
  (`:1554`); opacity, background brush and composition mode are stored and not used
  (`:1360`); and a composition mode is written with a second colon, which makes the message
  no JSON (`lib/paint/JSONBuilder.cpp:642`).
* `EventBridge`: a widget hidden under the mouse is never told that the mouse left it, and its
  parents are told again that it came (`lib/events/EventDispatcher.cpp:153`, `lost`).

In `ACLProvider` accept-all keeps the rejected names, and they stay rejected
(`server/ACLProvider.cpp:126` and `:155`), although the thesis says it lifts all
restrictions made before (`src/thesis/problem_definition/acl.tex:9`); `LastVerdictHolds` takes the code's rule.

## 6. Not modelled

* Of the canvas drawing, pixels, fonts, brushes, gradients and pens: what a primitive looks
  like. How a field of the state gets to the page is in `Painter`, for the transform.
* In the display: geometry, titles, stacking order, the task bar, resizing by
  the user, mouse and keys; the restrictions are listed under `Display` above.
* `ImagesBuffer`: connected to signals that nothing emits. Function overwriting:
  compiled, used by nothing. Server-side `QWs*`, `WebSocket*`, `db`,
  `ImagesHostThread`, `src/src/main.cpp`: not in the build targets.
* Real time: the 50 ms timer and the 1 s polls are steps that happen at some time.
* Memory safety of data shared without a lock. `ImagesHostServer` is modelled with
  whole operations because each holds `m_sem`; `WidgetsCollection` is used by the
  GUI thread in the modelled cases.

## 7. Plan

| module | models | properties | abstract specification or composition | theorems |
|---|---|---|---|---|
| `Display`, extended | geometry (`resize` clears a canvas), stacking order (`zorder`, `moveToFront`), two dialogs, `deleteLater` | the last draw of a widget is on its canvas; curtains lie under the dialogs that are not modal | the page implements a shared tree, seen through the commands on their way | |
| `JSONBuilder` under `Session` | a second browser takes over the stream of the first | a browser gets whole messages from its first on | `Session` with `flush()` as one step | |
| `Overwriter` | trampoline pool of AbstractFunctionOverwriter | slots do not overlap | | |
