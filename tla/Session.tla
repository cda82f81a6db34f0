------------------------------ MODULE Session ------------------------------
(***************************************************************************)
(* From the start of an application's process to its end: the startup hook *)
(* in the GUI thread (src/src/lib/hooking/Probe.cpp), the websocket thread *)
(* (WebsocketThread.cpp) and its server (WebsocketServer.cpp), and the     *)
(* browsers that come, leave, and come again as another connection.        *)
(*                                                                         *)
(* The websocket thread serves one event at a time; each of its actions    *)
(* here is such an event.  Windows, draw commands and the messages of open *)
(* connections are left to the other modules.                              *)
(***************************************************************************)
EXTENDS QWsServer

CONSTANTS
  None,
  Polls  \* looks at the semaphore before the last one in waitForConnected

ASSUME SessionAssumption ==
  /\ None \notin Browsers
  /\ Polls \in Nat \ {0}

VARIABLES
  thread,     \* websocket thread: off, in its event loop, spinning in processDataV0, stopped
  sem,        \* permits of connectionSemaphore
  client,     \* WebsocketServer::client
  deaf,       \* connections whose signals onDisconnection has disconnected
  deleting,   \* connections with deleteLater() pending
  left,       \* browsers that have closed their connection
  main,       \* GUI thread: waiting for the ports, in front of the local socket, in
              \* waitForConnected, about to read the semaphore for the last time, in the
              \* application's main() before exec(), in exec(), ended
  polls,      \* looks at the semaphore that waitForConnected has left
  quitPosted, \* WebsocketThread::quit() is in the GUI thread's event queue
  quitNow,    \* qApp's event loop has been told to end
  quitLost,   \* history: qApp->quit() came before exec()
  overlapped  \* history: a websocket opened while another was open

hookVars == <<main, polls>>
quitVars == <<quitPosted, quitNow, quitLost>>
clientVars == <<sem, client, deaf, deleting>>
sessionVars == <<thread, clientVars, left, hookVars, quitVars, overlapped>>
vars == <<wsServer, sessionVars>>

TypeOK ==
  /\ TypeOKServer
  /\ thread \in {"off", "loop", "spinning", "stopped"}
  /\ sem \in {0, 1}
  /\ client \in Browsers \cup {None}
  /\ deaf \subseteq Browsers
  /\ deleting \subseteq Browsers
  /\ left \subseteq Browsers
  /\ main \in {"ports", "local", "waiting", "last", "application", "exec", "ended"}
  /\ polls \in 0 .. Polls
  /\ quitPosted \in BOOLEAN
  /\ quitNow \in BOOLEAN
  /\ quitLost \in BOOLEAN
  /\ overlapped \in BOOLEAN

Init ==
  /\ InitServer
  /\ thread = "off"
  /\ sem = 0
  /\ client = None
  /\ deaf = {}
  /\ deleting = {}
  /\ left = {}
  /\ main = "ports"
  /\ polls = Polls
  /\ quitPosted = FALSE
  /\ quitNow = FALSE
  /\ quitLost = FALSE
  /\ overlapped = FALSE

Alive == main # "ended"

-----------------------------------------------------------------------------
(* Browsers: the port is known once the hook has announced it.             *)

BrowserConnects(b) ==
  /\ main \in {"waiting", "last", "application", "exec"}
  /\ Connect(b)
  /\ UNCHANGED sessionVars

TcpDelivers(b) ==
  /\ Alive
  /\ b \notin left
  /\ Segment(b)
  /\ UNCHANGED sessionVars

BrowserLeaves(b) ==
  /\ Alive
  /\ b \notin left
  /\ conn[b] \in {"backlog", "tcp", "websocket"}
  /\ left' = left \cup {b}
  /\ UNCHANGED <<wsServer, thread, clientVars, hookVars, quitVars, overlapped>>

-----------------------------------------------------------------------------
(* The websocket thread.                                                   *)

\* run: both servers listen, the results of listen() are not looked at.
Run ==
  /\ Alive
  /\ thread = "off"
  /\ thread' = "loop"
  /\ UNCHANGED <<wsServer, clientVars, left, hookVars, quitVars, overlapped>>

InLoop == Alive /\ thread = "loop"

Accept(b) ==
  /\ InLoop
  /\ NewTcpConnection(b)
  /\ UNCHANGED sessionVars

\* Mutant: newConnection() is emitted before addPendingConnection, the queue is still empty.
OnConnectionEarly(b) ==
  /\ client' = None
  /\ UNCHANGED <<sem, deaf, deleting>>

\* Mutant: release() without a look at available().
OnConnectionCounts(b) ==
  /\ client' = b
  /\ sem' = sem + 1
  /\ UNCHANGED <<deaf, deleting>>

\* onConnection: the connection that has just been made becomes the client, whoever was.
OnConnection(b) ==
  /\ client' = b
  /\ sem' = 1
  /\ UNCHANGED <<deaf, deleting>>

DataReceived(b) ==
  /\ InLoop
  /\ \/ (NotFetched(b) \/ BadRequest(b)) /\ UNCHANGED sessionVars
     \/ /\ Handshake(b)
        /\ OnConnection(b)
        /\ overlapped' = (overlapped \/ \E c \in Browsers \ {b} : conn[c] = "websocket")
        /\ UNCHANGED <<thread, left, hookVars, quitVars>>

\* A QTcpSocket that never became a websocket: nothing is connected to its end.
ConnectionClosed(b) ==
  /\ InLoop
  /\ conn[b] = "tcp"
  /\ b \in left
  /\ ~Unread(b)
  /\ conn' = [conn EXCEPT ![b] = "closed"]
  /\ UNCHANGED <<kind, arrived, seen, taken, header, answer, sessionVars>>

\* processDataV0 reads byte by byte up to the end of the frame and never asks whether there
\* is a byte: a frame whose end has not arrived keeps the thread, until memory runs out.
ProcessDataV0(b) ==
  /\ InLoop
  /\ conn[b] = "websocket"
  /\ kind[b] = "v0"
  /\ Unread(b)
  /\ seen' = [seen EXCEPT ![b] = arrived[b]]
  /\ taken' = [taken EXCEPT ![b] = arrived[b]]
  /\ thread' = IF Sent[kind[b]][arrived[b]] = "0xFF" THEN thread ELSE "spinning"
  /\ UNCHANGED <<conn, kind, arrived, header, answer, clientVars, left, hookVars, quitVars, overlapped>>

OutOfMemory ==
  /\ Alive
  /\ thread = "spinning"
  /\ main' = "ended"
  /\ UNCHANGED <<wsServer, thread, clientVars, left, polls, quitVars, overlapped>>

\* Mutant: client is not reset.
DropClientKept ==
  /\ sem' = 0
  /\ deaf' = deaf \cup ({client} \ {None})
  /\ deleting' = deleting \cup ({client} \ {None})
  /\ UNCHANGED client

DropClient ==
  /\ sem' = 0
  /\ client' = None
  /\ deaf' = deaf \cup ({client} \ {None})
  /\ deleting' = deleting \cup ({client} \ {None})

\* Mutant: only the end of the client's connection ends the application.
QuitForClient(b) ==
  /\ quitPosted' = TRUE
  /\ quitNow' = (quitNow \/ (main = "exec" /\ client = b))
  /\ quitLost' = (quitLost \/ main # "exec")

\* disconnected() and qApp->quit(), which exec() forgets when it comes first.
Quit(b) ==
  /\ quitPosted' = TRUE
  /\ quitNow' = (quitNow \/ main = "exec")
  /\ quitLost' = (quitLost \/ main # "exec")

\* onDisconnection of the connection b: it acts on client, whichever connection that is.
\* Without a client, Qt's disconnect and deleteLater of a null pointer warn and do nothing.
OnDisconnection(b) ==
  /\ InLoop
  /\ conn[b] = "websocket"
  /\ b \in left
  /\ b \notin deaf
  /\ ~Unread(b)
  /\ conn' = [conn EXCEPT ![b] = "closed"]
  /\ DropClient
  /\ Quit(b)
  /\ UNCHANGED <<kind, arrived, seen, taken, header, answer, thread, left, hookVars, overlapped>>

\* ~QWsSocket of a connection that is still open aborts it.
DeferredDelete(b) ==
  /\ InLoop
  /\ b \in deleting
  /\ deleting' = deleting \ {b}
  /\ conn' = [conn EXCEPT ![b] = IF @ = "websocket" THEN "dropped" ELSE @]
  /\ UNCHANGED <<kind, arrived, seen, taken, header, answer, thread, sem, client, deaf, left,
                 hookVars, quitVars, overlapped>>

-----------------------------------------------------------------------------
(* The GUI thread: the startup hook, the application, its main loop.       *)

GuiGoes(to) ==
  /\ main' = to
  /\ UNCHANGED <<wsServer, thread, clientVars, left, polls, quitVars, overlapped>>

PortsKnown ==
  /\ main = "ports"
  /\ thread # "off"
  /\ GuiGoes("local")

\* The ports are written to kappstream_init, or exit(-1).
Announce ==
  /\ main = "local"
  /\ \/ GuiGoes("waiting")
     \/ GuiGoes("ended")

\* waitForConnected: looks a second apart, then a last one whose answer counts.
Poll ==
  /\ main = "waiting"
  /\ IF sem = 1 \/ polls = 0
     THEN main' = "last" /\ UNCHANGED polls
     ELSE polls' = polls - 1 /\ UNCHANGED main
  /\ UNCHANGED <<wsServer, thread, clientVars, left, quitVars, overlapped>>

LastLook ==
  /\ main = "last"
  /\ GuiGoes(IF sem = 1 THEN "application" ELSE "ended")

Exec ==
  /\ main = "application"
  /\ GuiGoes("exec")

\* The GUI thread's event loop serves quit() of the thread object.
QuitThread ==
  /\ main = "exec"
  /\ quitPosted
  /\ quitPosted' = FALSE
  /\ thread' = IF thread = "loop" THEN "stopped" ELSE thread
  /\ UNCHANGED <<wsServer, clientVars, left, hookVars, quitNow, quitLost, overlapped>>

MainReturns ==
  /\ main = "exec"
  /\ quitNow
  /\ GuiGoes("ended")

-----------------------------------------------------------------------------
BrowserStep(b) == BrowserConnects(b) \/ BrowserLeaves(b)
ThreadStep(b) ==
  Accept(b) \/ DataReceived(b) \/ ConnectionClosed(b) \/ ProcessDataV0(b) \/ OnDisconnection(b) \/ DeferredDelete(b)
GuiStep == PortsKnown \/ Announce \/ Poll \/ LastLook \/ Exec \/ QuitThread \/ MainReturns

Next ==
  \/ Run
  \/ OutOfMemory
  \/ GuiStep
  \/ \E b \in Browsers : BrowserStep(b) \/ TcpDelivers(b) \/ ThreadStep(b)

\* Threads are scheduled and TCP delivers what was sent; browsers do as they like.
Fairness ==
  /\ WF_vars(Run)
  /\ WF_vars(GuiStep)
  /\ \A b \in Browsers : WF_vars(TcpDelivers(b)) /\ WF_vars(ThreadStep(b))

Spec == Init /\ [][Next]_vars /\ Fairness

-----------------------------------------------------------------------------
(* What must hold.                                                         *)

Modern(b) == kind[b] \in {"v13", "v4"}

\* A request with Sec-WebSocket-Version is accepted however TCP cuts it, as soon as all of it
\* has been looked at, with the answer of its version; and a connection becomes a websocket
\* only if its browser takes the answer for an acceptance (dataReceived, headerBuffer).
WholeRequestsAccepted ==
  \A b \in Browsers :
    /\ conn[b] \in {"tcp", "websocket"} /\ Modern(b) /\ ~Unread(b) /\ arrived[b] = RequestLength[kind[b]]
         => Accepts(kind[b], answer[b])
    /\ conn[b] = "websocket" => Accepts(kind[b], answer[b])

\* The semaphore that the startup hook reads says whether there is a client, and the client is
\* a websocket that nobody is deleting, whatever comes and goes (onConnection,
\* onDisconnection, deleteLater).
ClientIsLive ==
  /\ (sem = 1) <=> (client # None)
  /\ client # None => conn[client] = "websocket" /\ client \notin deaf \cup deleting

\* As long as no websocket was opened before the last one was noticed to be closed, the open
\* one is the client and the server drops none (onConnection overwrites client;
\* onDisconnection deletes it).
AloneIsKept ==
  ~overlapped =>
    \A b \in Browsers : conn[b] # "dropped" /\ (conn[b] = "websocket" => client = b)

\* A browser that speaks a version with Sec-WebSocket-Version and stays is accepted, unless the
\* process ends, a browser left before exec() or a frame of version 0 was cut.
EventuallyServed ==
  \A b \in Browsers :
    (conn[b] = "backlog" /\ Modern(b)) ~>
      (Accepts(kind[b], answer[b]) \/ b \in left \/ ~Alive \/ quitLost \/ thread = "spinning")

\* The application ends once a browser has left, whichever connection was the client, unless
\* one left before exec() or a frame of version 0 was cut (qApp->quit() in onDisconnection).
EndsWithBrowser ==
  \A b \in Browsers :
    (conn[b] = "websocket" /\ b \in left /\ main = "exec") ~> (~Alive \/ quitLost \/ thread = "spinning")

=============================================================================
