----------------------------- MODULE AppLaunch -----------------------------
(***************************************************************************)
(* Starting applications: the HTTP server (src/src/server/HttpServer.cpp), *)
(* the thread that wraps an application's process                          *)
(* (ApplicationWrapperThread.cpp) and the startup hook in that process     *)
(* (src/src/lib/hooking/Probe.cpp), which sends its ports through the      *)
(* local socket kappstream_init.                                           *)
(*                                                                         *)
(* The server is one thread: it serves one request at a time and does not  *)
(* run its event loop meanwhile.  A connection to kappstream_init carries  *)
(* nothing that says for which request its process was started.            *)
(***************************************************************************)
EXTENDS Naturals, Sequences

CONSTANTS
  Requests,  \* requests of browsers, and the processes started for them
  None

ASSUME AppLaunchAssumption == None \notin Requests

\* What arrives: canvas.html with an application that is accepted; another whole line; a
\* piece of a line.
Lines == {"application", "other", "piece"}

VARIABLES
  http,      \* the browser's socket: none, what arrived, closed
  answer,    \* what was written to it
  ports,     \* the process whose ports are in the page
  serving,   \* the request in sendCanvas
  reading,   \* the connection it reads the ports from
  backlog,   \* connections the kernel holds for kappstream_init
  pending,   \* pendingConnections of init_server
  buffered,  \* connections whose data the event loop has read
  proc,      \* the process of a request
  missing,   \* wrappers with _exists = false
  late       \* history: processes that connected when their request was answered

server == <<serving, reading>>
launchVars == <<http, answer, ports, server, backlog, pending, buffered, proc, missing, late>>

\* starting: until the hook connects; connected: until it has sent its ports; announced:
\* it waits for a browser; running: it has one; ended: it had sent its ports; failed:
\* QProcess::FailedToStart; dead: it had not sent them.
ProcStates == {"none", "starting", "connected", "announced", "running", "ended", "failed", "dead"}

HasWritten == {"announced", "running", "ended"}

LaunchTypeOK ==
  /\ http \in [Requests -> Lines \cup {"none", "closed"}]
  /\ answer \in [Requests -> {"none", "other", "page", "missing", "blank"}]
  /\ ports \in [Requests -> Requests \cup {None}]
  /\ serving \in Requests \cup {None}
  /\ reading \in Requests \cup {None}
  /\ backlog \in Seq(Requests)
  /\ pending \in Seq(Requests)
  /\ buffered \subseteq Requests
  /\ proc \in [Requests -> ProcStates]
  /\ missing \subseteq Requests
  /\ late \subseteq Requests
  /\ reading # None => serving # None

LaunchInit ==
  /\ http = [r \in Requests |-> "none"]
  /\ answer = [r \in Requests |-> "none"]
  /\ ports = [r \in Requests |-> None]
  /\ serving = None
  /\ reading = None
  /\ backlog = <<>>
  /\ pending = <<>>
  /\ buffered = {}
  /\ proc = [r \in Requests |-> "none"]
  /\ missing = {}
  /\ late = {}

-----------------------------------------------------------------------------
(* Browsers.                                                               *)

Request(r, line) ==
  /\ http[r] = "none"
  /\ http' = [http EXCEPT ![r] = line]
  /\ UNCHANGED <<answer, ports, server, backlog, pending, buffered, proc, missing, late>>

\* The page opens a websocket to the port that is written in it.
BrowserConnects(r) ==
  /\ http[r] = "closed"
  /\ ports[r] # None
  /\ proc[ports[r]] = "announced"
  /\ proc' = [proc EXCEPT ![ports[r]] = "running"]
  /\ UNCHANGED <<http, answer, ports, server, backlog, pending, buffered, missing, late>>

-----------------------------------------------------------------------------
(* The process of a request.                                               *)

FailsToStart(r) ==
  /\ proc[r] = "starting"
  /\ proc' = [proc EXCEPT ![r] = "failed"]
  /\ UNCHANGED <<http, answer, ports, server, backlog, pending, buffered, missing, late>>

\* The wrapper's run() ends.  Of a crash it notes nothing: _crashed stays false.
WrapperEnds(r) ==
  /\ proc[r] = "failed"
  /\ proc' = [proc EXCEPT ![r] = "dead"]
  /\ missing' = missing \cup {r}
  /\ UNCHANGED <<http, answer, ports, server, backlog, pending, buffered, late>>

\* The hook connects to kappstream_init; the kernel accepts at once.
Connect(r) ==
  /\ proc[r] = "starting"
  /\ proc' = [proc EXCEPT ![r] = "connected"]
  /\ backlog' = Append(backlog, r)
  /\ late' = IF serving = r THEN late ELSE late \cup {r}
  /\ UNCHANGED <<http, answer, ports, server, pending, buffered, missing>>

\* It writes both ports in one piece and closes.
Announce(r) ==
  /\ proc[r] = "connected"
  /\ proc' = [proc EXCEPT ![r] = "announced"]
  /\ UNCHANGED <<http, answer, ports, server, backlog, pending, buffered, missing, late>>

\* exit(-1) of the hook, which could not connect or write or got no browser; a crash; the
\* end of the application.
Ends(r) ==
  /\ proc[r] \in {"starting", "connected", "announced", "running"}
  /\ proc' = [proc EXCEPT ![r] = IF proc[r] \in HasWritten THEN "ended" ELSE "dead"]
  /\ UNCHANGED <<http, answer, ports, server, backlog, pending, buffered, missing, late>>

-----------------------------------------------------------------------------
(* The server.                                                             *)

\* readClient: a piece of a line is answered with nothing, index.html, a rejection or 400
\* at once, an application by starting it.
ReadClient(r) ==
  /\ serving = None
  /\ http[r] \in Lines
  /\ IF http[r] = "application"
     THEN /\ serving' = r
          /\ proc' = [proc EXCEPT ![r] = "starting"]
          /\ UNCHANGED <<http, answer>>
     ELSE /\ answer' = [answer EXCEPT ![r] = IF http[r] = "other" THEN "other" ELSE "none"]
          /\ http' = [http EXCEPT ![r] = "closed"]
          /\ UNCHANGED <<serving, proc>>
  /\ UNCHANGED <<ports, reading, backlog, pending, buffered, missing, late>>

\* nextPendingConnection.
Take(connections) ==
  /\ connections # <<>>
  /\ reading' = Head(connections)
  /\ pending' = Tail(connections)

\* waitForNewConnection accepts one connection and finds a connection pending.
NewConnection ==
  /\ serving # None
  /\ reading = None
  /\ backlog # <<>>
  /\ backlog' = Tail(backlog)
  /\ Take(Append(pending, Head(backlog)))
  /\ UNCHANGED <<http, answer, ports, serving, buffered, proc, missing, late>>

\* The ten seconds are over, and there is a connection from before.
TakeOldConnection ==
  /\ serving # None
  /\ reading = None
  /\ backlog = <<>>
  /\ Take(pending)
  /\ UNCHANGED <<http, answer, ports, serving, backlog, buffered, proc, missing, late>>

\* What sendCanvas writes after the header when it has no ports.
Failure(r) == IF r \in missing THEN "missing" ELSE "blank"

\* Mutant: the connection to the process is kept for the next request.
CloseSocketMutant(text) ==
  /\ answer' = [answer EXCEPT ![serving] = text]
  /\ http' = [http EXCEPT ![serving] = "closed"]
  /\ serving' = None
  /\ reading' = reading

\* readClient closes the browser's socket.
CloseSocket(text) ==
  /\ answer' = [answer EXCEPT ![serving] = text]
  /\ http' = [http EXCEPT ![serving] = "closed"]
  /\ serving' = None
  /\ reading' = None

\* Mutant: a connection that is not yet accepted is forgotten when the time is over.
NoConnectionMutant ==
  /\ serving # None
  /\ reading = None
  /\ pending = <<>>
  /\ CloseSocket(Failure(serving))
  /\ UNCHANGED <<ports, backlog, pending, buffered, proc, missing, late>>

NoConnection ==
  /\ serving # None
  /\ reading = None
  /\ backlog = <<>>
  /\ pending = <<>>
  /\ CloseSocket(Failure(serving))
  /\ UNCHANGED <<ports, backlog, pending, buffered, proc, missing, late>>

\* waitForReadyRead finds data; the process may have ended since it wrote them.
ReadPorts ==
  /\ reading # None
  /\ reading \notin buffered
  /\ proc[reading] \in HasWritten
  /\ ports' = [ports EXCEPT ![serving] = reading]
  /\ CloseSocket("page")
  /\ UNCHANGED <<backlog, pending, buffered, proc, missing, late>>

\* Mutant: it waits without a limit.
ReadFailsMutant ==
  /\ reading # None
  /\ reading \in buffered \/ proc[reading] = "dead"
  /\ CloseSocket(Failure(serving))
  /\ UNCHANGED <<ports, backlog, pending, buffered, proc, missing, late>>

\* waitForReadyRead fails: the event loop has read the data before, the process ended
\* without writing, or thirty seconds are over.
ReadFails ==
  /\ reading # None
  /\ reading \in buffered \/ proc[reading] \notin HasWritten
  /\ CloseSocket(Failure(serving))
  /\ UNCHANGED <<ports, backlog, pending, buffered, proc, missing, late>>

\* Between requests the event loop accepts connections and reads from them.
AcceptIdle ==
  /\ serving = None
  /\ backlog # <<>>
  /\ pending' = Append(pending, Head(backlog))
  /\ backlog' = Tail(backlog)
  /\ UNCHANGED <<http, answer, ports, server, buffered, proc, missing, late>>

ReadIdle ==
  /\ serving = None
  /\ \E i \in DOMAIN pending :
       /\ proc[pending[i]] \in HasWritten
       /\ buffered' = buffered \cup {pending[i]}
  /\ UNCHANGED <<http, answer, ports, server, backlog, pending, proc, missing, late>>

SendCanvas == NewConnection \/ TakeOldConnection \/ NoConnection \/ ReadPorts \/ ReadFails

-----------------------------------------------------------------------------

LaunchNext ==
  \/ \E r \in Requests :
       \/ \E line \in Lines : Request(r, line)
       \/ BrowserConnects(r)
       \/ ReadClient(r)
       \/ FailsToStart(r) \/ WrapperEnds(r) \/ Connect(r) \/ Announce(r) \/ Ends(r)
  \/ SendCanvas
  \/ AcceptIdle
  \/ ReadIdle

LaunchSpec == LaunchInit /\ [][LaunchNext]_launchVars

\* The event loop takes every request; each of the server's waits has an end.  Nothing
\* is assumed of the processes.
LaunchFairness ==
  /\ WF_launchVars(\E r \in Requests : ReadClient(r))
  /\ WF_launchVars(SendCanvas)

LaunchFairSpec == LaunchSpec /\ LaunchFairness

-----------------------------------------------------------------------------
(* Correctness.                                                            *)

\* As long as no process connected after its request was answered, every page has the
\* ports of the process that was started for it, whatever processes failed, died, or
\* connected and wrote nothing before (sendCanvas: one connection is taken for each one
\* that comes in time).
PromptPagesMatch ==
  late = {} => \A r \in Requests : ports[r] \in {r, None}

\* The ports of a process are in one page at most, however late it was.
OnePagePerProcess ==
  \A r, s \in Requests : ports[r] = ports[s] /\ ports[r] # None => r = s

\* Every request has its socket closed, also when its process hangs, and when connections
\* of other processes are found in its place.
EveryRequestAnswered ==
  \A r \in Requests : http[r] \in Lines ~> http[r] = "closed"

\* What the documents promise, and what does not hold: the page has the ports of the
\* application it asked for.
PagesMatch == \A r \in Requests : ports[r] \in {r, None}

=============================================================================
