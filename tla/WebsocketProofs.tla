--------------------------- MODULE WebsocketProofs ---------------------------
(***************************************************************************)
(* The websocket, from the handshake to the last frame.  Session: for any  *)
(* set of browsers and whatever they send, the semaphore, the client and   *)
(* the connections agree (ClientIsLive), a connection that was never open  *)
(* together with another is kept (AloneIsKept), and a request is           *)
(* understood however it is cut (WholeRequestsAccepted).  QWsSocket: for   *)
(* any messages and keys, and wherever TCP cuts the bytes, messages come   *)
(* in their order, unmasked and whole (ReceivedInOrder), the browser reads *)
(* every message of the application once and whole (BrowserReadsMessages), *)
(* and the end of the websocket is told once (DisconnectedOnce).           *)
(***************************************************************************)
EXTENDS Session, QWsSocket, QueuesProofs, TLAPS

-----------------------------------------------------------------------------
(* Who is the client.                                                      *)

Connections == {"none", "backlog", "tcp", "websocket", "closed", "dropped"}

\* What the two properties need of the types.
Shapes ==
  /\ conn \in [Browsers -> Connections]
  /\ sem \in {0, 1}
  /\ client \in Browsers \cup {None}
  /\ deaf \subseteq Browsers
  /\ deleting \subseteq deaf

\* A connection that onDisconnection has touched was a websocket.
DeafWereOpen == \A b \in deaf : conn[b] \in {"websocket", "closed", "dropped"}

IInv == Shapes /\ DeafWereOpen /\ ClientIsLive /\ AloneIsKept

\* The steps that touch none of the variables the invariant speaks of.
Idle == UNCHANGED <<conn, sem, client, deaf, deleting, overlapped>>

LEMMA IInvInit == Init => IInv
  BY SessionAssumption
  DEF Init, InitServer, IInv, Shapes, Connections, DeafWereOpen, ClientIsLive, AloneIsKept

LEMMA IdleKeeps == IInv /\ Idle => IInv'
  BY DEF IInv, Idle, Shapes, DeafWereOpen, ClientIsLive, AloneIsKept

\* Steps of a connection that neither make nor end a websocket.
LEMMA QuietKeeps ==
  ASSUME NEW b \in Browsers, NEW to \in {"backlog", "tcp", "closed"}, IInv,
         conn[b] \in {"none", "backlog", "tcp"},
         conn' = [conn EXCEPT ![b] = to],
         UNCHANGED <<sem, client, deaf, deleting, overlapped>>
  PROVE  IInv'
<1>1. Shapes'
  BY DEF IInv, Shapes, Connections
<1>2. b \notin deaf
  BY DEF IInv, Shapes, DeafWereOpen
<1>3. DeafWereOpen'
  BY <1>2 DEF IInv, Shapes, DeafWereOpen
<1>4. ClientIsLive'
  BY SessionAssumption DEF IInv, Shapes, ClientIsLive
<1>5. AloneIsKept'
  BY DEF IInv, Shapes, AloneIsKept
<1> QED BY <1>1, <1>3, <1>4, <1>5 DEF IInv

LEMMA HandshakeKeeps ==
  ASSUME NEW b \in Browsers, IInv, Handshake(b), OnConnection(b),
         overlapped' = (overlapped \/ \E c \in Browsers \ {b} : conn[c] = "websocket")
  PROVE  IInv'
<1>1. conn[b] = "tcp" /\ conn' = [conn EXCEPT ![b] = "websocket"]
  BY DEF Handshake
<1>2. client' = b /\ sem' = 1 /\ deaf' = deaf /\ deleting' = deleting
  BY DEF OnConnection
<1>3. b \notin deaf /\ b \notin deleting
  BY <1>1 DEF IInv, Shapes, DeafWereOpen
<1>4. Shapes'
  BY <1>1, <1>2 DEF IInv, Shapes, Connections
<1>5. DeafWereOpen'
  BY <1>1, <1>2, <1>3 DEF IInv, Shapes, DeafWereOpen
<1>6. ClientIsLive'
  BY <1>1, <1>2, <1>3, SessionAssumption DEF IInv, Shapes, ClientIsLive
<1>7. ASSUME ~overlapped', NEW c \in Browsers
      PROVE  conn'[c] # "dropped" /\ (conn'[c] = "websocket" => client' = c)
  <2>1. ~overlapped /\ (c # b => conn[c] # "websocket")
    BY <1>7
  <2> QED BY <2>1, <1>1, <1>2 DEF IInv, Shapes, AloneIsKept
<1>8. AloneIsKept'
  BY <1>7 DEF AloneIsKept
<1> QED BY <1>4, <1>5, <1>6, <1>8 DEF IInv

LEMMA DisconnectionKeeps ==
  ASSUME NEW b \in Browsers, IInv, OnDisconnection(b)
  PROVE  IInv'
<1>1. conn[b] = "websocket" /\ conn' = [conn EXCEPT ![b] = "closed"] /\ sem' = 0 /\ client' = None
      /\ overlapped' = overlapped
  BY DEF OnDisconnection, DropClient
<1>2. deaf' = deaf \cup ({client} \ {None}) /\ deleting' = deleting \cup ({client} \ {None})
  BY DEF OnDisconnection, DropClient
<1>3. Shapes'
  BY <1>1, <1>2 DEF IInv, Shapes, Connections
<1>4. DeafWereOpen'
  BY <1>1, <1>2 DEF IInv, Shapes, DeafWereOpen, ClientIsLive
<1>5. ClientIsLive'
  BY <1>1 DEF ClientIsLive
<1>6. ASSUME ~overlapped', NEW c \in Browsers
      PROVE  conn'[c] # "dropped" /\ (conn'[c] = "websocket" => client' = c)
  <2>1. client = b /\ conn[c] # "dropped" /\ (conn[c] = "websocket" => client = c)
    BY <1>1, <1>6 DEF IInv, AloneIsKept
  <2> QED BY <2>1, <1>1 DEF IInv, Shapes
<1>7. AloneIsKept'
  BY <1>6 DEF AloneIsKept
<1> QED BY <1>3, <1>4, <1>5, <1>7 DEF IInv

LEMMA DeleteKeeps ==
  ASSUME NEW b \in Browsers, IInv, DeferredDelete(b)
  PROVE  IInv'
<1>1. /\ b \in deleting
      /\ deleting' = deleting \ {b}
      /\ conn' = [conn EXCEPT ![b] = IF @ = "websocket" THEN "dropped" ELSE @]
      /\ UNCHANGED <<sem, client, deaf, overlapped>>
  BY DEF DeferredDelete
<1>2. Shapes'
  BY <1>1 DEF IInv, Shapes, Connections
<1>3. client # b
  BY <1>1, SessionAssumption DEF IInv, ClientIsLive
<1>4. DeafWereOpen'
  BY <1>1 DEF IInv, Shapes, DeafWereOpen
<1>5. ClientIsLive'
  BY <1>1, <1>3, SessionAssumption DEF IInv, Shapes, ClientIsLive
<1>6. ASSUME ~overlapped
      PROVE  conn[b] # "websocket"
  BY <1>6, <1>3 DEF IInv, AloneIsKept
<1>7. AloneIsKept'
  BY <1>1, <1>6 DEF IInv, Shapes, AloneIsKept
<1> QED BY <1>2, <1>4, <1>5, <1>7 DEF IInv

LEMMA IInvStep == IInv /\ [Next]_vars => IInv'
<1> SUFFICES ASSUME IInv, [Next]_vars PROVE IInv'
  OBVIOUS
<1>1. CASE Run \/ OutOfMemory \/ GuiStep
  <2>1. Idle
    BY <1>1 DEF Idle, Run, OutOfMemory, GuiStep, PortsKnown, Announce, Poll, LastLook, Exec, QuitThread,
                MainReturns, GuiGoes, wsServer, clientVars
  <2> QED BY <2>1, IdleKeeps
<1>2. ASSUME NEW b \in Browsers, BrowserStep(b) \/ TcpDelivers(b) \/ ThreadStep(b)
      PROVE  IInv'
  <2>1. CASE BrowserConnects(b)
    BY <2>1, QuietKeeps DEF BrowserConnects, Connect, sessionVars, clientVars
  <2>2. CASE BrowserLeaves(b) \/ TcpDelivers(b) \/ ProcessDataV0(b)
    <3>1. Idle
      BY <2>2 DEF Idle, BrowserLeaves, TcpDelivers, ProcessDataV0, Segment, wsServer, sessionVars, clientVars
    <3> QED BY <3>1, IdleKeeps
  <2>3. CASE Accept(b)
    BY <2>3, QuietKeeps DEF Accept, NewTcpConnection, sessionVars, clientVars
  <2>4. CASE DataReceived(b)
    <3>1. CASE (NotFetched(b) \/ BadRequest(b)) /\ UNCHANGED sessionVars
      <4>1. Idle
        BY <3>1 DEF Idle, NotFetched, BadRequest, sessionVars, clientVars
      <4> QED BY <4>1, IdleKeeps
    <3>2. CASE /\ Handshake(b) /\ OnConnection(b)
               /\ overlapped' = (overlapped \/ \E c \in Browsers \ {b} : conn[c] = "websocket")
      BY <3>2, HandshakeKeeps
    <3> QED BY <2>4, <3>1, <3>2 DEF DataReceived
  <2>5. CASE ConnectionClosed(b)
    BY <2>5, QuietKeeps DEF ConnectionClosed, sessionVars, clientVars
  <2>6. CASE OnDisconnection(b)
    BY <2>6, DisconnectionKeeps
  <2>7. CASE DeferredDelete(b)
    BY <2>7, DeleteKeeps
  <2> QED BY <1>2, <2>1, <2>2, <2>3, <2>4, <2>5, <2>6, <2>7 DEF BrowserStep, ThreadStep
<1>3. CASE UNCHANGED vars
  <2>1. Idle
    BY <1>3 DEF Idle, vars, wsServer, sessionVars, clientVars
  <2> QED BY <2>1, IdleKeeps
<1> QED BY <1>1, <1>2, <1>3 DEF Next

LEMMA AlwaysIInv == Spec => []IInv
  BY IInvInit, IInvStep, PTL DEF Spec

\* The semaphore that the startup hook reads, the client and its connection agree at every
\* step (WebsocketServer::onConnection, onDisconnection).
THEOREM ClientAlwaysLive == Spec => []ClientIsLive
<1>1. IInv => ClientIsLive
  BY DEF IInv
<1> QED BY AlwaysIInv, <1>1, PTL

\* However many browsers come one after the other, none is dropped by the server and the open
\* one is the client (WebsocketServer::onConnection, onDisconnection).
THEOREM AloneAlwaysKept == Spec => []AloneIsKept
<1>1. IInv => AloneIsKept
  BY DEF IInv
<1> QED BY AlwaysIInv, <1>1, PTL

-----------------------------------------------------------------------------
(* The opening handshake.                                                  *)

Lines(k) == {Sent[k][i] : i \in 1 .. EmptyLine[k]} \ {"empty"}

LEMMA Requests ==
  /\ DOMAIN Sent = {"v13", "v4", "v0", "plain"}
  /\ EmptyLine \in [DOMAIN Sent -> Nat \ {0}]
  /\ EmptyLine["v13"] = 5 /\ EmptyLine["v4"] = 5 /\ EmptyLine["v0"] = 5 /\ EmptyLine["plain"] = 3
  /\ RequestLength["v13"] = 5 /\ RequestLength["v4"] = 5
  /\ Len(Sent["v13"]) = 5 /\ Len(Sent["v4"]) = 5
<1>1. DOMAIN Sent = {"v13", "v4", "v0", "plain"}
  BY DEF Sent
<1>2. DOMAIN EmptyLine = DOMAIN Sent
  BY DEF EmptyLine
<1>3. EmptyLine["v13"] = 5 /\ EmptyLine["v4"] = 5
  <2>1. \A i \in DOMAIN Sent["v13"] : Sent["v13"][i] = "empty" <=> i = 5
    BY DEF Sent
  <2>2. \A i \in DOMAIN Sent["v4"] : Sent["v4"][i] = "empty" <=> i = 5
    BY DEF Sent
  <2>3. 5 \in DOMAIN Sent["v13"] /\ 5 \in DOMAIN Sent["v4"]
    BY DEF Sent
  <2> QED BY <1>1, <2>1, <2>2, <2>3 DEF EmptyLine
<1>4. EmptyLine["v0"] = 5
  <2>1. \A i \in DOMAIN Sent["v0"] : Sent["v0"][i] = "empty" <=> i = 5
    BY DEF Sent
  <2>2. 5 \in DOMAIN Sent["v0"]
    BY DEF Sent
  <2> QED BY <1>1, <2>1, <2>2 DEF EmptyLine
<1>5. EmptyLine["plain"] = 3
  <2>1. \A i \in DOMAIN Sent["plain"] : Sent["plain"][i] = "empty" <=> i = 3
    BY DEF Sent
  <2>2. 3 \in DOMAIN Sent["plain"]
    BY DEF Sent
  <2> QED BY <1>1, <2>1, <2>2 DEF EmptyLine
<1>6. EmptyLine \in [DOMAIN Sent -> Nat \ {0}]
  <2>1. \A k \in DOMAIN Sent : EmptyLine[k] \in Nat \ {0}
    BY <1>1, <1>3, <1>4, <1>5
  <2> QED BY <2>1 DEF EmptyLine
<1>7. RequestLength["v13"] = 5 /\ RequestLength["v4"] = 5
  BY <1>1, <1>2, <1>3 DEF RequestLength
<1>8. Len(Sent["v13"]) = 5 /\ Len(Sent["v4"]) = 5
  BY DEF Sent
<1> QED BY <1>1, <1>3, <1>4, <1>5, <1>6, <1>7, <1>8

LEMMA LinesOf ==
  /\ Lines("v13") = {"GET", "Host", "Key", "Version"}
  /\ Lines("v4") = {"GET", "Host", "Key", "Version"}
  /\ Lines("v0") = {"GET", "Host", "Key1", "Key2"}
  /\ Lines("plain") = {"GET", "Host"}
<1>1. Lines("v13") = {"GET", "Host", "Key", "Version"}
  <2>1. Lines("v13") = {Sent["v13"][i] : i \in {1, 2, 3, 4, 5}} \ {"empty"}
    BY Requests DEF Lines
  <2> QED BY <2>1 DEF Sent
<1>2. Lines("v4") = {"GET", "Host", "Key", "Version"}
  <2>1. Lines("v4") = {Sent["v4"][i] : i \in {1, 2, 3, 4, 5}} \ {"empty"}
    BY Requests DEF Lines
  <2> QED BY <2>1 DEF Sent
<1>3. Lines("v0") = {"GET", "Host", "Key1", "Key2"}
  <2>1. Lines("v0") = {Sent["v0"][i] : i \in {1, 2, 3, 4, 5}} \ {"empty"}
    BY Requests DEF Lines
  <2> QED BY <2>1 DEF Sent
<1>4. Lines("plain") = {"GET", "Host"}
  <2>1. Lines("plain") = {Sent["plain"][i] : i \in {1, 2, 3}} \ {"empty"}
    BY Requests DEF Lines
  <2> QED BY <2>1 DEF Sent
<1> QED BY <1>1, <1>2, <1>3, <1>4

\* What the answers are worth.
LEMMA Answers ==
  /\ Accepts("v13", Response(WS_V13))
  /\ Accepts("v4", Response(WS_V4))
  /\ Accepts("v0", Response(WS_V0))
  BY DEF Accepts, Response, ResponseV0, ResponseV4, ResponseV6, WS_V0, WS_V4, WS_V6, WS_V13

\* Of the lines of a request, those that have been read, up to the empty line.
Collected(b) == {Sent[kind[b]][i] : i \in 1 .. taken[b]} \ {"empty"}

Understood(b) ==
  /\ header[b] \subseteq Lines(kind[b])
  /\ Modern(b) => arrived[b] <= 5
  /\ conn[b] \in {"none", "backlog"} => seen[b] = 0 /\ taken[b] = 0
  /\ conn[b] = "tcp" /\ Modern(b) => taken[b] = seen[b] /\ seen[b] < 5 /\ header[b] = Collected(b)
  /\ conn[b] = "websocket" => Accepts(kind[b], answer[b])

HInv == TypeOKServer /\ \A b \in Browsers : Understood(b)

LEMMA HInvInit == Init => HInv
<1> SUFFICES ASSUME Init PROVE HInv
  OBVIOUS
<1>1. TypeOKServer
  BY DEF Init, InitServer, TypeOKServer
<1>2. ASSUME NEW b \in Browsers PROVE Understood(b)
  BY DEF Init, InitServer, Understood
<1> QED BY <1>1, <1>2 DEF HInv

\* A step of one connection.
LEMMA Elsewhere ==
  ASSUME NEW b \in Browsers, HInv, TypeOKServer', Understood(b)',
         \A c \in Browsers \ {b} :
           /\ conn'[c] = conn[c] /\ kind'[c] = kind[c] /\ arrived'[c] = arrived[c] /\ seen'[c] = seen[c]
           /\ taken'[c] = taken[c] /\ header'[c] = header[c] /\ answer'[c] = answer[c]
  PROVE  HInv'
<1>1. ASSUME NEW c \in Browsers \ {b} PROVE Understood(c)'
  BY <1>1 DEF HInv, Understood, Modern, Collected
<1> QED BY <1>1 DEF HInv

LEMMA HeaderFromRequest ==
  ASSUME NEW b \in Browsers, HInv
  PROVE  HeaderRead(b) \subseteq Lines(kind[b])
<1>1. taken[b] \in Nat /\ kind[b] \in DOMAIN Sent /\ header[b] \subseteq Lines(kind[b])
  BY DEF HInv, TypeOKServer, Understood
<1>2. LinesRead(b) \subseteq 1 .. EmptyLine[kind[b]]
  BY <1>1, Requests DEF HInv, TypeOKServer, LinesRead
<1> QED BY <1>1, <1>2 DEF HeaderRead, Lines

LEMMA VersionRead ==
  ASSUME NEW b \in Browsers, HInv
  PROVE  /\ Version(b) = WS_V0 => arrived[b] > EmptyLine[kind[b]]
         /\ ~Modern(b) => Version(b) \in {WS_V0, WS_VUnknow}
<1>1. kind[b] \in {"v13", "v4", "v0", "plain"}
  BY Requests DEF HInv, TypeOKServer
<1>2. ~Modern(b) => "Version" \notin HeaderRead(b)
  BY <1>1, HeaderFromRequest, LinesOf DEF Modern
<1>3. Modern(b) /\ "Version" \in HeaderRead(b) => Version(b) # WS_V0
  BY DEF Modern, Version, Offered, WS_V0, WS_V4, WS_V13
<1> QED BY <1>2, <1>3 DEF Version, Key3Available, WS_V0, WS_VUnknow

LEMMA TakeKeepsTypes ==
  ASSUME NEW b \in Browsers, HInv, Take(b), UNCHANGED <<kind, arrived>>
  PROVE  /\ seen' \in [Browsers -> Nat] /\ taken' \in [Browsers -> Nat]
         /\ header' \in [Browsers -> SUBSET {"GET", "Host", "Key", "Key1", "Key2", "Version"}]
         /\ \A c \in Browsers : taken'[c] <= seen'[c] /\ seen'[c] <= arrived'[c]
<1> DEFINE t == IF LinesRead(b) = {} THEN taken[b]
                ELSE IF ~AllHeadersFetched(b) THEN arrived[b]
                ELSE IF Version(b) = WS_V0 THEN EmptyLine[kind[b]] + 1
                ELSE EmptyLine[kind[b]]
<1>1. /\ kind[b] \in DOMAIN Sent /\ arrived[b] \in Nat /\ seen[b] \in Nat /\ taken[b] \in Nat
      /\ taken[b] <= seen[b] /\ seen[b] <= arrived[b]
  BY DEF HInv, TypeOKServer
<1>2. EmptyLine[kind[b]] \in Nat
  BY <1>1, Requests
<1>3. t \in Nat /\ t <= arrived[b]
  <2>1. CASE LinesRead(b) = {} \/ ~AllHeadersFetched(b)
    BY <1>1, <2>1
  <2>2. CASE LinesRead(b) # {} /\ AllHeadersFetched(b)
    <3>1. EmptyLine[kind[b]] <= arrived[b]
      BY <1>1, <1>2, <2>2 DEF AllHeadersFetched, LinesRead
    <3>2. Version(b) = WS_V0 => EmptyLine[kind[b]] + 1 <= arrived[b]
      BY <1>1, <1>2, VersionRead
    <3> QED BY <1>2, <2>2, <3>1, <3>2
  <2> QED BY <2>1, <2>2
<1>4. taken' = [taken EXCEPT ![b] = t] /\ seen' = [seen EXCEPT ![b] = arrived[b]]
      /\ header' = [header EXCEPT ![b] = HeaderRead(b)]
  BY DEF Take
<1>5. HeaderRead(b) \subseteq {"GET", "Host", "Key", "Key1", "Key2", "Version"}
  BY <1>1, HeaderFromRequest, LinesOf, Requests
<1>6. header' \in [Browsers -> SUBSET {"GET", "Host", "Key", "Key1", "Key2", "Version"}]
  BY <1>4, <1>5 DEF HInv, TypeOKServer
<1> HIDE DEF t
<1>7. seen' \in [Browsers -> Nat] /\ taken' \in [Browsers -> Nat]
  BY <1>1, <1>3, <1>4 DEF HInv, TypeOKServer
<1>8. \A c \in Browsers : taken'[c] <= seen'[c] /\ seen'[c] <= arrived'[c]
  BY <1>1, <1>3, <1>4 DEF HInv, TypeOKServer
<1> QED BY <1>6, <1>7, <1>8

\* The loop of dataReceived stops at the empty line with every line of the request.
LEMMA AllCollected ==
  ASSUME NEW b \in Browsers, HInv, conn[b] = "tcp", Modern(b), AllHeadersFetched(b)
  PROVE  MandatoryFields(b) /\ Accepts(kind[b], Response(Version(b)))
<1>1. /\ taken[b] \in Nat /\ taken[b] < 5 /\ arrived[b] \in Nat /\ arrived[b] = 5
      /\ header[b] = Collected(b) /\ kind[b] \in {"v13", "v4"}
  BY Requests DEF HInv, TypeOKServer, Understood, Modern, AllHeadersFetched, LinesRead
<1>2. EmptyLine[kind[b]] = 5
  BY <1>1, Requests
<1>3. LinesRead(b) = taken[b] + 1 .. 5
  BY <1>1, <1>2 DEF LinesRead
<1>4. (1 .. taken[b]) \cup (taken[b] + 1 .. 5) = 1 .. 5
  BY <1>1
<1>5. HeaderRead(b) = Lines(kind[b])
  BY <1>1, <1>2, <1>3, <1>4 DEF HeaderRead, Collected, Lines
<1>6. HeaderRead(b) = {"GET", "Host", "Key", "Version"}
  BY <1>1, <1>5, LinesOf
<1>7. Version(b) = IF kind[b] = "v13" THEN WS_V13 ELSE WS_V4
  BY <1>1, <1>6 DEF Version, Offered
<1>8. MandatoryFields(b)
  BY <1>6, <1>7 DEF MandatoryFields, WS_VUnknow, WS_V4, WS_V13
<1> QED BY <1>1, <1>7, <1>8, Answers

\* Without a version field, the answer of version 0 is for those who sent its keys.
LEMMA KeysOfV0 ==
  ASSUME NEW b \in Browsers, HInv, ~Modern(b), MandatoryFields(b)
  PROVE  Accepts(kind[b], Response(Version(b)))
<1>1. Version(b) = WS_V0
  BY VersionRead DEF MandatoryFields
<1>2. {"Key1", "Key2"} \subseteq Lines(kind[b])
  BY <1>1, HeaderFromRequest DEF MandatoryFields, WS_V0, WS_V4
<1>3. kind[b] = "v0"
  BY <1>2, LinesOf, Requests DEF HInv, TypeOKServer, Modern
<1> QED BY <1>1, <1>3, Answers

LEMMA ConnectUnderstood == ASSUME NEW b \in Browsers, HInv, Connect(b) PROVE HInv'
<1>1. TypeOKServer'
  BY DEF Connect, HInv, TypeOKServer
<1>2. Understood(b)'
  BY DEF Connect, HInv, TypeOKServer, Understood, Modern, Collected
<1> QED BY <1>1, <1>2, Elsewhere DEF Connect, HInv, TypeOKServer

LEMMA SegmentUnderstood == ASSUME NEW b \in Browsers, HInv, Segment(b) PROVE HInv'
<1>1. PICK n \in arrived[b] + 1 .. Len(Sent[kind[b]]) : arrived' = [arrived EXCEPT ![b] = n]
  BY DEF Segment
<1>2. arrived[b] \in Nat /\ kind[b] \in DOMAIN Sent /\ UNCHANGED <<conn, kind, seen, taken, header, answer>>
  BY DEF Segment, HInv, TypeOKServer
<1>3. n \in Nat /\ arrived[b] <= n
  BY <1>1, <1>2
<1>4. ASSUME Modern(b) PROVE n <= 5
  <2>1. Len(Sent[kind[b]]) = 5
    BY <1>4, Requests DEF Modern
  <2>2. n \in arrived[b] + 1 .. 5
    BY <2>1
  <2> QED BY <1>2, <2>2
<1>5. TypeOKServer'
  BY <1>1, <1>2, <1>3 DEF HInv, TypeOKServer
<1>6. Understood(b)'
  <2>1. arrived'[b] = n
    BY <1>1, <1>2 DEF HInv, TypeOKServer
  <2> QED BY <1>2, <1>4, <2>1 DEF HInv, Understood, Modern, Collected
<1>7. \A c \in Browsers \ {b} : arrived'[c] = arrived[c]
  BY <1>1 DEF HInv, TypeOKServer
<1> QED BY <1>2, <1>5, <1>6, <1>7, Elsewhere

LEMMA NewTcpUnderstood == ASSUME NEW b \in Browsers, HInv, NewTcpConnection(b) PROVE HInv'
<1>1. /\ conn[b] = "backlog" /\ conn' = [conn EXCEPT ![b] = "tcp"]
      /\ header' = [header EXCEPT ![b] = {}]
      /\ UNCHANGED <<kind, arrived, seen, taken, answer>>
  BY DEF NewTcpConnection
<1>2. TypeOKServer'
  BY <1>1 DEF HInv, TypeOKServer
<1>3. Understood(b)'
  <2>1. taken[b] = 0 /\ seen[b] = 0 /\ taken'[b] = 0 /\ header'[b] = {} /\ conn'[b] = "tcp"
    BY <1>1 DEF HInv, TypeOKServer, Understood
  <2>2. Collected(b)' = {}
    BY <2>1 DEF Collected
  <2> QED BY <1>1, <2>1, <2>2 DEF HInv, Understood, Modern
<1> QED BY <1>1, <1>2, <1>3, Elsewhere DEF HInv, TypeOKServer

LEMMA NotFetchedUnderstood == ASSUME NEW b \in Browsers, HInv, NotFetched(b) PROVE HInv'
<1>1. conn[b] = "tcp" /\ ~AllHeadersFetched(b) /\ Take(b) /\ UNCHANGED <<conn, kind, arrived, answer>>
      /\ seen[b] < arrived[b]
  BY DEF NotFetched, Unread
<1>2. TypeOKServer'
  BY <1>1, TakeKeepsTypes DEF HInv, TypeOKServer
<1>3. header'[b] = HeaderRead(b) /\ seen'[b] = arrived[b]
  BY <1>1 DEF Take, HInv, TypeOKServer
<1>4. ASSUME Modern(b) PROVE Understood(b)'
  <2>1. /\ taken[b] \in Nat /\ taken[b] = seen[b] /\ taken[b] < 5 /\ arrived[b] \in Nat /\ arrived[b] <= 5
        /\ header[b] = Collected(b) /\ kind[b] \in {"v13", "v4"} /\ taken[b] < arrived[b]
    BY <1>1, <1>4 DEF HInv, TypeOKServer, Understood, Modern
  <2>2. EmptyLine[kind[b]] = 5
    BY <2>1, Requests
  <2>3. LinesRead(b) = taken[b] + 1 .. arrived[b]
    BY <2>1, <2>2 DEF LinesRead
  <2>4. arrived[b] < 5 /\ LinesRead(b) # {}
    BY <1>1, <2>1, <2>2, <2>3 DEF AllHeadersFetched
  <2>5. taken'[b] = arrived[b]
    BY <1>1, <2>4 DEF Take, HInv, TypeOKServer
  <2>6. (1 .. taken[b]) \cup (taken[b] + 1 .. arrived[b]) = 1 .. arrived[b]
    BY <2>1
  <2>7. HeaderRead(b) = {Sent[kind[b]][i] : i \in 1 .. arrived[b]} \ {"empty"}
    BY <2>1, <2>3, <2>6 DEF HeaderRead, Collected
  <2>8. header'[b] = Collected(b)'
    BY <1>1, <1>3, <2>5, <2>7 DEF Collected
  <2>9. header'[b] \subseteq Lines(kind'[b])
    BY <1>1, <1>3, HeaderFromRequest
  <2>10. conn'[b] = "tcp" /\ arrived'[b] < 5 /\ arrived'[b] <= 5 /\ seen'[b] = arrived[b]
    BY <1>1, <1>3, <2>1, <2>4
  <2> QED BY <1>1, <2>4, <2>5, <2>8, <2>9, <2>10 DEF Understood
<1>5. ASSUME ~Modern(b) PROVE Understood(b)'
  BY <1>1, <1>3, <1>5, HeaderFromRequest DEF Understood, Modern
<1>6. \A c \in Browsers \ {b} : seen'[c] = seen[c] /\ taken'[c] = taken[c] /\ header'[c] = header[c]
  BY <1>1 DEF Take, HInv, TypeOKServer
<1> QED BY <1>1, <1>2, <1>4, <1>5, <1>6, Elsewhere

LEMMA BadRequestUnderstood == ASSUME NEW b \in Browsers, HInv, BadRequest(b) PROVE HInv'
<1>1. /\ conn[b] = "tcp" /\ AllHeadersFetched(b) /\ ~MandatoryFields(b) /\ Take(b)
      /\ UNCHANGED <<conn, kind, arrived>> /\ answer' = [answer EXCEPT ![b] = BadRequestResponse]
  BY DEF BadRequest
<1>2. ~Modern(b)
  BY <1>1, AllCollected
<1>3. answer' \in [Browsers -> {NoAnswer, BadRequestResponse, ResponseV0, ResponseV4, ResponseV6}]
  BY <1>1 DEF HInv, TypeOKServer
<1>4. TypeOKServer'
  BY <1>1, <1>3, TakeKeepsTypes DEF HInv, TypeOKServer
<1>5. header'[b] = HeaderRead(b)
  BY <1>1 DEF Take, HInv, TypeOKServer
<1>6. Understood(b)'
  BY <1>1, <1>2, <1>5, HeaderFromRequest DEF Understood, Modern
<1>7. \A c \in Browsers \ {b} :
        seen'[c] = seen[c] /\ taken'[c] = taken[c] /\ header'[c] = header[c] /\ answer'[c] = answer[c]
  BY <1>1 DEF Take, HInv, TypeOKServer
<1> QED BY <1>1, <1>4, <1>6, <1>7, Elsewhere

LEMMA HandshakeUnderstood == ASSUME NEW b \in Browsers, HInv, Handshake(b) PROVE HInv'
<1>1. /\ conn[b] = "tcp" /\ AllHeadersFetched(b) /\ MandatoryFields(b) /\ Take(b)
      /\ UNCHANGED <<kind, arrived>> /\ answer' = [answer EXCEPT ![b] = Response(Version(b))]
      /\ conn' = [conn EXCEPT ![b] = "websocket"]
  BY DEF Handshake
<1>2. Accepts(kind[b], Response(Version(b)))
  BY <1>1, AllCollected, KeysOfV0
<1>3. Response(Version(b)) \in {ResponseV0, ResponseV4, ResponseV6}
  BY DEF Response
<1>4. answer' \in [Browsers -> {NoAnswer, BadRequestResponse, ResponseV0, ResponseV4, ResponseV6}]
  BY <1>1, <1>3 DEF HInv, TypeOKServer
<1>5. conn' \in [Browsers -> {"none", "backlog", "tcp", "websocket", "closed", "dropped"}]
  BY <1>1 DEF HInv, TypeOKServer
<1>6. TypeOKServer'
  BY <1>1, <1>4, <1>5, TakeKeepsTypes DEF HInv, TypeOKServer
<1>7. header'[b] = HeaderRead(b) /\ conn'[b] = "websocket" /\ answer'[b] = Response(Version(b))
  BY <1>1 DEF Take, HInv, TypeOKServer
<1>8. Modern(b) => arrived'[b] <= 5
  BY <1>1 DEF HInv, Understood
<1>9. Understood(b)'
  BY <1>1, <1>2, <1>7, <1>8, HeaderFromRequest DEF Understood, Modern
<1>10. \A c \in Browsers \ {b} :
         /\ seen'[c] = seen[c] /\ taken'[c] = taken[c] /\ header'[c] = header[c] /\ answer'[c] = answer[c]
         /\ conn'[c] = conn[c]
  BY <1>1 DEF Take, HInv, TypeOKServer
<1> QED BY <1>1, <1>6, <1>9, <1>10, Elsewhere

\* The end of a connection: nothing is asked of one that is closed or dropped.
LEMMA EndUnderstood ==
  ASSUME NEW b \in Browsers, HInv, NEW to \in {"closed", "dropped"},
         conn' = [conn EXCEPT ![b] = to] \/ conn' = conn,
         UNCHANGED <<kind, arrived, seen, taken, header, answer>>
  PROVE  HInv'
<1>1. TypeOKServer'
  BY DEF HInv, TypeOKServer
<1>2. conn'[b] \in {to, conn[b]}
  BY DEF HInv, TypeOKServer
<1>3. Understood(b)'
  BY <1>2 DEF HInv, Understood, Modern, Collected
<1> QED BY <1>1, <1>3, Elsewhere DEF HInv, TypeOKServer

LEMMA ProcessDataV0Understood == ASSUME NEW b \in Browsers, HInv, ProcessDataV0(b) PROVE HInv'
<1>1. /\ conn[b] = "websocket" /\ kind[b] = "v0"
      /\ seen' = [seen EXCEPT ![b] = arrived[b]] /\ taken' = [taken EXCEPT ![b] = arrived[b]]
      /\ UNCHANGED <<conn, kind, arrived, header, answer>>
  BY DEF ProcessDataV0
<1>2. TypeOKServer'
  BY <1>1 DEF HInv, TypeOKServer
<1>3. Understood(b)'
  BY <1>1 DEF HInv, Understood, Modern
<1> QED BY <1>1, <1>2, <1>3, Elsewhere DEF HInv, TypeOKServer

LEMMA StillUnderstood == HInv /\ UNCHANGED wsServer => HInv'
  BY DEF HInv, wsServer, TypeOKServer, Understood, Modern, Collected

LEMMA HInvStep == HInv /\ [Next]_vars => HInv'
<1> SUFFICES ASSUME HInv, [Next]_vars PROVE HInv'
  OBVIOUS
<1>1. CASE Run \/ OutOfMemory \/ GuiStep \/ UNCHANGED vars
  <2>1. UNCHANGED wsServer
    BY <1>1 DEF Run, OutOfMemory, GuiStep, PortsKnown, Announce, Poll, LastLook, Exec, QuitThread,
                MainReturns, GuiGoes, vars
  <2> QED BY <2>1, StillUnderstood
<1>2. ASSUME NEW b \in Browsers, BrowserStep(b) \/ TcpDelivers(b) \/ ThreadStep(b)
      PROVE  HInv'
  <2>1. CASE BrowserConnects(b)
    BY <2>1, ConnectUnderstood DEF BrowserConnects
  <2>2. CASE BrowserLeaves(b)
    BY <2>2, StillUnderstood DEF BrowserLeaves
  <2>3. CASE TcpDelivers(b)
    BY <2>3, SegmentUnderstood DEF TcpDelivers
  <2>4. CASE Accept(b)
    BY <2>4, NewTcpUnderstood DEF Accept
  <2>5. CASE DataReceived(b)
    BY <2>5, NotFetchedUnderstood, BadRequestUnderstood, HandshakeUnderstood DEF DataReceived
  <2>6. CASE ProcessDataV0(b)
    BY <2>6, ProcessDataV0Understood
  <2>7. CASE ConnectionClosed(b)
    <3>1. conn' = [conn EXCEPT ![b] = "closed"] /\ UNCHANGED <<kind, arrived, seen, taken, header, answer>>
      BY <2>7 DEF ConnectionClosed
    <3> QED BY <3>1, EndUnderstood
  <2>8. CASE OnDisconnection(b)
    <3>1. conn' = [conn EXCEPT ![b] = "closed"] /\ UNCHANGED <<kind, arrived, seen, taken, header, answer>>
      BY <2>8 DEF OnDisconnection
    <3> QED BY <3>1, EndUnderstood
  <2>9. CASE DeferredDelete(b)
    <3>1. conn' = [conn EXCEPT ![b] = "dropped"] \/ conn' = conn
      BY <2>9 DEF DeferredDelete, HInv, TypeOKServer
    <3>2. UNCHANGED <<kind, arrived, seen, taken, header, answer>>
      BY <2>9 DEF DeferredDelete
    <3> QED BY <3>1, <3>2, EndUnderstood
  <2> QED BY <1>2, <2>1, <2>2, <2>3, <2>4, <2>5, <2>6, <2>7, <2>8, <2>9 DEF BrowserStep, ThreadStep
<1> QED BY <1>1, <1>2 DEF Next

LEMMA AlwaysHInv == Spec => []HInv
  BY HInvInit, HInvStep, PTL DEF Spec

\* However TCP cuts a request with Sec-WebSocket-Version, it is accepted when all of it has
\* been looked at; and only those who take the answer for an acceptance become websockets
\* (QWsServer::dataReceived, headerBuffer).
THEOREM WholeRequestsAlwaysAccepted == Spec => []WholeRequestsAccepted
<1>1. HInv => WholeRequestsAccepted
  <2> SUFFICES ASSUME HInv, NEW b \in Browsers
               PROVE  /\ conn[b] \in {"tcp", "websocket"} /\ Modern(b) /\ ~Unread(b)
                           /\ arrived[b] = RequestLength[kind[b]] => Accepts(kind[b], answer[b])
                      /\ conn[b] = "websocket" => Accepts(kind[b], answer[b])
    BY Zenon DEF WholeRequestsAccepted
  <2>1. conn[b] = "websocket" => Accepts(kind[b], answer[b])
    BY DEF HInv, Understood
  <2>2. ASSUME conn[b] = "tcp", Modern(b), ~Unread(b) PROVE arrived[b] # RequestLength[kind[b]]
    <3>1. seen[b] < 5 /\ seen[b] \in Nat /\ arrived[b] \in Nat /\ kind[b] \in {"v13", "v4"}
      BY <2>2 DEF HInv, TypeOKServer, Understood, Modern
    <3>2. arrived[b] <= seen[b]
      BY <2>2, <3>1 DEF Unread
    <3> QED BY <3>1, <3>2, Requests
  <2> QED BY <2>1, <2>2
<1> QED BY AlwaysHInv, <1>1, PTL

-----------------------------------------------------------------------------
(* Types.                                                                  *)

Others ==
  /\ thread \in {"off", "loop", "spinning", "stopped"}
  /\ left \subseteq Browsers
  /\ main \in {"ports", "local", "waiting", "last", "application", "exec", "ended"}
  /\ polls \in 0 .. Polls
  /\ quitPosted \in BOOLEAN
  /\ quitNow \in BOOLEAN
  /\ quitLost \in BOOLEAN
  /\ overlapped \in BOOLEAN

LEMMA OthersStep == Others /\ [Next]_vars => Others'
<1> SUFFICES ASSUME Others, [Next]_vars PROVE Others'
  OBVIOUS
<1>1. CASE Run \/ OutOfMemory \/ UNCHANGED vars
  BY <1>1 DEF Others, Run, OutOfMemory, vars, sessionVars, hookVars, quitVars
<1>2. CASE GuiStep
  <2>1. CASE PortsKnown \/ Announce \/ LastLook \/ Exec \/ QuitThread \/ MainReturns
    BY <2>1 DEF Others, PortsKnown, Announce, LastLook, Exec, QuitThread, MainReturns, GuiGoes, hookVars, quitVars
  <2>2. CASE Poll
    <3>1. polls' \in 0 .. Polls /\ main' \in {main, "last"}
      BY <2>2, SessionAssumption DEF Others, Poll
    <3> QED BY <2>2, <3>1 DEF Others, Poll, quitVars
  <2> QED BY <1>2, <2>1, <2>2 DEF GuiStep
<1>3. ASSUME NEW b \in Browsers, BrowserStep(b) \/ TcpDelivers(b) \/ ThreadStep(b)
      PROVE  Others'
  <2>1. CASE BrowserConnects(b) \/ TcpDelivers(b) \/ Accept(b) \/ ConnectionClosed(b)
    BY <2>1 DEF Others, BrowserConnects, TcpDelivers, Accept, ConnectionClosed, sessionVars, hookVars, quitVars
  <2>2. CASE BrowserLeaves(b) \/ DeferredDelete(b)
    BY <2>2 DEF Others, BrowserLeaves, DeferredDelete, hookVars, quitVars
  <2>3. CASE ProcessDataV0(b)
    BY <2>3 DEF Others, ProcessDataV0, hookVars, quitVars
  <2>4. CASE OnDisconnection(b)
    BY <2>4 DEF Others, OnDisconnection, Quit, hookVars
  <2>5. CASE DataReceived(b)
    <3>1. overlapped' \in BOOLEAN
      BY <2>5 DEF DataReceived, Others, sessionVars
    <3> QED BY <2>5, <3>1 DEF DataReceived, Others, sessionVars, hookVars, quitVars
  <2> QED BY <1>3, <2>1, <2>2, <2>3, <2>4, <2>5 DEF BrowserStep, ThreadStep
<1> QED BY <1>1, <1>2, <1>3 DEF Next

\* The variables keep their types, and connectionSemaphore never has two permits, for any
\* browsers (WebsocketServer::onConnection).
THEOREM SessionTypes == Spec => []TypeOK
<1>1. Init => Others
  <2>1. Polls \in 0 .. Polls
    BY SessionAssumption
  <2>2. Init => polls \in 0 .. Polls
    BY <2>1 DEF Init
  <2> QED BY <2>2 DEF Init, Others
<1>2. Spec => []Others
  BY <1>1, OthersStep, PTL DEF Spec
<1>3. HInv /\ IInv /\ Others => TypeOK
  BY DEF HInv, IInv, Shapes, Others, TypeOK
<1> QED BY <1>2, <1>3, AlwaysHInv, AlwaysIInv, PTL

-----------------------------------------------------------------------------
(* The end of a websocket.                                                 *)

\* A close() of a websocket that has not ended.
LEMMA CloseKeeps ==
  ASSUME NEW status, NEW handshakeReceived, NEW prefix, DisconnectedOnce,
         state \in {"Connected", "Closing"}, Close(status, handshakeReceived, prefix)
  PROVE  DisconnectedOnce'
<1>1. CASE handshakeReceived
  BY <1>1 DEF DisconnectedOnce, Close
<1>2. CASE ~ handshakeReceived
  BY <1>2 DEF DisconnectedOnce, Close
<1> QED BY <1>1, <1>2

LEMMA TcpUnconnectedKeeps ==
  ASSUME DisconnectedOnce, TcpUnconnected
  PROVE  DisconnectedOnce'
BY DEF DisconnectedOnce, TcpUnconnected

\* The states of the websocket.
States == {"Connected", "Closing", "Unconnected"}

Ended == state \in States /\ DisconnectedOnce

LEMMA EndFrameKeeps ==
  ASSUME NEW frame, NEW status, Ended, EndFrame(frame, status)
  PROVE  Ended'
<1>1. CASE opcode = OpClose /\ state # "Unconnected"
  <2>1. Close(status, TRUE, down)
    BY <1>1 DEF EndFrame
  <2>2. DisconnectedOnce'
    BY <1>1, <2>1, CloseKeeps DEF Ended, States
  <2> QED BY <2>1, <2>2 DEF Close, Ended, States
<1>2. CASE ~ (opcode = OpClose /\ state # "Unconnected")
  BY <1>2 DEF EndFrame, Ended, DisconnectedOnce, closing
<1> QED BY <1>1, <1>2

LEMMA ReadBodyKeeps ==
  ASSUME NEW bytes, NEW key, Ended, ReadBody(bytes, key)
  PROVE  Ended'
<1>1. CASE isFinalFragment
  <2>1. \E frame, status : EndFrame(frame, status)
    BY <1>1 DEF ReadBody
  <2> QED BY <2>1, EndFrameKeeps
<1>2. CASE ~ isFinalFragment
  BY <1>2 DEF ReadBody, Ended, DisconnectedOnce, closing
<1> QED BY <1>1, <1>2

\* Steps that leave the state and the count alone.
LEMMA OthersKeep ==
  ASSUME Ended, UNCHANGED <<state, disconnects>>
  PROVE  Ended'
BY DEF Ended, DisconnectedOnce

LEMMA EndedStep == Ended /\ [SocketNext]_socketVars => Ended'
<1> SUFFICES ASSUME Ended, [SocketNext]_socketVars PROVE Ended'
  OBVIOUS
<1>1. ASSUME NEW key \in Keys, NEW e \in Events, Send(e, key) PROVE Ended'
  BY <1>1, OthersKeep DEF Send, closing
<1>2. ASSUME NEW key \in Keys, Ping(key) PROVE Ended'
  BY <1>2, OthersKeep DEF Ping, closing
<1>3. ASSUME NEW key \in Keys, SendClose(<<>>, key) \/ SendClose(<<1, 1>>, key)
      PROVE Ended'
  BY <1>3, OthersKeep DEF SendClose, closing
<1>4. CASE Leave
  BY <1>4, OthersKeep DEF Leave, closing
<1>5. ASSUME NEW k \in DOMAIN wire, ReadyRead(k) PROVE Ended'
  BY <1>5, OthersKeep DEF ReadyRead, closing
<1>6. CASE ReadHeader
  BY <1>6, OthersKeep DEF ReadHeader, closing
<1>7. CASE ReadLength
  BY <1>7, OthersKeep DEF ReadLength, closing
<1>8. CASE ReadMask
  <2>1. CASE Len(Rest(avail, 4)) < payloadLength
    BY <1>8, <2>1, OthersKeep DEF ReadMask, closing
  <2>2. CASE ~ (Len(Rest(avail, 4)) < payloadLength)
    <3>1. ReadBody(Rest(avail, 4), First(avail, 4))
      BY <1>8, <2>2 DEF ReadMask
    <3> QED BY <3>1, ReadBodyKeeps
  <2> QED BY <2>1, <2>2
<1>9. CASE ReadPending
  BY <1>9, ReadBodyKeeps DEF ReadPending
<1>10. CASE StopReading
  BY <1>10, OthersKeep DEF StopReading, closing
<1>11. CASE TcpClosing
  BY <1>11 DEF TcpClosing, Ended, States, DisconnectedOnce
<1>12. CASE TcpClosed
  BY <1>12, TcpUnconnectedKeeps DEF TcpClosed, TcpUnconnected, Ended, States
<1>13. CASE TcpReset
  BY <1>13, TcpUnconnectedKeeps DEF TcpReset, TcpUnconnected, Ended, States
<1>14. ASSUME NEW m \in Outputs, Write(m) PROVE Ended'
  BY <1>14, OthersKeep DEF Write, closing
<1>15. CASE UNCHANGED socketVars
  BY <1>15, OthersKeep DEF socketVars, closing
<1> QED
  BY <1>1, <1>2, <1>3, <1>4, <1>5, <1>6, <1>7, <1>8, <1>9, <1>10, <1>11, <1>12, <1>13,
     <1>14, <1>15 DEF SocketNext, ProcessData

\* disconnected(), at which WebsocketServer deletes the client and stops the application,
\* is emitted once (QWsSocket.cpp close(), processTcpStateChanged()).
THEOREM OneDisconnection == SocketSpec => []DisconnectedOnce
<1>1. SocketInit => Ended
  BY DEF SocketInit, Ended, States, DisconnectedOnce
<1>2. Ended => DisconnectedOnce
  BY DEF Ended
<1> QED BY <1>1, <1>2, EndedStep, PTL DEF SocketSpec

-----------------------------------------------------------------------------
(* Bytes.                                                                  *)

LEMMA FirstBytes ==
  ASSUME NEW S, NEW s \in Seq(S), NEW n \in 0 .. Len(s)
  PROVE  /\ First(s, n) \in Seq(S)
         /\ Len(First(s, n)) = n
         /\ \A i \in 1 .. n : First(s, n)[i] = s[i]
<1>1. Len(s) \in Nat /\ n \in Int /\ \A i \in 1 .. n : s[i] \in S
  BY LenProperties
<1>2. /\ SubSeq(s, 1, n) \in Seq(S)
      /\ Len(SubSeq(s, 1, n)) = IF 1 <= n THEN n - 1 + 1 ELSE 0
      /\ \A i \in 1 .. n - 1 + 1 : SubSeq(s, 1, n)[i] = s[1 + i - 1]
  BY <1>1, SubSeqProperties
<1>3. \A i \in 1 .. n : i \in 1 .. n - 1 + 1 /\ 1 + i - 1 = i
  BY <1>1
<1>4. Len(SubSeq(s, 1, n)) = n
  BY <1>1, <1>2
<1> QED BY <1>2, <1>3, <1>4 DEF First

LEMMA RestBytes ==
  ASSUME NEW S, NEW s \in Seq(S), NEW n \in 0 .. Len(s)
  PROVE  /\ Rest(s, n) \in Seq(S)
         /\ Len(Rest(s, n)) = Len(s) - n
         /\ \A i \in 1 .. Len(s) - n : Rest(s, n)[i] = s[n + i]
<1>1. Len(s) \in Nat /\ Len(s) \in Int /\ n \in Nat /\ n + 1 \in Int /\ \A i \in n + 1 .. Len(s) : s[i] \in S
  BY LenProperties
<1>2. /\ SubSeq(s, n + 1, Len(s)) \in Seq(S)
      /\ Len(SubSeq(s, n + 1, Len(s))) = IF n + 1 <= Len(s) THEN Len(s) - (n + 1) + 1 ELSE 0
      /\ \A i \in 1 .. Len(s) - (n + 1) + 1 : SubSeq(s, n + 1, Len(s))[i] = s[(n + 1) + i - 1]
  <2> DEFINE m == n + 1
             l == Len(s)
  <2> HIDE DEF m, l
  <2>1. m \in Int /\ l \in Int /\ \A i \in m .. l : s[i] \in S
    BY <1>1 DEF m, l
  <2>2. /\ SubSeq(s, m, l) \in Seq(S)
        /\ Len(SubSeq(s, m, l)) = IF m <= l THEN l - m + 1 ELSE 0
        /\ \A i \in 1 .. l - m + 1 : SubSeq(s, m, l)[i] = s[m + i - 1]
    BY <2>1, SubSeqProperties
  <2> QED BY <2>2 DEF m, l
<1>3. \A i \in 1 .. Len(s) - n : i \in 1 .. Len(s) - (n + 1) + 1 /\ (n + 1) + i - 1 = n + i
  BY <1>1
<1>4. Len(SubSeq(s, n + 1, Len(s))) = Len(s) - n
  BY <1>1, <1>2
<1> QED BY <1>2, <1>3, <1>4 DEF Rest

\* c is s and then t.
IsJoin(c, s, t) ==
  /\ Len(c) = Len(s) + Len(t)
  /\ \A i \in 1 .. Len(s) : c[i] = s[i]
  /\ \A i \in 1 .. Len(t) : c[Len(s) + i] = t[i]

LEMMA Joined ==
  ASSUME NEW S, NEW s \in Seq(S), NEW t \in Seq(S)
  PROVE  s \o t \in Seq(S) /\ IsJoin(s \o t, s, t)
<1> DEFINE c == s \o t
           m == Len(s)
           n == Len(t)
<1>1. /\ c \in Seq(S) /\ Len(c) = m + n
      /\ \A i \in 1 .. m + n : c[i] = IF i <= m THEN s[i] ELSE t[i - m]
  BY ConcatProperties
<1>2. m \in Nat /\ n \in Nat
  BY LenProperties
<1> HIDE DEF c, m, n
<1>3. \A i \in 1 .. m : i \in 1 .. m + n /\ i <= m
  BY <1>2
<1>4. \A i \in 1 .. n : m + i \in 1 .. m + n /\ ~ (m + i <= m) /\ (m + i) - m = i
  BY <1>2
<1>5. \A i \in 1 .. n : c[m + i] = t[i]
  BY <1>1, <1>4
<1>6. \A i \in 1 .. m : c[i] = s[i]
  BY <1>1, <1>3
<1>7. IsJoin(c, s, t)
  BY <1>1, <1>5, <1>6 DEF IsJoin, m, n
<1> QED BY <1>1, <1>7 DEF c

\* What is left after two readings.
LEMMA RestOfRest ==
  ASSUME NEW S, NEW s \in Seq(S), NEW m \in Nat, NEW n \in Nat, m + n <= Len(s)
  PROVE  Rest(Rest(s, m), n) = Rest(s, m + n)
<1>1. Len(s) \in Nat /\ m \in 0 .. Len(s) /\ m + n \in 0 .. Len(s) /\ n \in 0 .. (Len(s) - m)
  BY LenProperties
<1> DEFINE t == Rest(s, m)
           u == Rest(s, m + n)
           v == Rest(t, n)
<1>2. t \in Seq(S) /\ Len(t) = Len(s) - m /\ \A i \in 1 .. Len(s) - m : t[i] = s[m + i]
  BY <1>1, RestBytes
<1>3. u \in Seq(S) /\ Len(u) = Len(s) - (m + n) /\ \A i \in 1 .. Len(s) - (m + n) : u[i] = s[(m + n) + i]
  BY <1>1, RestBytes
<1>4. v \in Seq(S) /\ Len(v) = Len(t) - n /\ \A i \in 1 .. Len(t) - n : v[i] = t[n + i]
  <2> HIDE DEF t
  <2>1. n \in 0 .. Len(t)
    BY <1>1, <1>2
  <2> QED BY <1>2, <2>1, RestBytes
<1> HIDE DEF t, u, v
<1>5. Len(u) = Len(v)
  BY <1>1, <1>2, <1>3, <1>4
<1>6. ASSUME NEW i \in 1 .. Len(u) PROVE u[i] = v[i]
  <2>1. i \in 1 .. Len(s) - (m + n) /\ i \in 1 .. Len(t) - n /\ n + i \in 1 .. Len(s) - m /\ m + (n + i) = (m + n) + i
    BY <1>1, <1>2, <1>3
  <2> QED BY <2>1, <1>2, <1>3, <1>4
<1>7. u = v
  BY <1>3, <1>4, <1>5, <1>6, SeqEqual
<1> QED BY <1>7 DEF t, u, v

\* Reading from the front of what has come.
LEMMA RestOfStream ==
  ASSUME NEW S, NEW s \in Seq(S), NEW t \in Seq(S), NEW n \in 0 .. Len(s)
  PROVE  Rest(s, n) \o t = Rest(s \o t, n)
<1>1. Len(s) \in Nat /\ Len(t) \in Nat /\ n \in Nat
  BY LenProperties
<1> DEFINE c == s \o t
           r == Rest(s, n)
           u == r \o t
           v == Rest(c, n)
<1>2. c \in Seq(S) /\ Len(c) = Len(s) + Len(t) /\ \A i \in 1 .. Len(s) + Len(t) : c[i] = IF i <= Len(s) THEN s[i] ELSE t[i - Len(s)]
  BY ConcatProperties
<1>3. r \in Seq(S) /\ Len(r) = Len(s) - n /\ \A i \in 1 .. Len(s) - n : r[i] = s[n + i]
  BY RestBytes
<1> HIDE DEF c, r
<1>4. u \in Seq(S) /\ Len(u) = Len(r) + Len(t) /\ \A i \in 1 .. Len(r) + Len(t) : u[i] = IF i <= Len(r) THEN r[i] ELSE t[i - Len(r)]
  BY <1>3, ConcatProperties
<1>5. n \in 0 .. Len(c)
  BY <1>1, <1>2
<1>6. v \in Seq(S) /\ Len(v) = Len(c) - n /\ \A i \in 1 .. Len(c) - n : v[i] = c[n + i]
  BY <1>2, <1>5, RestBytes
<1> HIDE DEF u, v
<1>7. Len(u) = Len(v)
  BY <1>1, <1>2, <1>3, <1>4, <1>6
<1>8. ASSUME NEW i \in 1 .. Len(u) PROVE u[i] = v[i]
  <2>1. /\ i \in 1 .. Len(r) + Len(t) /\ i \in 1 .. Len(c) - n /\ n + i \in 1 .. Len(s) + Len(t)
        /\ i <= Len(r) <=> n + i <= Len(s)
        /\ i <= Len(r) => i \in 1 .. Len(s) - n
        /\ i - Len(r) = (n + i) - Len(s)
    BY <1>1, <1>2, <1>3, <1>4, <1>6
  <2>2. u[i] = IF i <= Len(r) THEN r[i] ELSE t[i - Len(r)]
    BY <1>4, <2>1
  <2>3. v[i] = IF n + i <= Len(s) THEN s[n + i] ELSE t[(n + i) - Len(s)]
    BY <1>2, <1>6, <2>1
  <2>4. i <= Len(r) => r[i] = s[n + i]
    BY <1>3, <2>1
  <2> QED BY <2>1, <2>2, <2>3, <2>4
<1>9. u = v
  BY <1>4, <1>6, <1>7, <1>8, SeqEqual
<1> QED BY <1>9 DEF u, v, c, r

\* Delivery moves bytes from the one to the other.
LEMMA SplitStream ==
  ASSUME NEW S, NEW s \in Seq(S), NEW t \in Seq(S), NEW n \in 0 .. Len(t)
  PROVE  /\ s \o First(t, n) \in Seq(S)
         /\ (s \o First(t, n)) \o Rest(t, n) = s \o t
<1>1. First(t, n) \in Seq(S) /\ Rest(t, n) \in Seq(S)
  BY FirstBytes, RestBytes
<1>2. First(t, n) \o Rest(t, n) = t
  <2>1. Len(t) \in Nat
    BY LenProperties
  <2>2. 1 \in 1 .. Len(t) + 1 /\ n \in 1 - 1 .. Len(t) /\ Len(t) \in n .. Len(t)
    BY <2>1
  <2>3. SubSeq(t, 1, n) \o SubSeq(t, n + 1, Len(t)) = SubSeq(t, 1, Len(t))
    BY <2>2, ConcatAdjacentSubSeq
  <2> QED BY <2>3, SubSeqFull DEF First, Rest
<1>3. (s \o First(t, n)) \o Rest(t, n) = s \o (First(t, n) \o Rest(t, n))
  BY <1>1, ConcatAssociative
<1> QED BY <1>1, <1>2, <1>3, ConcatProperties

-----------------------------------------------------------------------------
(* Lengths and masks.                                                      *)

LEMMA FunctionIsSeq ==
  ASSUME NEW S, NEW n \in Nat, NEW f \in [1 .. n -> S]
  PROVE  f \in Seq(S) /\ Len(f) = n
OBVIOUS

\* The length in two bytes, and back.
LEMMA LengthBytes ==
  ASSUME NEW n \in Nat, n <= 65535
  PROVE  /\ BigEndian(n, 2) \in Seq(Byte)
         /\ Len(BigEndian(n, 2)) = 2
         /\ BigEndian(n, 2)[1] = n \div 256
         /\ BigEndian(n, 2)[2] = n % 256
<1> DEFINE e(i) == IF 2 - i > 3 THEN 0 ELSE (n \div <<1, 256, 65536, 16777216>>[2 - i + 1]) % 256
           b == BigEndian(n, 2)
<1>1. b = [i \in 1 .. 2 |-> e(i)]
  BY DEF BigEndian
<1>2. (n \div 1) = n /\ (n \div 256) \in 0 .. 255 /\ (n % 256) \in 0 .. 255
  OBVIOUS
<1>3. (n \div 256) % 256 = n \div 256
  BY <1>2
<1>4. e(1) = n \div 256
  <2>1. 2 - 1 + 1 = 2 /\ ~ (2 - 1 > 3) /\ <<1, 256, 65536, 16777216>>[2] = 256
    OBVIOUS
  <2> QED BY <1>3, <2>1
<1>5. e(2) = n % 256
  <2>1. 2 - 2 + 1 = 1 /\ ~ (2 - 2 > 3) /\ <<1, 256, 65536, 16777216>>[1] = 1
    OBVIOUS
  <2> QED BY <1>2, <2>1
<1> HIDE DEF e, b
<1>6. b[1] = n \div 256 /\ b[2] = n % 256
  BY <1>1, <1>4, <1>5
<1>7. b \in [1 .. 2 -> Byte]
  <2>1. ASSUME NEW i \in 1 .. 2 PROVE e(i) \in Byte
    <3>1. i = 1 \/ i = 2
      OBVIOUS
    <3> QED BY <3>1, <1>2, <1>3, <1>4, <1>5 DEF Byte
  <2> QED BY <1>1, <2>1
<1>8. b \in Seq(Byte) /\ Len(b) = 2
  <2>1. \A k \in Nat : b \in [1 .. k -> Byte] => b \in Seq(Byte) /\ Len(b) = k
    BY FunctionIsSeq
  <2> QED BY <1>7, <2>1
<1> QED BY <1>6, <1>8 DEF b

LEMMA LengthRead ==
  ASSUME NEW s \in Seq(Byte), Len(s) = 2
  PROVE  FromBigEndian(s) = s[1] * 256 + s[2]
<1> DEFINE Number(f, i) == IF i = 0 THEN 0 ELSE f[i - 1] * 256 + s[i]
           number == CHOOSE f : f = [i \in 0 .. Len(s) |-> Number(f, i)]
           g == [i \in 0 .. 2 |-> IF i = 0 THEN 0 ELSE IF i = 1 THEN s[1] ELSE s[1] * 256 + s[2]]
<1>1. s[1] \in Nat /\ s[2] \in Nat
  <2>1. 1 \in 1 .. Len(s) /\ 2 \in 1 .. Len(s)
    OBVIOUS
  <2>2. s[1] \in Byte /\ s[2] \in Byte
    BY <2>1, ElementOfSeq
  <2>3. \A x \in Byte : x \in Nat
    BY DEF Byte
  <2> HIDE DEF g, number
  <2> QED BY <2>2, <2>3
<1>2. g = [i \in 0 .. 2 |-> Number(g, i)]
  <2>1. ASSUME NEW i \in 0 .. 2 PROVE g[i] = Number(g, i)
    <3>1. i = 0 \/ i = 1 \/ i = 2
      OBVIOUS
    <3>2. g[0] = 0 /\ g[1] = s[1] /\ g[2] = s[1] * 256 + s[2]
      OBVIOUS
    <3> HIDE DEF g
    <3>3. Number(g, 0) = 0 /\ Number(g, 1) = s[1] /\ Number(g, 2) = s[1] * 256 + s[2]
      BY <1>1, <3>2
    <3> HIDE DEF Number
    <3> QED BY <3>1, <3>2, <3>3
  <2> HIDE DEF Number
  <2> QED BY <2>1
<1>3. number = [i \in 0 .. 2 |-> Number(number, i)]
  <2>1. \E f : f = [i \in 0 .. 2 |-> Number(f, i)]
    <3> HIDE DEF Number, g
    <3> QED BY <1>2
  <2> HIDE DEF Number
  <2> QED BY <2>1
<1>4. FromBigEndian(s) = number[2]
  BY DEF FromBigEndian
<1> HIDE DEF number, g
<1>5. number[0] = 0 /\ number[1] = Number(number, 1) /\ number[2] = Number(number, 2)
  <2> HIDE DEF Number
  <2>1. number[0] = Number(number, 0) /\ number[1] = Number(number, 1) /\ number[2] = Number(number, 2)
    BY <1>3
  <2>2. Number(number, 0) = 0
    BY DEF Number
  <2> QED BY <2>1, <2>2
<1>6. number[1] = s[1]
  BY <1>1, <1>5
<1> QED BY <1>1, <1>4, <1>5, <1>6

\* What is masked twice is what it was.
LEMMA MaskTwice ==
  ASSUME NEW data \in Seq({0, 1}), NEW key \in Seq({0, 1}), Len(key) = 4
  PROVE  /\ Mask(data, key) \in Seq({0, 1})
         /\ Len(Mask(data, key)) = Len(data)
         /\ Mask(Mask(data, key), key) = data
<1> DEFINE m == Mask(data, key)
           k(i) == key[((i - 1) % 4) + 1]
           d == Mask(m, key)
<1>1. Len(data) \in Nat /\ DOMAIN data = 1 .. Len(data)
  BY LenProperties
<1>2. \A i \in 1 .. Len(data) : k(i) \in {0, 1} /\ data[i] \in {0, 1}
  <2> SUFFICES ASSUME NEW i \in 1 .. Len(data) PROVE k(i) \in {0, 1} /\ data[i] \in {0, 1}
    OBVIOUS
  <2>1. ((i - 1) % 4) + 1 \in 1 .. Len(key)
    BY <1>1
  <2>2. k(i) \in {0, 1}
    BY <2>1, ElementOfSeq
  <2> QED BY <2>2, ElementOfSeq
<1> HIDE DEF k
<1>3. m = [i \in 1 .. Len(data) |-> (data[i] + k(i)) % 2]
  BY <1>1 DEF Mask, k
<1>4. \A i \in 1 .. Len(data) : (data[i] + k(i)) % 2 \in {0, 1} /\ (((data[i] + k(i)) % 2) + k(i)) % 2 = data[i]
  BY <1>2
<1>5. m \in [1 .. Len(data) -> {0, 1}] /\ \A i \in 1 .. Len(data) : m[i] = (data[i] + k(i)) % 2
  <2> HIDE DEF m
  <2> QED BY <1>3, <1>4
<1> HIDE DEF m
<1>6. m \in Seq({0, 1}) /\ Len(m) = Len(data) /\ DOMAIN m = 1 .. Len(data)
  BY <1>1, <1>5
<1>7. d = [i \in 1 .. Len(data) |-> (m[i] + k(i)) % 2]
  BY <1>6 DEF Mask, k
<1> HIDE DEF d
<1>8. \A i \in 1 .. Len(data) : d[i] = data[i]
  BY <1>4, <1>5, <1>7
<1>9. d = data
  <2>1. d \in [1 .. Len(data) -> {0, 1}]
    BY <1>2, <1>4, <1>5, <1>7, <1>8
  <2>2. data \in [1 .. Len(data) -> {0, 1}]
    BY LenProperties
  <2> QED BY <1>8, <2>1, <2>2
<1> QED BY <1>6, <1>9 DEF m, d

-----------------------------------------------------------------------------
(* The frames of the browser.                                              *)

\* The bytes before the key: the operation and the length.
HeadSize(payload) == IF Len(payload) < 126 THEN 2 ELSE 4

\* f is the operation, the length, the key and the masked payload.
IsFrame(f, op, payload, key) ==
  LET h == HeadSize(payload)
  IN /\ f \in Seq(Byte)
     /\ Len(f) = h + 4 + Len(payload)
     /\ f[1] = 128 + op
     /\ f[2] = 128 + (IF Len(payload) < 126 THEN Len(payload) ELSE 126)
     /\ h = 4 => f[3] = Len(payload) \div 256 /\ f[4] = Len(payload) % 256
     /\ \A i \in 1 .. 4 : f[h + i] = key[i]
     /\ \A i \in 1 .. Len(payload) : f[h + 4 + i] = Mask(payload, key)[i]

LEMMA FrameBytes ==
  ASSUME NEW op \in {OpText, OpPing, OpClose}, NEW payload \in Seq({0, 1}), Len(payload) <= 65535,
         NEW key \in Keys
  PROVE  IsFrame(ClientFrame(op, payload, key), op, payload, key)
<1> DEFINE n == Len(payload)
           h == HeadSize(payload)
           first == <<128 + op>>
           length == IF n < 126 THEN <<128 + n>> ELSE <<254>> \o BigEndian(n, 2)
           mask == Mask(payload, key)
           head == first \o length
           keyed == head \o key
           f == keyed \o mask
<1>1. f = ClientFrame(op, payload, key)
  BY DEF ClientFrame
<1>2. n \in Nat /\ n <= 65535 /\ h \in {2, 4} /\ (h = 2 <=> n < 126)
  BY LenProperties DEF HeadSize
<1>3. key \in Seq({0, 1}) /\ Len(key) = 4
  BY QWsSocketAssumption
<1>4. mask \in Seq({0, 1}) /\ Len(mask) = n
  BY <1>3, MaskTwice
<1>5. {0, 1} \subseteq Byte
  BY DEF Byte
<1>6. key \in Seq(Byte) /\ mask \in Seq(Byte)
  BY <1>3, <1>4, <1>5, SeqMonotonic
<1>7. first \in Seq(Byte) /\ Len(first) = 1 /\ first[1] = 128 + op
  <2>1. 128 + op \in Byte
    BY DEF Byte, OpText, OpPing, OpClose
  <2> QED BY <2>1
<1>8. /\ length \in Seq(Byte) /\ Len(length) = h - 1
      /\ length[1] = 128 + (IF n < 126 THEN n ELSE 126)
      /\ h = 4 => length[2] = n \div 256 /\ length[3] = n % 256
  <2>1. CASE n < 126
    <3>1. 128 + n \in Byte /\ h = 2
      <4> HIDE DEF n, h
      <4> QED BY <1>2, <2>1 DEF Byte
    <3>2. length = <<128 + n>>
      BY <2>1
    <3> HIDE DEF length
    <3>3. length \in Seq(Byte) /\ Len(length) = 1 /\ length[1] = 128 + n
      BY <3>1, <3>2
    <3> QED BY <2>1, <3>1, <3>3
  <2>2. CASE ~ (n < 126)
    <3> DEFINE b == BigEndian(n, 2)
               c == <<254>>
    <3>1. b \in Seq(Byte) /\ Len(b) = 2 /\ b[1] = n \div 256 /\ b[2] = n % 256
      BY <1>2, LengthBytes
    <3>2. c \in Seq(Byte) /\ Len(c) = 1 /\ c[1] = 254
      BY DEF Byte
    <3>3. length = c \o b
      BY <2>2
    <3> HIDE DEF b, c, length, n
    <3>4. /\ length \in Seq(Byte) /\ Len(length) = 1 + 2
          /\ \A i \in 1 .. 1 : length[i] = c[i]
          /\ \A i \in 1 .. 2 : length[1 + i] = b[i]
      <4>1. length \in Seq(Byte) /\ IsJoin(length, c, b)
        BY <3>1, <3>2, <3>3, Joined
      <4> QED BY <3>1, <3>2, <4>1 DEF IsJoin
    <3>5. length[1] = c[1] /\ length[2] = b[1] /\ length[3] = b[2] /\ Len(length) = 3
      <4>1. 1 \in 1 .. 1 /\ 1 \in 1 .. 2 /\ 2 \in 1 .. 2 /\ 1 + 1 = 2 /\ 1 + 2 = 3
        OBVIOUS
      <4> QED BY <3>4, <4>1
    <3>6. h = 4
      BY <1>2, <2>2
    <3> QED BY <2>2, <3>1, <3>2, <3>4, <3>5, <3>6
  <2> QED BY <2>1, <2>2
<1> HIDE DEF first, length, mask
<1> HIDE DEF n, h
<1>9. h \in Nat /\ h - 1 \in Nat /\ 1 \in Nat /\ 4 \in Nat /\ h + 4 \in Nat /\ 1 + (h - 1) = h
  BY <1>2
<1>10. /\ head \in Seq(Byte) /\ Len(head) = h
       /\ \A i \in 1 .. 1 : head[i] = first[i]
       /\ \A i \in 1 .. h - 1 : head[1 + i] = length[i]
  <2>1. head \in Seq(Byte) /\ IsJoin(head, first, length)
    BY <1>7, <1>8, <1>9, Joined
  <2> HIDE DEF head
  <2> QED BY <1>7, <1>8, <1>9, <2>1 DEF IsJoin
<1> HIDE DEF head
<1>11. /\ keyed \in Seq(Byte) /\ Len(keyed) = h + 4
       /\ \A i \in 1 .. h : keyed[i] = head[i]
       /\ \A i \in 1 .. 4 : keyed[h + i] = key[i]
  <2>1. keyed \in Seq(Byte) /\ IsJoin(keyed, head, key)
    BY <1>3, <1>6, <1>9, <1>10, Joined
  <2> HIDE DEF keyed
  <2> QED BY <1>3, <1>10, <1>9, <2>1 DEF IsJoin
<1> HIDE DEF keyed
<1>12. /\ f \in Seq(Byte) /\ Len(f) = (h + 4) + n
       /\ \A i \in 1 .. h + 4 : f[i] = keyed[i]
       /\ \A i \in 1 .. n : f[(h + 4) + i] = mask[i]
  <2>1. f \in Seq(Byte) /\ IsJoin(f, keyed, mask)
    BY <1>2, <1>4, <1>6, <1>9, <1>11, Joined
  <2> HIDE DEF f
  <2> QED BY <1>4, <1>11, <1>9, <2>1 DEF IsJoin
<1> HIDE DEF f
<1>13. \A i \in 1 .. h : f[i] = head[i]
  <2>1. \A i \in 1 .. h : i \in 1 .. h + 4
    BY <1>9
  <2> QED BY <1>11, <1>12, <2>1
<1>14. \A i \in 1 .. 4 : f[h + i] = key[i]
  <2>1. \A i \in 1 .. 4 : h + i \in 1 .. h + 4
    BY <1>9
  <2> QED BY <1>11, <1>12, <2>1
<1>15. f[1] = first[1] /\ f[2] = length[1] /\ (h = 4 => f[3] = length[2] /\ f[4] = length[3])
  <2>1. /\ 1 \in 1 .. h /\ 2 \in 1 .. h /\ 1 \in 1 .. 1 /\ 1 \in 1 .. h - 1
        /\ 1 + 1 = 2 /\ 1 + 2 = 3 /\ 1 + 3 = 4
        /\ h = 4 => 3 \in 1 .. h /\ 4 \in 1 .. h /\ 2 \in 1 .. h - 1 /\ 3 \in 1 .. h - 1
    BY <1>2
  <2>2. f[1] = first[1] /\ f[2] = length[1]
    BY <1>10, <1>13, <2>1
  <2>3. h = 4 => f[3] = length[2] /\ f[4] = length[3]
    BY <1>10, <1>13, <2>1
  <2> QED BY <2>2, <2>3
<1>16. /\ f \in Seq(Byte) /\ Len(f) = h + 4 + n /\ f[1] = 128 + op
       /\ f[2] = 128 + (IF n < 126 THEN n ELSE 126)
       /\ h = 4 => f[3] = n \div 256 /\ f[4] = n % 256
  BY <1>7, <1>8, <1>12, <1>15
<1>17. IsFrame(f, op, payload, key)
  BY <1>12, <1>14, <1>16 DEF IsFrame, h, n, mask
<1> QED BY <1>1, <1>17 DEF f

-----------------------------------------------------------------------------
(* The frames to come.                                                     *)

Payloads == Events \cup {<<>>, <<1>>, <<1, 1>>}

\* A frame, the place before its first byte in what has not been read, which is negative
\* when a part of it has been read, and the number of messages before it.
Frames == [op : {OpText, OpPing, OpClose}, payload : Payloads, key : Keys, at : Int, no : Nat]

Size(f) == HeadSize(f.payload) + 4 + Len(f.payload)
Bytes(f) == ClientFrame(f.op, f.payload, f.key)
Texts(f) == IF f.op = OpText THEN 1 ELSE 0

\* The i-th frame is followed by the next one or is the last, of the bytes and of the messages;
\* a text frame is the message that was sent, and nothing follows a close frame.
OnItsWay(q, i, s, out, open) ==
  LET f == q[i]
  IN /\ f.at + Size(f) = IF i = Len(q) THEN Len(s) ELSE q[i + 1].at
     /\ f.at + Size(f) <= Len(s)
     /\ f.no + Texts(f) = IF i = Len(q) THEN Len(out) ELSE q[i + 1].no
     /\ f.op = OpText => f.no + 1 \in 1 .. Len(out) /\ f.payload = out[f.no + 1]
     /\ f.op = OpClose => i = Len(q) /\ ~ open
     /\ \A k \in 1 .. Size(f) : f.at + k >= 1 => s[f.at + k] = Bytes(f)[k]

\* The bytes s are those of the frames q, of which the first may have been read in part;
\* n messages have been received.
ToCome(q, s, out, n, open) ==
  /\ q \in Seq(Frames)
  /\ q = <<>> => s = <<>> /\ n = Len(out)
  /\ q # <<>> => n = q[1].no
  /\ \A i \in 1 .. Len(q) : OnItsWay(q, i, s, out, open)

LEMMA PayloadFacts ==
  ASSUME NEW p \in Payloads
  PROVE  /\ p \in Seq({0, 1})
         /\ Len(p) \in Nat /\ Len(p) <= 65535
         /\ Len(p) \in {0, 1, 2} \/ \E e \in Events : Len(p) = Len(e)
<1>1. CASE p \in Events
  BY <1>1, QWsSocketAssumption
<1>2. CASE p = <<>>
  BY <1>2, EmptySeq
<1>3. CASE p = <<1>>
  BY <1>3
<1>4. CASE p = <<1, 1>>
  BY <1>4
<1> QED BY <1>1, <1>2, <1>3, <1>4 DEF Payloads

LEMMA FrameFacts ==
  ASSUME NEW f \in Frames
  PROVE  /\ f.payload \in Seq({0, 1})
         /\ Len(f.payload) \in Nat /\ Len(f.payload) <= 65535
         /\ f.at \in Int /\ f.no \in Nat
         /\ HeadSize(f.payload) \in {2, 4}
         /\ HeadSize(f.payload) = 2 <=> Len(f.payload) < 126
         /\ Size(f) \in Nat /\ Size(f) >= 6
         /\ Texts(f) \in {0, 1}
         /\ Len(Bytes(f)) = Size(f) /\ Bytes(f) \in Seq(Byte)
<1>1. f.op \in {OpText, OpPing, OpClose} /\ f.payload \in Payloads /\ f.key \in Keys /\ f.at \in Int /\ f.no \in Nat
  BY DEF Frames
<1>2. f.payload \in Seq({0, 1}) /\ Len(f.payload) \in Nat /\ Len(f.payload) <= 65535
  BY <1>1, PayloadFacts
<1>3. HeadSize(f.payload) \in {2, 4} /\ (HeadSize(f.payload) = 2 <=> Len(f.payload) < 126)
  BY DEF HeadSize
<1>4. Bytes(f) \in Seq(Byte) /\ Len(Bytes(f)) = Size(f)
  BY <1>1, <1>2, FrameBytes DEF IsFrame, Bytes, Size
<1>5. Size(f) \in Nat /\ Size(f) >= 6
  BY <1>2, <1>3 DEF Size
<1> QED BY <1>1, <1>2, <1>3, <1>4, <1>5 DEF Texts

LEMMA FrameContents ==
  ASSUME NEW f \in Frames
  PROVE  IsFrame(Bytes(f), f.op, f.payload, f.key)
<1>1. f.op \in {OpText, OpPing, OpClose} /\ f.key \in Keys
  BY DEF Frames
<1>2. f.payload \in Seq({0, 1}) /\ Len(f.payload) <= 65535
  BY FrameFacts
<1> QED BY <1>1, <1>2, FrameBytes DEF Bytes

\* The browser sends a frame.
LEMMA FrameComes ==
  ASSUME NEW s \in Seq(Byte), NEW out \in Seq(Events), NEW n, NEW q, ToCome(q, s, out, n, TRUE),
         NEW op \in {OpText, OpPing, OpClose}, NEW payload \in Payloads, NEW key \in Keys,
         NEW later \in Seq(Events), NEW open,
         \/ op = OpText /\ payload \in Events /\ later = Append(out, payload)
         \/ op # OpText /\ later = out,
         op = OpClose => ~ open
  PROVE  LET f == [op |-> op, payload |-> payload, key |-> key, at |-> Len(s), no |-> Len(out)]
         IN ToCome(Append(q, f), s \o ClientFrame(op, payload, key), later, n, open)
<1> DEFINE f == [op |-> op, payload |-> payload, key |-> key, at |-> Len(s), no |-> Len(out)]
           b == ClientFrame(op, payload, key)
           c == s \o b
           r == Append(q, f)
           m == Len(q)
<1>1. Len(s) \in Nat /\ Len(out) \in Nat
  BY LenProperties
<1>2. f \in Frames
  BY <1>1 DEF Frames
<1>3. f.op = op /\ f.payload = payload /\ f.at = Len(s) /\ f.no = Len(out) /\ Bytes(f) = b
  BY DEF Bytes
<1> HIDE DEF f
<1>4. b \in Seq(Byte) /\ Len(b) = Size(f) /\ Size(f) \in Nat
  BY <1>2, <1>3, FrameFacts
<1> HIDE DEF b
<1>5. c \in Seq(Byte) /\ IsJoin(c, s, b)
  BY <1>4, Joined
<1> HIDE DEF c
<1>6. Len(c) = Len(s) + Size(f) /\ (\A i \in 1 .. Len(s) : c[i] = s[i]) /\ \A i \in 1 .. Size(f) : c[Len(s) + i] = b[i]
  BY <1>4, <1>5 DEF IsJoin
<1>7. q \in Seq(Frames) /\ m \in Nat
  BY LenProperties DEF ToCome
<1>8. r \in Seq(Frames) /\ Len(r) = m + 1 /\ r # <<>> /\ (\A i \in 1 .. m : r[i] = q[i]) /\ r[m + 1] = f
  BY <1>2, <1>7, AppendProperties
<1>9. /\ Len(later) = Len(out) + Texts(f) /\ (\A i \in 1 .. Len(out) : later[i] = out[i])
      /\ op = OpText => later[Len(out) + 1] = payload
  <2>1. CASE op = OpText
    <3>1. payload \in Events /\ later = Append(out, payload)
      BY <2>1
    <3> QED BY <2>1, <3>1, <1>3, AppendProperties DEF Texts
  <2>2. CASE op # OpText
    BY <2>2, <1>1, <1>3 DEF Texts
  <2> QED BY <2>1, <2>2
<1> HIDE DEF r, m
<1>10. n = r[1].no
  <2>1. CASE q = <<>>
    <3>1. m = 0 /\ n = Len(out)
      BY <2>1 DEF m, ToCome
    <3> QED BY <3>1, <1>3, <1>8
  <2>2. CASE q # <<>>
    <3>1. n = q[1].no
      BY <2>2 DEF ToCome
    <3>2. 1 \in 1 .. m
      BY <2>2, <1>7, EmptySeq DEF m
    <3> QED BY <3>1, <3>2, <1>8
  <2> QED BY <2>1, <2>2
<1>11. OnItsWay(r, m + 1, c, later, open)
  <2>1. f.at + Size(f) = Len(c) /\ f.at + Size(f) <= Len(c)
    BY <1>1, <1>3, <1>4, <1>6
  <2>2. f.no + Texts(f) = Len(later)
    BY <1>3, <1>9
  <2>3. f.op = OpText => f.no + 1 \in 1 .. Len(later) /\ f.payload = later[f.no + 1]
    BY <1>1, <1>3, <1>9 DEF Texts
  <2>4. \A k \in 1 .. Size(f) : f.at + k >= 1 => c[f.at + k] = Bytes(f)[k]
    BY <1>3, <1>6
  <2>5. f.op = OpClose => ~ open
    BY <1>3
  <2> QED BY <2>1, <2>2, <2>3, <2>4, <2>5, <1>8 DEF OnItsWay
<1>12. ASSUME NEW i \in 1 .. m PROVE OnItsWay(r, i, c, later, open)
  <2> DEFINE g == q[i]
  <2>1. OnItsWay(q, i, s, out, TRUE)
    BY DEF ToCome, m
  <2>2. i # Len(r) /\ r[i] = g /\ g \in Frames
    BY <1>7, <1>8 DEF m
  <2>3. g.at \in Int /\ g.no \in Nat /\ Size(g) \in Nat /\ Texts(g) \in {0, 1}
    BY <2>2, FrameFacts
  <2>4. g.at + Size(g) = r[i + 1].at /\ g.no + Texts(g) = r[i + 1].no
    <3>1. CASE i = m
      <4>1. g.at + Size(g) = Len(s) /\ g.no + Texts(g) = Len(out)
        BY <2>1, <3>1 DEF OnItsWay, m
      <4> QED BY <3>1, <4>1, <1>3, <1>8
    <3>2. CASE i # m
      <4>1. i + 1 \in 1 .. m
        BY <3>2, <1>7
      <4>2. g.at + Size(g) = q[i + 1].at /\ g.no + Texts(g) = q[i + 1].no
        BY <2>1, <3>2 DEF OnItsWay, m
      <4> QED BY <4>1, <4>2, <1>8
    <3> QED BY <3>1, <3>2
  <2>5. g.at + Size(g) <= Len(c)
    <3>1. g.at + Size(g) <= Len(s)
      BY <2>1 DEF OnItsWay
    <3> QED BY <3>1, <2>3, <1>1, <1>4, <1>6
  <2>6. g.op = OpText => g.no + 1 \in 1 .. Len(later) /\ g.payload = later[g.no + 1]
    <3>1. g.op = OpText => g.no + 1 \in 1 .. Len(out) /\ g.payload = out[g.no + 1]
      BY <2>1 DEF OnItsWay
    <3>2. Texts(f) \in {0, 1}
      BY DEF Texts
    <3> QED BY <3>1, <3>2, <1>1, <1>9
  <2>7. g.op # OpClose
    BY <2>1 DEF OnItsWay
  <2>8. ASSUME NEW k \in 1 .. Size(g), g.at + k >= 1 PROVE c[g.at + k] = Bytes(g)[k]
    <3>1. g.at + Size(g) <= Len(s) /\ s[g.at + k] = Bytes(g)[k]
      BY <2>1, <2>8 DEF OnItsWay
    <3>2. g.at + k \in 1 .. Len(s)
      <4> HIDE DEF g
      <4> QED BY <2>3, <2>8, <3>1, <1>1
    <3> QED BY <3>1, <3>2, <1>6
  <2> QED BY <2>2, <2>4, <2>5, <2>6, <2>7, <2>8 DEF OnItsWay
<1>13. \A i \in 1 .. Len(r) : OnItsWay(r, i, c, later, open)
  <2>1. \A i \in 1 .. Len(r) : i = m + 1 \/ i \in 1 .. m
    BY <1>7, <1>8 DEF m
  <2> QED BY <2>1, <1>11, <1>12
<1>14. ToCome(r, c, later, n, open)
  BY <1>8, <1>10, <1>13 DEF ToCome
<1> QED BY <1>14 DEF r, c, b, f

\* The frames seen from k bytes further on.
Moved(q, k) == [i \in 1 .. Len(q) |-> [q[i] EXCEPT !.at = q[i].at - k]]

\* k bytes are read.
LEMMA BytesRead ==
  ASSUME NEW s \in Seq(Byte), NEW k \in 0 .. Len(s),
         NEW out, NEW n, NEW open, NEW q, ToCome(q, s, out, n, open)
  PROVE  /\ ToCome(Moved(q, k), Rest(s, k), out, n, open)
         /\ Len(Moved(q, k)) = Len(q)
         /\ \A i \in 1 .. Len(q) : /\ Moved(q, k)[i].op = q[i].op
                                   /\ Moved(q, k)[i].payload = q[i].payload
                                   /\ Moved(q, k)[i].key = q[i].key
                                   /\ Moved(q, k)[i].at = q[i].at - k
                                   /\ Moved(q, k)[i].no = q[i].no
<1> DEFINE m == Len(q)
           r == Moved(q, k)
           t == Rest(s, k)
<1>1. Len(s) \in Nat /\ k \in Nat
  BY LenProperties
<1>2. t \in Seq(Byte) /\ Len(t) = Len(s) - k /\ \A i \in 1 .. Len(s) - k : t[i] = s[k + i]
  BY RestBytes
<1> HIDE DEF t
<1>3. q \in Seq(Frames) /\ m \in Nat
  BY LenProperties DEF ToCome
<1>4. \A i \in 1 .. m : q[i] \in Frames
  BY <1>3, ElementOfSeq DEF m
<1>5. r = [i \in 1 .. m |-> [q[i] EXCEPT !.at = q[i].at - k]]
  BY DEF Moved
<1> HIDE DEF r
<1>6. ASSUME NEW i \in 1 .. m
      PROVE  /\ r[i] \in Frames /\ r[i].op = q[i].op /\ r[i].payload = q[i].payload /\ r[i].key = q[i].key
             /\ r[i].at = q[i].at - k /\ r[i].no = q[i].no
  <2>1. r[i] = [q[i] EXCEPT !.at = q[i].at - k]
    BY <1>5
  <2>2. q[i] \in Frames
    BY <1>4
  <2>3. q[i].at - k \in Int
    BY <2>2, <1>1 DEF Frames
  <2> QED BY <2>1, <2>2, <2>3 DEF Frames
<1>7. r \in Seq(Frames) /\ Len(r) = m
  <2>1. r \in [1 .. m -> Frames]
    <3>1. DOMAIN r = 1 .. m
      BY <1>5
    <3>2. \A i \in 1 .. m : r[i] \in Frames
      BY <1>6
    <3> HIDE DEF m
    <3> QED BY <3>1, <3>2, <1>5
  <2> HIDE DEF m
  <2> QED BY <2>1, <1>3, FunctionIsSeq
<1>8. ASSUME NEW i \in 1 .. m PROVE OnItsWay(r, i, t, out, open)
  <2> DEFINE f == q[i]
             g == r[i]
  <2>1. OnItsWay(q, i, s, out, open)
    BY DEF ToCome, m
  <2>2. /\ f \in Frames /\ g.op = f.op /\ g.payload = f.payload /\ g.key = f.key /\ g.at = f.at - k
        /\ g.no = f.no
    BY <1>4, <1>6
  <2>3. Size(g) = Size(f) /\ Texts(g) = Texts(f) /\ Bytes(g) = Bytes(f)
    BY <2>2 DEF Size, Texts, Bytes
  <2>4. f.at \in Int /\ Size(f) \in Nat
    BY <2>2, FrameFacts
  <2>5. /\ f.at + Size(f) = IF i = m THEN Len(s) ELSE q[i + 1].at
        /\ f.at + Size(f) <= Len(s)
        /\ f.no + Texts(f) = IF i = m THEN Len(out) ELSE q[i + 1].no
        /\ f.op = OpText => f.no + 1 \in 1 .. Len(out) /\ f.payload = out[f.no + 1]
        /\ f.op = OpClose => i = m /\ ~ open
        /\ \A j \in 1 .. Size(f) : f.at + j >= 1 => s[f.at + j] = Bytes(f)[j]
    BY <2>1 DEF OnItsWay, m
  <2>6. i # m => i + 1 \in 1 .. m
    BY <1>3
  <2>7. i # m => r[i + 1].at = q[i + 1].at - k /\ r[i + 1].no = q[i + 1].no
    BY <2>6, <1>6
  <2> HIDE DEF f, g
  <2>8. g.at + Size(g) = (IF i = m THEN Len(t) ELSE r[i + 1].at) /\ g.at + Size(g) <= Len(t)
    <3>1. f.at + Size(f) = (IF i = m THEN Len(s) ELSE q[i + 1].at) /\ f.at + Size(f) <= Len(s)
      BY <2>5
    <3>2. g.at + Size(g) = (f.at + Size(f)) - k /\ Len(t) = Len(s) - k
      BY <2>2, <2>3, <2>4, <1>1, <1>2
    <3>3. g.at + Size(g) <= Len(t)
      BY <3>1, <3>2, <2>4, <1>1
    <3>4. i = m => g.at + Size(g) = Len(t)
      BY <3>1, <3>2
    <3>5. i # m => g.at + Size(g) = r[i + 1].at
      BY <3>1, <3>2, <2>7
    <3> QED BY <3>3, <3>4, <3>5
  <2>9. g.no + Texts(g) = IF i = m THEN Len(out) ELSE r[i + 1].no
    BY <2>2, <2>3, <2>5, <2>7
  <2>10. ASSUME NEW j \in 1 .. Size(g), g.at + j >= 1 PROVE t[g.at + j] = Bytes(g)[j]
    <3>1. j \in 1 .. Size(f) /\ f.at + j >= 1 /\ g.at + j \in 1 .. Len(s) - k /\ k + (g.at + j) = f.at + j
      <4>1. f.at + Size(f) <= Len(s)
        BY <2>5
      <4>2. g.at = f.at - k /\ Size(g) = Size(f)
        BY <2>2, <2>3
      <4> QED BY <4>1, <4>2, <2>4, <2>10, <1>1
    <3>2. s[f.at + j] = Bytes(f)[j]
      BY <2>5, <3>1
    <3> QED BY <2>3, <3>1, <3>2, <1>2
  <2> QED BY <2>2, <2>5, <2>8, <2>9, <2>10, <1>7 DEF OnItsWay, g
<1>9. r = <<>> => t = <<>> /\ n = Len(out)
  <2> SUFFICES ASSUME r = <<>> PROVE t = <<>> /\ n = Len(out)
    OBVIOUS
  <2>1. m = 0
    BY <1>7, EmptySeq
  <2>2. q = <<>>
    BY <2>1, <1>3, EmptySeq DEF m
  <2>3. s = <<>> /\ n = Len(out)
    BY <2>2 DEF ToCome
  <2>4. Len(t) = 0
    BY <2>3, <1>1, <1>2, EmptySeq
  <2> QED BY <2>3, <2>4, <1>2, EmptySeq
<1>10. r # <<>> => n = r[1].no
  <2> SUFFICES ASSUME r # <<>> PROVE n = r[1].no
    OBVIOUS
  <2>1. m # 0
    BY <1>7, EmptySeq
  <2>2. q # <<>> /\ 1 \in 1 .. m
    BY <2>1, <1>3, EmptySeq DEF m
  <2> QED BY <2>2, <1>6 DEF ToCome
<1>11. ToCome(r, t, out, n, open)
  BY <1>7, <1>8, <1>9, <1>10 DEF ToCome
<1> QED BY <1>6, <1>7, <1>11 DEF r, t, m

\* The last byte of a frame is read.
LEMMA FrameRead ==
  ASSUME NEW s \in Seq(Byte), NEW out, NEW n, NEW open, NEW q, ToCome(q, s, out, n, open),
         q # <<>>, q[1].at + Size(q[1]) = 0
  PROVE  /\ ToCome(Tail(q), s, out, n + Texts(q[1]), open)
         /\ Tail(q) # <<>> => Tail(q)[1].at = 0
<1> DEFINE m == Len(q)
           r == Tail(q)
<1>1. q \in Seq(Frames)
  BY DEF ToCome
<1>2. r \in Seq(Frames) /\ Len(r) = m - 1 /\ \A i \in 1 .. Len(r) : r[i] = q[i + 1]
  BY <1>1, HeadTailProperties
<1>3. m \in Nat \ {0} /\ 1 \in 1 .. m
  BY <1>1, EmptySeq
<1>4. OnItsWay(q, 1, s, out, open) /\ n = q[1].no
  BY <1>3 DEF ToCome, m
<1>5. /\ 0 = IF m = 1 THEN Len(s) ELSE q[2].at
      /\ n + Texts(q[1]) = IF m = 1 THEN Len(out) ELSE q[2].no
  BY <1>4 DEF OnItsWay, m
<1> HIDE DEF r
<1>6. r = <<>> <=> m = 1
  <2> HIDE DEF m
  <2>1. r = <<>> => Len(r) = 0
    BY EmptySeq
  <2>2. Len(r) = 0 => r = <<>>
    BY <1>2, EmptySeq
  <2> QED BY <2>1, <2>2, <1>2, <1>3
<1>7. r = <<>> => s = <<>> /\ n + Texts(q[1]) = Len(out)
  BY <1>5, <1>6, EmptySeq
<1>8. r # <<>> => r[1].at = 0 /\ r[1].no = n + Texts(q[1])
  <2> SUFFICES ASSUME r # <<>> PROVE r[1].at = 0 /\ r[1].no = n + Texts(q[1])
    OBVIOUS
  <2> HIDE DEF m
  <2>1. 1 \in 1 .. Len(r) /\ 1 + 1 = 2
    BY <1>2, <1>3, <1>6
  <2> QED BY <2>1, <1>2, <1>5, <1>6
<1>9. ASSUME NEW i \in 1 .. Len(r) PROVE OnItsWay(r, i, s, out, open)
  <2> HIDE DEF m
  <2>1. i + 1 \in 1 .. m /\ (i + 1 = m <=> i = Len(r)) /\ r[i] = q[i + 1]
    BY <1>2, <1>3
  <2>2. OnItsWay(q, i + 1, s, out, open)
    BY <2>1 DEF ToCome, m
  <2>3. i # Len(r) => r[i + 1] = q[(i + 1) + 1]
    <3>1. i # Len(r) => i + 1 \in 1 .. Len(r)
      BY <1>2, <1>3
    <3> QED BY <3>1, <1>2
  <2> QED BY <2>1, <2>2, <2>3 DEF OnItsWay, m
<1>10. ToCome(r, s, out, n + Texts(q[1]), open)
  BY <1>2, <1>7, <1>8, <1>9 DEF ToCome
<1> QED BY <1>8, <1>10 DEF r

\* The browser stops sending.
LEMMA NoMoreFrames ==
  ASSUME NEW s, NEW out, NEW n, NEW open, NEW q, ToCome(q, s, out, n, open)
  PROVE  ToCome(q, s, out, n, FALSE)
BY DEF ToCome, OnItsWay

-----------------------------------------------------------------------------
(* What the parser has read.                                               *)

\* Between frames the first frame to come begins with the next byte; else it is the frame that
\* the parser is in, read up to the state's place.
Parsing(q) ==
  /\ readingState = "HeaderPending" /\ q # <<>> => q[1].at = 0
  /\ readingState # "HeaderPending" =>
       /\ q # <<>>
       /\ isFinalFragment = TRUE /\ hasMask = TRUE /\ opcode = q[1].op
       /\ readingState = "PayloadLengthPending" => q[1].at = 0 - 2 /\ HeadSize(q[1].payload) = 4
       /\ readingState = "MaskPending" =>
            q[1].at = 0 - HeadSize(q[1].payload) /\ payloadLength = Len(q[1].payload)
       /\ readingState = "PayloadBodyPending" =>
            /\ q[1].at = 0 - (HeadSize(q[1].payload) + 4)
            /\ payloadLength = Len(q[1].payload) /\ maskingKey = q[1].key
       /\ readingState = "CloseDataPending" => q[1].op = OpClose

ParserTypes ==
  /\ wire \in Seq(Byte) /\ avail \in Seq(Byte) /\ running \in BOOLEAN
  /\ readingState \in {"HeaderPending", "PayloadLengthPending", "MaskPending",
                       "PayloadBodyPending", "CloseDataPending"}
  /\ isFinalFragment \in BOOLEAN /\ opcode \in 0 .. 15 /\ hasMask \in BOOLEAN
  /\ payloadLength \in {0, 1, 2} \/ \E e \in Events : payloadLength = Len(e)
  /\ maskingKey \in Keys \cup {<<0, 0, 0, 0>>}
  /\ browser \in {"open", "closing", "left", "reset"}
  /\ pings \in 0 .. MaxSent
  /\ sent \in Seq(Events) /\ received \in Seq(Seq(Byte))

\* A message is one frame, so no part of one is kept between frames.
Reading ==
  /\ currentFrame = <<>>
  /\ \E q : ToCome(q, avail \o wire, sent, Len(received), browser = "open") /\ Parsing(q)

\* When the connection breaks, what was on its way is lost and nothing is read any more.
ResetEnds == browser = "reset" => state = "Unconnected" /\ running = FALSE

RInv ==
  /\ ParserTypes /\ ResetEnds
  /\ currentFrame = <<>>
  /\ Len(received) <= Len(sent) /\ \A i \in 1 .. Len(received) : received[i] = sent[i]
  /\ browser # "reset" => Reading

LEMMA RInvInOrder == RInv => ReceivedInOrder
<1> SUFFICES ASSUME RInv PROVE ReceivedInOrder
  OBVIOUS
<1> DEFINE n == Len(received)
           s == SubSeq(received, 1, n)
           t == SubSeq(sent, 1, n)
<1>1. /\ n \in Nat /\ Len(sent) \in Nat /\ n <= Len(sent)
      /\ \A i \in 1 .. n : received[i] = sent[i]
      /\ received \in Seq(Seq(Byte))
  <2>1. received \in Seq(Seq(Byte)) /\ sent \in Seq(Events)
    BY DEF RInv, ParserTypes
  <2> QED BY <2>1, LenProperties DEF RInv
<1>2. s = received
  BY <1>1, SubSeqFull
<1>3. t = received
  <2> HIDE DEF n
  <2>1. 1 \in Int /\ n \in Int /\ \A i \in 1 .. n : sent[i] \in Seq(Byte)
    <3>1. \A i \in 1 .. n : received[i] \in Seq(Byte)
      BY <1>1, ElementOfSeq DEF n
    <3> QED BY <3>1, <1>1
  <2>2. /\ t \in Seq(Seq(Byte)) /\ Len(t) = IF 1 <= n THEN n - 1 + 1 ELSE 0
        /\ \A i \in 1 .. n - 1 + 1 : t[i] = sent[1 + i - 1]
    BY <2>1, SubSeqProperties
  <2> HIDE DEF t
  <2>3. Len(t) = n /\ \A i \in 1 .. n : i \in 1 .. n - 1 + 1 /\ 1 + i - 1 = i
    BY <2>2, <1>1
  <2>4. \A i \in 1 .. n : t[i] = received[i]
    BY <2>2, <2>3, <1>1
  <2>5. Len(t) = Len(received)
    BY <2>3 DEF n
  <2> QED BY <2>2, <2>3, <2>4, <2>5, <1>1, SeqEqual
<1> QED BY <1>1, <1>2, <1>3 DEF ReceivedInOrder, IsPrefix

\* The body of the first frame begins after a bytes of avail, and all of it has come.
AtBody(q, a) ==
  /\ ToCome(q, avail \o wire, sent, Len(received), browser = "open") /\ q # <<>>
  /\ isFinalFragment = TRUE /\ hasMask = TRUE
  /\ opcode = q[1].op /\ payloadLength = Len(q[1].payload)
  /\ a \in 0 .. Len(avail) /\ q[1].at + HeadSize(q[1].payload) + 4 = a
  /\ ~ (Len(Rest(avail, a)) < payloadLength)

LEMMA BodyRead ==
  ASSUME NEW q, NEW a, RInv, AtBody(q, a), ReadBody(Rest(avail, a), q[1].key), UNCHANGED <<wire, page>>
  PROVE  /\ avail' \in Seq(Byte) /\ readingState' = "HeaderPending"
         /\ received' \in Seq(Seq(Byte))
         /\ Len(received') <= Len(sent)
         /\ \A i \in 1 .. Len(received') : received'[i] = sent[i]
         /\ Reading'
<1> DEFINE f == q[1]
           open == browser = "open"
           s == avail \o wire
           n == Len(received)
           P == Len(f.payload)
           h == HeadSize(f.payload)
           bytes == Rest(avail, a)
           status == IF opcode = OpClose /\ payloadLength >= 2 THEN First(bytes, 2) ELSE <<>>
           rest == Rest(bytes, Len(status))
           read == IF payloadLength < Len(rest) THEN payloadLength ELSE Len(rest)
           data == First(rest, read)
           frame == currentFrame \o (IF hasMask THEN Mask(data, f.key) ELSE data)
           told == IF FromBigEndian(status) = 0 THEN <<>> ELSE status
<1>1. wire \in Seq(Byte) /\ avail \in Seq(Byte) /\ sent \in Seq(Events) /\ received \in Seq(Seq(Byte))
  BY DEF RInv, ParserTypes
<1>2. avail' = Rest(rest, read) /\ readingState' = "HeaderPending" /\ EndFrame(frame, told)
  BY DEF ReadBody, AtBody
<1>3. ToCome(q, s, sent, n, open) /\ q # <<>> /\ a \in 0 .. Len(avail) /\ opcode = f.op /\ payloadLength = P /\ f.at + h + 4 = a /\ ~ (Len(bytes) < P)
  BY DEF AtBody
<1> HIDE DEF f, open, s, n, P, h, bytes, status, rest, read, data, frame, told
<1>4. s \in Seq(Byte) /\ Len(s) = Len(avail) + Len(wire) /\ \A i \in 1 .. Len(avail) : s[i] = avail[i]
  BY <1>1, Joined DEF IsJoin, s
<1>5. /\ Len(avail) \in Nat /\ Len(wire) \in Nat /\ Len(sent) \in Nat /\ n \in Nat
      /\ a \in Nat /\ a <= Len(avail)
  BY <1>1, <1>3, LenProperties DEF n
<1>6. q \in Seq(Frames) /\ 1 \in 1 .. Len(q) /\ f \in Frames
  <2>1. q \in Seq(Frames)
    BY <1>3 DEF ToCome
  <2>2. 1 \in 1 .. Len(q)
    BY <2>1, <1>3, EmptySeq
  <2> QED BY <2>1, <2>2, ElementOfSeq DEF f
<1>7. /\ f.op \in {OpText, OpPing, OpClose} /\ f.payload \in Payloads /\ f.key \in Keys /\ f.at \in Int
      /\ f.payload \in Seq({0, 1}) /\ P \in Nat /\ P <= 65535 /\ h \in {2, 4}
      /\ Size(f) = h + 4 + P
  <2>1. f.payload \in Seq({0, 1}) /\ P \in Nat /\ P <= 65535 /\ h \in {2, 4} /\ f.at \in Int
    BY <1>6, FrameFacts DEF P, h
  <2> QED BY <2>1, <1>6 DEF Frames, Size, P, h
<1>8. /\ f.at + Size(f) = a + P
      /\ a + P <= Len(s)
      /\ f.op = OpClose => a + P = Len(s)
      /\ f.op = OpText => n + 1 \in 1 .. Len(sent) /\ f.payload = sent[n + 1]
      /\ \A k \in 1 .. Size(f) : f.at + k >= 1 => s[f.at + k] = Bytes(f)[k]
  <2>1. f.at + Size(f) = a + P
    <3>1. f.at \in Int /\ h \in Int /\ P \in Int /\ a \in Int
      BY <1>5, <1>7
    <3>2. f.at + h + 4 = a /\ Size(f) = h + 4 + P
      BY <1>3, <1>7
    <3> QED BY <3>1, <3>2
  <2>2. OnItsWay(q, 1, s, sent, open) /\ n = f.no
    BY <1>3, <1>6 DEF ToCome, f
  <2> QED BY <2>1, <2>2 DEF OnItsWay, f
<1>9. bytes \in Seq(Byte) /\ Len(bytes) = Len(avail) - a /\ \A i \in 1 .. Len(avail) - a : bytes[i] = avail[a + i]
  BY <1>1, <1>3, RestBytes DEF bytes
<1>10. Len(bytes) \in Nat /\ P <= Len(bytes) /\ a + P <= Len(avail)
  BY <1>3, <1>5, <1>7, <1>9
<1>11. /\ status \in Seq(Byte) /\ Len(status) \in Nat /\ Len(status) <= Len(bytes)
       /\ f.op # OpClose => status = <<>>
       /\ Len(status) # 0 => f.op = OpClose /\ Len(status) <= P
  <2>1. CASE opcode = OpClose /\ payloadLength >= 2
    <3>1. 2 \in 0 .. Len(bytes) /\ 2 <= P
      BY <2>1, <1>3, <1>7, <1>10
    <3>2. First(bytes, 2) \in Seq(Byte) /\ Len(First(bytes, 2)) = 2
      BY <3>1, <1>9, FirstBytes
    <3>3. status = First(bytes, 2)
      BY <2>1 DEF status
    <3>4. f.op = OpClose
      BY <2>1, <1>3
    <3>5. 2 \in Nat /\ 2 <= Len(bytes)
      BY <3>1
    <3> QED BY <3>1, <3>2, <3>3, <3>4, <3>5
  <2>2. CASE ~ (opcode = OpClose /\ payloadLength >= 2)
    <3>1. status = <<>>
      BY <2>2 DEF status
    <3>2. status \in Seq(Byte) /\ Len(status) = 0
      BY <3>1, EmptySeq
    <3> QED BY <3>1, <3>2, <1>10
  <2> QED BY <2>1, <2>2
<1>12. rest \in Seq(Byte) /\ Len(rest) = Len(bytes) - Len(status)
  <2>1. Len(status) \in 0 .. Len(bytes)
    BY <1>10, <1>11
  <2> QED BY <2>1, <1>9, RestBytes DEF rest
<1>13. read \in Nat /\ Len(status) + read = P
  <2>1. read = IF P < Len(rest) THEN P ELSE Len(rest)
    BY <1>3 DEF read
  <2>2. Len(rest) \in Nat
    BY <1>10, <1>11, <1>12
  <2>3. CASE Len(status) = 0
    <3>1. Len(rest) = Len(bytes)
      BY <2>3, <1>10, <1>12
    <3>2. read = P
      BY <2>1, <3>1, <1>7, <1>10
    <3> QED BY <2>3, <3>2, <1>7
  <2>4. CASE Len(status) # 0
    <3>1. a + P = Len(s) /\ Len(status) <= P
      BY <2>4, <1>8, <1>11
    <3>2. Len(bytes) = P
      BY <3>1, <1>4, <1>5, <1>7, <1>9, <1>10
    <3>3. Len(rest) = P - Len(status)
      BY <3>2, <1>12
    <3>4. ~ (P < Len(rest))
      BY <3>3, <1>7, <1>11
    <3>5. read = P - Len(status)
      BY <2>1, <3>3, <3>4
    <3> QED BY <3>1, <3>5, <1>7, <1>11
  <2> QED BY <2>3, <2>4
<1>14. Rest(rest, read) = Rest(avail, a + P)
  <2> DEFINE l == Len(status)
  <2>1. l \in Nat /\ l + read = P
    BY <1>11, <1>13
  <2>2. rest = Rest(Rest(avail, a), l)
    BY DEF rest, bytes
  <2> HIDE DEF l
  <2>3. /\ a + l \in Nat /\ a + l <= Len(avail) /\ (a + l) + read = a + P
        /\ (a + l) + read <= Len(avail)
    BY <2>1, <1>5, <1>7, <1>10, <1>13
  <2>4. Rest(Rest(avail, a), l) = Rest(avail, a + l)
    BY <2>1, <2>3, <1>1, <1>5, RestOfRest
  <2>5. Rest(Rest(avail, a + l), read) = Rest(avail, (a + l) + read)
    BY <2>3, <1>1, <1>13, RestOfRest
  <2> QED BY <2>2, <2>3, <2>4, <2>5
<1>15. ASSUME f.op = OpText PROVE frame = f.payload
  <2>1. status = <<>> /\ Len(status) = 0
    BY <1>11, <1>15, EmptySeq DEF OpText, OpClose
  <2>2. rest = bytes
    <3>1. rest = Rest(Rest(avail, a), 0)
      BY <2>1 DEF rest, bytes
    <3>2. a + 0 <= Len(avail) /\ 0 \in Nat /\ a + 0 = a
      BY <1>5
    <3>3. Rest(Rest(avail, a), 0) = Rest(avail, a + 0)
      BY <3>2, <1>1, <1>5, RestOfRest
    <3> QED BY <3>1, <3>2, <3>3 DEF bytes
  <2>3. read = P
    BY <2>1, <1>7, <1>13
  <2>4. data = First(bytes, P)
    BY <2>2, <2>3 DEF data
  <2> DEFINE mask == Mask(f.payload, f.key)
  <2> HIDE DEF mask
  <2>5. mask \in Seq({0, 1}) /\ Len(mask) = P /\ Mask(mask, f.key) = f.payload
    <3>1. f.key \in Seq({0, 1}) /\ Len(f.key) = 4
      BY <1>7, QWsSocketAssumption
    <3>2. f.payload \in Seq({0, 1})
      BY <1>7
    <3> HIDE DEF f
    <3> QED BY <3>1, <3>2, MaskTwice DEF mask, P
  <2>6. data = mask
    <3>1. P \in 0 .. Len(bytes)
      BY <1>7, <1>10
    <3>2. data \in Seq(Byte) /\ Len(data) = P /\ \A i \in 1 .. P : data[i] = bytes[i]
      BY <2>4, <3>1, <1>9, FirstBytes
    <3>3. mask \in Seq(Byte)
      <4>1. {0, 1} \subseteq Byte
        BY DEF Byte
      <4> QED BY <4>1, <2>5, SeqMonotonic
    <3>4. \A i \in 1 .. P : Bytes(f)[h + 4 + i] = mask[i]
      BY <1>6, FrameContents DEF IsFrame, mask, P, h
    <3>5. ASSUME NEW i \in 1 .. P PROVE data[i] = mask[i]
      <4> DEFINE k == h + 4 + i
      <4>1. /\ i \in 1 .. Len(avail) - a /\ a + i \in 1 .. Len(avail)
            /\ k \in 1 .. Size(f) /\ f.at + k = a + i /\ f.at + k >= 1
        <5>1. f.at \in Int /\ h \in Nat /\ P \in Nat /\ a \in Nat /\ Len(avail) \in Nat /\ a + P <= Len(avail)
          BY <1>5, <1>7, <1>10
        <5>2. f.at + h + 4 = a /\ Size(f) = h + 4 + P
          BY <1>3, <1>7
        <5> QED BY <5>1, <5>2
      <4> HIDE DEF k
      <4>2. data[i] = avail[a + i]
        BY <4>1, <3>2, <1>9
      <4>3. avail[a + i] = s[f.at + k]
        BY <4>1, <1>4
      <4>4. s[f.at + k] = Bytes(f)[k]
        BY <4>1, <1>8
      <4> QED BY <4>2, <4>3, <4>4, <3>4 DEF k
    <3> QED BY <2>5, <3>2, <3>3, <3>5, SeqEqual
  <2>7. frame = <<>> \o Mask(data, f.key)
    BY DEF RInv, AtBody, frame
  <2> QED BY <2>5, <2>6, <2>7, <1>7, ConcatEmptySeq
<1>16. received' = IF f.op = OpText THEN Append(received, f.payload) ELSE received
  <2>1. received' = IF f.op \in {OpText, OpBinary} THEN Append(received, frame) ELSE received
    BY <1>2, <1>3 DEF EndFrame
  <2> QED BY <2>1, <1>7, <1>15 DEF OpText, OpBinary, OpPing, OpClose
<1>17. /\ received' \in Seq(Seq(Byte)) /\ Len(received') = n + Texts(f)
       /\ Len(received') <= Len(sent)
       /\ \A i \in 1 .. Len(received') : received'[i] = sent[i]
  <2>1. n <= Len(sent) /\ \A i \in 1 .. n : received[i] = sent[i]
    BY DEF RInv, n
  <2>2. CASE f.op = OpText
    <3>1. f.payload \in Seq(Byte)
      <4>1. {0, 1} \subseteq Byte
        BY DEF Byte
      <4> QED BY <4>1, <1>7, SeqMonotonic
    <3>2. received' = Append(received, f.payload)
      BY <2>2, <1>16
    <3>3. /\ received' \in Seq(Seq(Byte)) /\ Len(received') = n + 1
          /\ (\A i \in 1 .. n : received'[i] = received[i]) /\ received'[n + 1] = f.payload
      BY <3>1, <3>2, <1>1, AppendProperties DEF n
    <3>4. Texts(f) = 1 /\ n + 1 <= Len(sent) /\ f.payload = sent[n + 1]
      BY <2>2, <1>5, <1>8 DEF Texts
    <3>5. \A i \in 1 .. n + 1 : i \in 1 .. n \/ i = n + 1
      BY <1>5
    <3> QED BY <2>1, <3>3, <3>4, <3>5
  <2>3. CASE f.op # OpText
    <3>1. received' = received /\ Texts(f) = 0
      BY <2>3, <1>16 DEF Texts
    <3>2. n + 0 = n
      BY <1>5
    <3> QED BY <2>1, <3>1, <3>2, <1>1 DEF n
  <2> QED BY <2>2, <2>3
<1>18. currentFrame' = <<>>
  BY <1>2 DEF EndFrame
<1> DEFINE k == a + P
           r == Moved(q, k)
           t == Rest(s, k)
<1>19. k \in 0 .. Len(s) /\ k \in 0 .. Len(avail) /\ k \in Nat
  BY <1>5, <1>7, <1>8, <1>10, <1>4
<1> HIDE DEF k, r, t
<1>20. t \in Seq(Byte) /\ avail' \in Seq(Byte) /\ avail' \o wire' = t
  <2>1. avail' = Rest(avail, k) /\ wire' = wire
    BY <1>2, <1>14 DEF k
  <2>2. Rest(avail, k) \in Seq(Byte) /\ Rest(avail, k) \o wire = Rest(avail \o wire, k)
    BY <1>1, <1>19, RestBytes, RestOfStream
  <2>3. t \in Seq(Byte)
    BY <1>4, <1>19, RestBytes DEF t
  <2> QED BY <2>1, <2>2, <2>3 DEF s, t
<1>21. /\ ToCome(r, t, sent, n, open) /\ r # <<>>
       /\ r[1].op = f.op /\ r[1].payload = f.payload /\ r[1].at = f.at - k
  <2>1. /\ ToCome(Moved(q, k), Rest(s, k), sent, n, open) /\ Len(Moved(q, k)) = Len(q)
        /\ \A i \in 1 .. Len(q) : /\ Moved(q, k)[i].op = q[i].op /\ Moved(q, k)[i].payload = q[i].payload
                                  /\ Moved(q, k)[i].at = q[i].at - k
    BY <1>3, <1>4, <1>19, BytesRead
  <2>2. Moved(q, k) # <<>>
    BY <2>1, <1>6, EmptySeq
  <2> QED BY <2>1, <2>2, <1>6 DEF r, t, f
<1>22. Size(r[1]) = Size(f) /\ Texts(r[1]) = Texts(f)
  BY <1>21 DEF Size, Texts
<1>23. r[1].at + Size(r[1]) = 0
  <2>1. f.at + Size(f) = k
    BY <1>8 DEF k
  <2>2. Size(f) \in Nat
    BY <1>6, FrameFacts
  <2>3. (f.at - k) + Size(f) = 0
    BY <2>1, <2>2, <1>7, <1>19
  <2> QED BY <2>3, <1>21, <1>22
<1>24. ToCome(Tail(r), t, sent, n + Texts(f), open) /\ (Tail(r) # <<>> => Tail(r)[1].at = 0)
  BY <1>20, <1>21, <1>22, <1>23, FrameRead
<1>25. Reading'
  <2>1. sent' = sent /\ browser' = browser
    BY DEF page
  <2>2. ToCome(Tail(r), avail' \o wire', sent', Len(received'), browser' = "open")
    BY <2>1, <1>17, <1>20, <1>24 DEF open
  <2>3. Parsing(Tail(r))'
    BY <1>2, <1>24 DEF Parsing
  <2> QED BY <2>2, <2>3, <1>18 DEF Reading
<1> QED BY <1>2, <1>17, <1>20, <1>25

\* Steps that leave the bytes, the parser and the messages alone.
LEMMA ParserStays ==
  ASSUME RInv, UNCHANGED <<wire, avail, parser, currentFrame, page, received>>,
         running' \in BOOLEAN, ResetEnds'
  PROVE  RInv'
<1>1. ParserTypes'
  BY DEF RInv, ParserTypes, parser, page
<1>2. (browser # "reset" => Reading)'
  BY DEF RInv, Reading, Parsing, parser, page
<1> QED BY <1>1, <1>2 DEF RInv, page

\* The browser's side: a frame is sent.
LEMMA FrameSent ==
  ASSUME RInv, browser = "open", browser' \in {"open", "closing"},
         NEW op \in {OpText, OpPing, OpClose}, NEW payload \in Payloads, NEW key \in Keys,
         op = OpClose => browser' = "closing",
         \/ op = OpText /\ payload \in Events /\ sent' = Append(sent, payload)
         \/ op # OpText /\ sent' = sent,
         wire' = wire \o ClientFrame(op, payload, key),
         pings' \in 0 .. MaxSent,
         UNCHANGED <<avail, running, parser, currentFrame, closing, received>>
  PROVE  RInv'
<1> DEFINE s == avail \o wire
           b == ClientFrame(op, payload, key)
           n == Len(received)
<1>0. PICK f : f = [op |-> op, payload |-> payload, key |-> key, at |-> Len(s), no |-> Len(sent)]
  OBVIOUS
<1>1. wire \in Seq(Byte) /\ avail \in Seq(Byte) /\ sent \in Seq(Events) /\ received \in Seq(Seq(Byte))
  BY DEF RInv, ParserTypes
<1>2. PICK q : ToCome(q, s, sent, n, TRUE) /\ Parsing(q)
  <2>1. Reading /\ (browser = "open") = TRUE
    BY DEF RInv
  <2> QED BY <2>1 DEF Reading
<1>3. b \in Seq(Byte)
  <2>1. payload \in Seq({0, 1}) /\ Len(payload) <= 65535
    BY PayloadFacts
  <2> QED BY <2>1, FrameBytes DEF IsFrame
<1>4. s \in Seq(Byte) /\ wire' \in Seq(Byte) /\ avail' \o wire' = s \o b
  <2>1. s \in Seq(Byte)
    BY <1>1, ConcatProperties
  <2>2. wire' = wire \o b /\ avail' = avail
    OBVIOUS
  <2> HIDE DEF b
  <2>3. wire \o b \in Seq(Byte)
    BY <1>1, <1>3, ConcatProperties
  <2>4. (avail \o wire) \o b = avail \o (wire \o b)
    <3>1. \A x, y, z \in Seq(Byte) : (x \o y) \o z = x \o (y \o z)
      BY ONLY ConcatAssociative
    <3>2. avail \in Seq(Byte) /\ wire \in Seq(Byte) /\ b \in Seq(Byte)
      BY <1>1, <1>3
    <3> QED BY ONLY <3>1, <3>2
  <2> QED BY <2>1, <2>2, <2>3, <2>4
<1>5. sent' \in Seq(Events) /\ Len(sent) <= Len(sent') /\ \A i \in 1 .. Len(sent) : sent'[i] = sent[i]
  <2>1. Len(sent) \in Nat
    BY <1>1, LenProperties
  <2>2. CASE op = OpText
    <3>1. payload \in Events /\ sent' = Append(sent, payload)
      BY <2>2
    <3>2. sent' \in Seq(Events) /\ Len(sent') = Len(sent) + 1 /\ \A i \in 1 .. Len(sent) : sent'[i] = sent[i]
      BY <3>1, <1>1, AppendProperties
    <3> QED BY <2>1, <3>2
  <2>3. CASE op # OpText
    BY <2>1, <2>3, <1>1
  <2> QED BY <2>2, <2>3
<1>6. ToCome(Append(q, f), s \o b, sent', n, browser' = "open")
  <2>1. op = OpClose => ~ (browser' = "open")
    OBVIOUS
  <2> HIDE DEF s, n
  <2> QED BY <2>1, <1>0, <1>1, <1>2, <1>4, <1>5, FrameComes
<1>7. Parsing(Append(q, f))'
  <2>1. q \in Seq(Frames)
    BY <1>2 DEF ToCome
  <2>2. Append(q, f) # <<>> /\ Append(q, f)[1] = IF q = <<>> THEN f ELSE q[1]
    <3>1. f \in Frames
      <4>1. Len(s) \in Nat /\ Len(sent) \in Nat
        BY <1>1, <1>4, LenProperties
      <4> QED BY <4>1, <1>0 DEF Frames
    <3>2. /\ Append(q, f) # <<>> /\ Append(q, f)[Len(q) + 1] = f
          /\ \A i \in 1 .. Len(q) : Append(q, f)[i] = q[i]
      BY <2>1, <3>1, AppendProperties
    <3>3. q = <<>> => Len(q) + 1 = 1
      BY EmptySeq
    <3>4. q # <<>> => 1 \in 1 .. Len(q)
      BY <2>1, EmptySeq
    <3> QED BY <3>2, <3>3, <3>4
  <2>3. q = <<>> => f.at = 0
    <3>1. q = <<>> => s = <<>>
      BY <1>2 DEF ToCome
    <3> QED BY <3>1, <1>0, EmptySeq
  <2>4. UNCHANGED parser
    OBVIOUS
  <2>5. CASE q = <<>>
    <3>1. readingState = "HeaderPending"
      BY <2>5, <1>2 DEF Parsing
    <3> QED BY <2>2, <2>3, <2>4, <2>5, <3>1 DEF Parsing, parser
  <2>6. CASE q # <<>>
    BY <2>2, <2>4, <2>6, <1>2 DEF Parsing, parser
  <2> QED BY <2>5, <2>6
<1>8. Reading'
  <2>1. avail' \o wire' = s \o b /\ Len(received') = n
    BY <1>4
  <2>2. currentFrame' = <<>>
    BY DEF RInv
  <2> HIDE DEF s, b, n
  <2> QED BY <2>1, <2>2, <1>6, <1>7 DEF Reading
<1>9. ParserTypes'
  BY <1>4, <1>5 DEF RInv, ParserTypes, parser
<1>10. Len(received') <= Len(sent') /\ \A i \in 1 .. Len(received') : received'[i] = sent'[i]
  <2>1. n \in Nat /\ Len(sent) \in Nat /\ Len(sent') \in Nat
    BY <1>1, <1>5, LenProperties
  <2>2. n <= Len(sent) /\ \A i \in 1 .. n : received[i] = sent[i]
    BY DEF RInv
  <2>3. received' = received /\ Len(received') = n
    OBVIOUS
  <2> HIDE DEF n
  <2>4. n <= Len(sent')
    BY <2>1, <2>2, <1>5
  <2>5. ASSUME NEW i \in 1 .. n PROVE received'[i] = sent'[i]
    <3>1. i \in 1 .. Len(sent)
      BY <2>1, <2>2
    <3> QED BY <3>1, <2>2, <2>3, <1>5
  <2> QED BY <2>3, <2>4, <2>5
<1> QED BY <1>8, <1>9, <1>10 DEF RInv, ResetEnds

LEMMA BrowserLeft ==
  ASSUME RInv, Leave
  PROVE  RInv'
<1>1. browser \in {"open", "closing"} /\ browser' = "left" /\ UNCHANGED <<wire, avail, running, parser, currentFrame, closing, pings, sent, received>>
  BY DEF Leave
<1>2. ParserTypes'
  BY <1>1 DEF RInv, ParserTypes, parser
<1>3. Reading'
  <2>1. PICK q : ToCome(q, avail \o wire, sent, Len(received), browser = "open") /\ Parsing(q)
    BY <1>1 DEF RInv, Reading
  <2>2. ToCome(q, avail \o wire, sent, Len(received), FALSE)
    BY <2>1, NoMoreFrames
  <2>3. ToCome(q, avail' \o wire', sent', Len(received'), browser' = "open")
    <3>1. (browser' = "open") = FALSE
      BY <1>1
    <3> QED BY <2>2, <3>1, <1>1
  <2>4. Parsing(q)'
    BY <2>1, <1>1 DEF Parsing, parser
  <2> QED BY <2>3, <2>4, <1>1 DEF Reading, RInv
<1> QED BY <1>1, <1>2, <1>3 DEF RInv, ResetEnds

\* TCP delivers.
LEMMA BytesCome ==
  ASSUME RInv, NEW k \in DOMAIN wire, ReadyRead(k)
  PROVE  RInv'
<1>1. /\ avail' = avail \o First(wire, k) /\ wire' = Rest(wire, k) /\ running' = TRUE
      /\ UNCHANGED <<parser, currentFrame, closing, page, received>> /\ state # "Unconnected"
  BY DEF ReadyRead
<1>2. wire \in Seq(Byte) /\ avail \in Seq(Byte)
  BY DEF RInv, ParserTypes
<1>3. k \in 0 .. Len(wire)
  BY <1>2, LenProperties
<1>4. avail' \in Seq(Byte) /\ wire' \in Seq(Byte) /\ avail' \o wire' = avail \o wire
  BY <1>1, <1>2, <1>3, SplitStream, RestBytes
<1>5. browser # "reset"
  BY <1>1 DEF RInv, ResetEnds
<1>6. ParserTypes'
  BY <1>1, <1>4 DEF RInv, ParserTypes, parser, page
<1>7. Reading'
  BY <1>1, <1>4, <1>5 DEF RInv, Reading, Parsing, parser, page
<1> QED BY <1>1, <1>5, <1>6, <1>7 DEF RInv, ResetEnds, page

\* The connection breaks.
LEMMA ConnectionBreaks ==
  ASSUME RInv, TcpReset
  PROVE  RInv'
<1>1. /\ running = FALSE /\ browser' = "reset" /\ wire' = <<>> /\ state' = "Unconnected"
      /\ UNCHANGED <<avail, running, parser, currentFrame, pings, sent, received>>
  BY DEF TcpReset, TcpUnconnected, RInv, ParserTypes
<1>2. ParserTypes'
  BY <1>1, EmptySeq DEF RInv, ParserTypes, parser
<1> QED BY <1>1, <1>2 DEF RInv, ResetEnds

\* k bytes of avail are read.
LEMMA BytesTaken ==
  ASSUME RInv, NEW q, ToCome(q, avail \o wire, sent, Len(received), browser = "open"),
         NEW k \in 0 .. Len(avail), avail' = Rest(avail, k), UNCHANGED <<wire, page, received>>
  PROVE  /\ avail' \in Seq(Byte)
         /\ ToCome(Moved(q, k), avail' \o wire', sent', Len(received'), browser' = "open")
         /\ q # <<>> => /\ Moved(q, k) # <<>> /\ Moved(q, k)[1].op = q[1].op
                        /\ Moved(q, k)[1].payload = q[1].payload /\ Moved(q, k)[1].key = q[1].key
                        /\ Moved(q, k)[1].at = q[1].at - k
<1> DEFINE s == avail \o wire
           n == Len(received)
           open == browser = "open"
           r == Moved(q, k)
<1>1. wire \in Seq(Byte) /\ avail \in Seq(Byte)
  BY DEF RInv, ParserTypes
<1>2. s \in Seq(Byte) /\ Len(s) = Len(avail) + Len(wire) /\ Len(avail) \in Nat /\ Len(wire) \in Nat
  BY <1>1, Joined, LenProperties DEF IsJoin
<1>3. k \in 0 .. Len(s)
  BY <1>2
<1>4. Rest(avail, k) \in Seq(Byte) /\ Rest(avail, k) \o wire = Rest(s, k)
  BY <1>1, RestBytes, RestOfStream
<1>5. avail' \o wire' = Rest(s, k) /\ n = Len(received') /\ sent' = sent /\ open = (browser' = "open")
  BY <1>4 DEF page
<1> HIDE DEF s, n, open, r
<1>6. /\ ToCome(r, Rest(s, k), sent, n, open) /\ Len(r) = Len(q)
      /\ \A i \in 1 .. Len(q) : /\ r[i].op = q[i].op /\ r[i].payload = q[i].payload
                                /\ r[i].key = q[i].key /\ r[i].at = q[i].at - k
  <2>1. ToCome(q, s, sent, n, open)
    BY DEF s, n, open
  <2> QED BY <2>1, <1>2, <1>3, BytesRead DEF r
<1>7. q # <<>> => 1 \in 1 .. Len(q) /\ r # <<>>
  <2>1. q \in Seq(Frames)
    BY DEF ToCome
  <2> QED BY <2>1, <1>6, EmptySeq
<1> QED BY <1>4, <1>5, <1>6, <1>7 DEF r

\* The unread bytes of the first frame are those of avail.
LEMMA NextBytes ==
  ASSUME RInv, NEW q, ToCome(q, avail \o wire, sent, Len(received), browser = "open"), q # <<>>
  PROVE  /\ q[1] \in Frames
         /\ \A j \in 1 .. Size(q[1]) : q[1].at + j \in 1 .. Len(avail) => avail[q[1].at + j] = Bytes(q[1])[j]
<1> DEFINE s == avail \o wire
           f == q[1]
<1>1. wire \in Seq(Byte) /\ avail \in Seq(Byte)
  BY DEF RInv, ParserTypes
<1>2. Len(avail) \in Nat /\ \A i \in 1 .. Len(avail) : s[i] = avail[i]
  BY <1>1, Joined, LenProperties DEF IsJoin
<1>3. q \in Seq(Frames) /\ 1 \in 1 .. Len(q)
  <2>1. q \in Seq(Frames)
    BY DEF ToCome
  <2> QED BY <2>1, EmptySeq
<1>4. f \in Frames /\ f.at \in Int
  <2>1. f \in Frames
    BY <1>3, ElementOfSeq
  <2> QED BY <2>1, FrameFacts
<1>5. \A j \in 1 .. Size(f) : f.at + j >= 1 => s[f.at + j] = Bytes(f)[j]
  BY <1>3 DEF ToCome, OnItsWay
<1> HIDE DEF s, f
<1>6. ASSUME NEW j \in 1 .. Size(f), f.at + j \in 1 .. Len(avail) PROVE avail[f.at + j] = Bytes(f)[j]
  <2>1. f.at + j >= 1
    BY <1>6
  <2> QED BY <2>1, <1>2, <1>5, <1>6
<1> QED BY <1>4, <1>6 DEF f

LEMMA Processing ==
  ASSUME RInv, running
  PROVE  /\ browser # "reset" /\ currentFrame = <<>> /\ avail \in Seq(Byte) /\ Len(avail) \in Nat
         /\ \E q : ToCome(q, avail \o wire, sent, Len(received), browser = "open") /\ Parsing(q)
<1>1. browser # "reset" /\ avail \in Seq(Byte)
  BY DEF RInv, ResetEnds, ParserTypes
<1> QED BY <1>1, LenProperties DEF RInv, Reading

LEMMA HeaderComes ==
  ASSUME RInv, ReadHeader
  PROVE  RInv'
<1>1. /\ running /\ readingState = "HeaderPending" /\ 2 \in 0 .. Len(avail) /\ avail' = Rest(avail, 2)
      /\ UNCHANGED <<wire, running, maskingKey, currentFrame, closing, down, page, received>>
  <2>1. avail \in Seq(Byte)
    BY DEF RInv, ParserTypes
  <2>2. Len(avail) \in Nat
    BY <2>1, LenProperties
  <2> QED BY <2>2 DEF ReadHeader
<1>2. PICK q : ToCome(q, avail \o wire, sent, Len(received), browser = "open") /\ Parsing(q)
  BY <1>1, Processing
<1>3. avail \in Seq(Byte) /\ wire \in Seq(Byte) /\ browser # "reset" /\ currentFrame = <<>> /\ Len(avail) \in Nat
  BY <1>1, Processing DEF RInv, ParserTypes
<1>4. q # <<>>
  <2>1. avail # <<>>
    BY <1>1, EmptySeq
  <2>2. avail \o wire # <<>>
    BY <2>1, <1>3, ConcatEqualIffEmpty
  <2> QED BY <2>2, <1>2 DEF ToCome
<1> DEFINE f == q[1]
           P == Len(f.payload)
           x == IF P < 126 THEN P ELSE 126
<1>5. f.at = 0
  BY <1>1, <1>2, <1>4 DEF Parsing
<1>6. f \in Frames /\ \A j \in 1 .. Size(f) : f.at + j \in 1 .. Len(avail) => avail[f.at + j] = Bytes(f)[j]
  BY <1>2, <1>4, NextBytes
<1> HIDE DEF f
<1>7. /\ P \in Nat /\ P <= 65535 /\ Size(f) \in Nat /\ Size(f) >= 6 /\ f.op \in {OpText, OpPing, OpClose}
      /\ HeadSize(f.payload) = IF P < 126 THEN 2 ELSE 4
  BY <1>6, FrameFacts DEF Frames, HeadSize
<1>8. avail[1] = 128 + f.op /\ avail[2] = 128 + x
  <2>1. 1 \in 1 .. Size(f) /\ 2 \in 1 .. Size(f) /\ 0 + 1 = 1 /\ 0 + 2 = 2 /\ 1 \in 1 .. Len(avail) /\ 2 \in 1 .. Len(avail)
    BY <1>1, <1>3, <1>7
  <2>2. avail[1] = Bytes(f)[1] /\ avail[2] = Bytes(f)[2]
    BY <2>1, <1>5, <1>6
  <2> QED BY <2>2, <1>6, FrameContents DEF IsFrame
<1>9. (avail[1] >= 128) = TRUE /\ avail[1] % 16 = f.op
  BY <1>7, <1>8 DEF OpText, OpPing, OpClose
<1> HIDE DEF P
<1>10. x \in 0 .. 126 /\ (x = 126 <=> ~ (P < 126)) /\ (P < 126 => x = P)
  BY <1>7
<1> HIDE DEF x
<1>11. (avail[2] >= 128) = TRUE /\ avail[2] % 128 = x
  BY <1>8, <1>10
<1>12. /\ isFinalFragment' = TRUE /\ hasMask' = TRUE /\ opcode' = f.op
       /\ readingState' = IF P < 126 THEN "MaskPending" ELSE "PayloadLengthPending"
       /\ payloadLength' = IF P < 126 THEN P ELSE payloadLength
  <2>1. isFinalFragment' = (avail[1] >= 128) /\ hasMask' = (avail[2] >= 128) /\ opcode' = avail[1] % 16
    BY DEF ReadHeader
  <2>2. /\ readingState' = CASE x = 126 -> "PayloadLengthPending" [] x = 127 -> "BigPayloadLenghPending"
                             [] OTHER -> "MaskPending"
        /\ payloadLength' = IF x < 126 THEN x ELSE payloadLength
    BY <1>11 DEF ReadHeader
  <2>3. CASE P < 126
    <3>1. x = P /\ x # 126 /\ x # 127 /\ x < 126
      BY <2>3, <1>10
    <3> QED BY <2>1, <2>2, <2>3, <3>1, <1>9, <1>11
  <2>4. CASE ~ (P < 126)
    <3>1. x = 126 /\ ~ (x < 126)
      BY <2>4, <1>10
    <3>2. readingState' = "PayloadLengthPending"
      BY <2>2, <3>1
    <3>3. payloadLength' = payloadLength
      BY <2>2, <3>1
    <3> QED BY <2>1, <2>4, <3>2, <3>3, <1>9, <1>11
  <2> QED BY <2>3, <2>4
<1> DEFINE r == Moved(q, 2)
<1>13. /\ avail' \in Seq(Byte)
       /\ ToCome(r, avail' \o wire', sent', Len(received'), browser' = "open")
       /\ r # <<>> /\ r[1].op = f.op /\ r[1].payload = f.payload /\ r[1].at = 0 - 2
  BY <1>1, <1>2, <1>4, <1>5, BytesTaken DEF f
<1> HIDE DEF r
<1>14. \E q2 : (ToCome(q2, avail \o wire, sent, Len(received), browser = "open") /\ Parsing(q2))'
  <2>1. PICK q2 : q2 = r
    OBVIOUS
  <2>2. Parsing(q2)'
    BY <2>1, <1>7, <1>12, <1>13 DEF Parsing, P
  <2> QED BY <2>1, <2>2, <1>13
<1>15. Reading'
  BY <1>1, <1>3, <1>14 DEF Reading
<1>16. ParserTypes'
  <2>1. payloadLength' \in {0, 1, 2} \/ \E e \in Events : payloadLength' = Len(e)
    <3>1. f.payload \in Payloads
      BY <1>6 DEF Frames
    <3>2. P \in {0, 1, 2} \/ \E e \in Events : P = Len(e)
      BY <3>1, PayloadFacts DEF P
    <3>3. payloadLength \in {0, 1, 2} \/ \E e \in Events : payloadLength = Len(e)
      BY DEF RInv, ParserTypes
    <3> QED BY <3>2, <3>3, <1>12
  <2>2. opcode' \in 0 .. 15
    BY <1>7, <1>12 DEF OpText, OpPing, OpClose
  <2>3. readingState' \in {"MaskPending", "PayloadLengthPending"}
    BY <1>12
  <2> QED BY <2>1, <2>2, <2>3, <1>1, <1>12, <1>13 DEF RInv, ParserTypes, page
<1> QED BY <1>1, <1>15, <1>16 DEF RInv, ResetEnds, page, closing

LEMMA LengthIsRead ==
  ASSUME RInv, ReadLength
  PROVE  RInv'
<1>1. PICK n \in {2, 8} :
        /\ readingState = IF n = 2 THEN "PayloadLengthPending" ELSE "BigPayloadLenghPending"
        /\ Len(avail) >= n
        /\ payloadLength' = FromBigEndian(First(avail, n))
        /\ avail' = Rest(avail, n)
  BY DEF ReadLength
<1>2. n = 2 /\ readingState = "PayloadLengthPending"
  <2>1. readingState # "BigPayloadLenghPending"
    BY DEF RInv, ParserTypes
  <2> QED BY <2>1, <1>1
<1>3. /\ running /\ readingState' = "MaskPending"
      /\ UNCHANGED <<wire, running, isFinalFragment, opcode, hasMask, maskingKey, currentFrame, closing, page,
                     received>>
  BY DEF ReadLength
<1>4. PICK q : ToCome(q, avail \o wire, sent, Len(received), browser = "open") /\ Parsing(q)
  BY <1>3, Processing
<1>5. avail \in Seq(Byte) /\ browser # "reset" /\ currentFrame = <<>> /\ Len(avail) \in Nat
  BY <1>3, Processing
<1> DEFINE f == q[1]
           P == Len(f.payload)
           b == First(avail, 2)
<1>6. /\ q # <<>> /\ isFinalFragment = TRUE /\ hasMask = TRUE /\ opcode = f.op
      /\ f.at = 0 - 2 /\ HeadSize(f.payload) = 4
  BY <1>2, <1>4 DEF Parsing
<1>7. f \in Frames /\ \A j \in 1 .. Size(f) : f.at + j \in 1 .. Len(avail) => avail[f.at + j] = Bytes(f)[j]
  BY <1>4, <1>6, NextBytes
<1> HIDE DEF f
<1>8. P \in Nat /\ Size(f) \in Nat /\ Size(f) >= 6 /\ f.payload \in Payloads
  BY <1>7, FrameFacts DEF Frames
<1>9. 2 \in 0 .. Len(avail) /\ 1 \in 1 .. 2 /\ 2 \in 1 .. 2
  BY <1>1, <1>2, <1>5
<1>10. avail[1] = P \div 256 /\ avail[2] = P % 256
  <2>1. /\ 3 \in 1 .. Size(f) /\ 4 \in 1 .. Size(f) /\ (0 - 2) + 3 = 1 /\ (0 - 2) + 4 = 2
        /\ 1 \in 1 .. Len(avail) /\ 2 \in 1 .. Len(avail)
    BY <1>5, <1>8, <1>9
  <2>2. avail[1] = Bytes(f)[3] /\ avail[2] = Bytes(f)[4]
    BY <2>1, <1>6, <1>7
  <2> QED BY <2>2, <1>6, <1>7, FrameContents DEF IsFrame
<1>11. payloadLength' = P
  <2>1. b \in Seq(Byte) /\ Len(b) = 2 /\ \A i \in 1 .. 2 : b[i] = avail[i]
    BY <1>5, <1>9, FirstBytes
  <2> HIDE DEF b, P
  <2>2. FromBigEndian(b) = b[1] * 256 + b[2]
    BY <2>1, LengthRead
  <2>3. b[1] = P \div 256 /\ b[2] = P % 256
    BY <2>1, <1>9, <1>10
  <2>4. (P \div 256) * 256 + (P % 256) = P
    BY <1>8
  <2> QED BY <2>2, <2>3, <2>4, <1>1, <1>2 DEF b
<1> DEFINE r == Moved(q, 2)
<1>12. /\ avail' \in Seq(Byte)
       /\ ToCome(r, avail' \o wire', sent', Len(received'), browser' = "open")
       /\ r # <<>> /\ r[1].op = f.op /\ r[1].payload = f.payload /\ r[1].at = 0 - 4
  <2>1. (0 - 2) - 2 = 0 - 4
    OBVIOUS
  <2> QED BY <2>1, <1>1, <1>2, <1>3, <1>4, <1>6, <1>9, BytesTaken DEF f
<1> HIDE DEF r, P, b
<1>13. \E q2 : (ToCome(q2, avail \o wire, sent, Len(received), browser = "open") /\ Parsing(q2))'
  <2>1. PICK q2 : q2 = r
    OBVIOUS
  <2>2. Parsing(q2)'
    BY <2>1, <1>3, <1>6, <1>11, <1>12 DEF Parsing, P
  <2> QED BY <2>1, <2>2, <1>12
<1>14. Reading'
  BY <1>3, <1>5, <1>13 DEF Reading
<1>15. ParserTypes'
  <2>1. P \in {0, 1, 2} \/ \E e \in Events : P = Len(e)
    BY <1>8, PayloadFacts DEF P
  <2> QED BY <2>1, <1>3, <1>11, <1>12 DEF RInv, ParserTypes, page
<1> QED BY <1>3, <1>14, <1>15 DEF RInv, ResetEnds, page, closing

LEMMA MaskRead ==
  ASSUME RInv, ReadMask
  PROVE  RInv'
<1> DEFINE mask == First(avail, 4)
           bytes == Rest(avail, 4)
<1>1. /\ running /\ readingState = "MaskPending" /\ Len(avail) >= 4 /\ maskingKey' = mask
      /\ UNCHANGED <<wire, isFinalFragment, opcode, hasMask, payloadLength, page>>
  BY DEF ReadMask
<1>2. PICK q : ToCome(q, avail \o wire, sent, Len(received), browser = "open") /\ Parsing(q)
  BY <1>1, Processing
<1>3. avail \in Seq(Byte) /\ browser # "reset" /\ currentFrame = <<>> /\ Len(avail) \in Nat
  BY <1>1, Processing
<1> DEFINE f == q[1]
           P == Len(f.payload)
           h == HeadSize(f.payload)
<1>4. /\ q # <<>> /\ isFinalFragment = TRUE /\ hasMask = TRUE /\ opcode = f.op
      /\ f.at = 0 - h /\ payloadLength = P
  BY <1>1, <1>2 DEF Parsing
<1>5. f \in Frames /\ \A j \in 1 .. Size(f) : f.at + j \in 1 .. Len(avail) => avail[f.at + j] = Bytes(f)[j]
  BY <1>2, <1>4, NextBytes
<1> HIDE DEF f, h, mask, bytes
<1>6. P \in Nat /\ h \in {2, 4} /\ Size(f) = h + 4 + P /\ f.key \in Keys /\ f.op \in {OpText, OpPing, OpClose}
  BY <1>5, FrameFacts DEF Frames, Size, h
<1>7. 4 \in 0 .. Len(avail) /\ 4 \in Nat
  BY <1>1, <1>3
<1>8. mask = f.key
  <2>1. mask \in Seq(Byte) /\ Len(mask) = 4 /\ \A i \in 1 .. 4 : mask[i] = avail[i]
    BY <1>3, <1>7, FirstBytes DEF mask
  <2>2. f.key \in Seq(Byte) /\ Len(f.key) = 4
    <3>1. f.key \in Seq({0, 1}) /\ Len(f.key) = 4
      BY <1>6, QWsSocketAssumption
    <3>2. {0, 1} \subseteq Byte
      BY DEF Byte
    <3> QED BY <3>1, <3>2, SeqMonotonic
  <2>3. ASSUME NEW i \in 1 .. 4 PROVE mask[i] = f.key[i]
    <3> HIDE DEF P
    <3>1. h + i \in 1 .. Size(f) /\ f.at + (h + i) = i /\ i \in 1 .. Len(avail)
      <4>1. h \in Nat /\ f.at = 0 - h
        BY <1>4, <1>6
      <4> QED BY <4>1, <1>3, <1>6, <1>7
    <3>2. avail[i] = Bytes(f)[h + i]
      BY <3>1, <1>5
    <3>3. Bytes(f)[h + i] = f.key[i]
      BY <1>5, FrameContents DEF IsFrame, h
    <3> QED BY <2>1, <3>2, <3>3
  <2>4. \A i \in 1 .. Len(mask) : mask[i] = f.key[i]
    BY <2>1, <2>3
  <2> QED BY <2>1, <2>2, <2>4, SeqEqual
<1>9. CASE Len(bytes) < payloadLength
  <2> DEFINE r == Moved(q, 4)
  <2>1. /\ readingState' = IF opcode = OpClose THEN "CloseDataPending" ELSE "PayloadBodyPending"
        /\ avail' = bytes /\ running' = FALSE
        /\ UNCHANGED <<currentFrame, closing, received>>
    BY <1>9 DEF ReadMask, mask, bytes
  <2>2. /\ avail' \in Seq(Byte)
        /\ ToCome(r, avail' \o wire', sent', Len(received'), browser' = "open")
        /\ r # <<>> /\ r[1].op = f.op /\ r[1].payload = f.payload /\ r[1].key = f.key /\ r[1].at = f.at - 4
    BY <2>1, <1>1, <1>2, <1>4, <1>7, BytesTaken DEF f, bytes
  <2> HIDE DEF r, P
  <2>3. f.at - 4 = 0 - (h + 4)
    BY <1>4, <1>6
  <2>4. \E q2 : (ToCome(q2, avail \o wire, sent, Len(received), browser = "open") /\ Parsing(q2))'
    <3>1. PICK q2 : q2 = r
      OBVIOUS
    <3>2. Parsing(q2)'
      BY <3>1, <2>1, <2>2, <2>3, <1>1, <1>4, <1>8 DEF Parsing, P, h
    <3> QED BY <3>1, <3>2, <2>2
  <2>5. Reading'
    BY <2>1, <2>4, <1>3 DEF Reading
  <2>6. ParserTypes'
    BY <2>1, <2>2, <1>1, <1>6, <1>8 DEF RInv, ParserTypes, page
  <2> QED BY <2>1, <2>5, <2>6, <1>1, <1>3 DEF RInv, ResetEnds, page, closing
<1>10. CASE ~ (Len(bytes) < payloadLength)
  <2>1. ReadBody(bytes, f.key) /\ UNCHANGED running
    BY <1>8, <1>10 DEF ReadMask, mask, bytes
  <2>2. AtBody(q, 4)
    <3>1. f.at + h + 4 = 4
      BY <1>4, <1>6
    <3> QED BY <3>1, <1>2, <1>4, <1>7, <1>10 DEF AtBody, f, h, bytes
  <2>3. /\ avail' \in Seq(Byte) /\ readingState' = "HeaderPending"
        /\ received' \in Seq(Seq(Byte)) /\ Len(received') <= Len(sent)
        /\ \A i \in 1 .. Len(received') : received'[i] = sent[i]
        /\ Reading'
    BY <2>1, <2>2, <1>1, BodyRead DEF f, bytes
  <2>4. ParserTypes'
    BY <2>1, <2>3, <1>1, <1>6, <1>8 DEF RInv, ParserTypes, page
  <2> QED BY <2>1, <2>3, <2>4, <1>1, <1>3 DEF RInv, ResetEnds, page, Reading
<1> QED BY <1>9, <1>10

LEMMA PendingRead ==
  ASSUME RInv, ReadPending
  PROVE  RInv'
<1>1. /\ running /\ readingState = "PayloadBodyPending" /\ Len(avail) >= payloadLength
      /\ ReadBody(avail, maskingKey)
      /\ UNCHANGED <<wire, running, isFinalFragment, opcode, hasMask, payloadLength, maskingKey, page>>
  BY DEF ReadPending
<1>2. PICK q : ToCome(q, avail \o wire, sent, Len(received), browser = "open") /\ Parsing(q)
  BY <1>1, Processing
<1>3. avail \in Seq(Byte) /\ browser # "reset" /\ Len(avail) \in Nat
  BY <1>1, Processing
<1>4. Rest(avail, 0) = avail
  BY <1>3, SubSeqFull DEF Rest
<1>5. /\ q # <<>> /\ isFinalFragment = TRUE /\ hasMask = TRUE /\ opcode = q[1].op
      /\ q[1].at = 0 - (HeadSize(q[1].payload) + 4) /\ payloadLength = Len(q[1].payload)
      /\ maskingKey = q[1].key
  BY <1>1, <1>2 DEF Parsing
<1>6. AtBody(q, 0)
  <2>1. q[1] \in Frames
    BY <1>2, <1>5, NextBytes
  <2>2. HeadSize(q[1].payload) \in Nat /\ payloadLength \in Nat
    BY <2>1, <1>5, FrameFacts
  <2>3. q[1].at + HeadSize(q[1].payload) + 4 = 0 /\ 0 \in 0 .. Len(avail)
    BY <2>2, <1>3, <1>5
  <2>4. ~ (Len(Rest(avail, 0)) < payloadLength)
    BY <2>2, <1>1, <1>3, <1>4
  <2> QED BY <2>3, <2>4, <1>2, <1>5 DEF AtBody
<1>7. ReadBody(Rest(avail, 0), q[1].key)
  BY <1>1, <1>4, <1>5
<1>8. /\ avail' \in Seq(Byte) /\ readingState' = "HeaderPending"
      /\ received' \in Seq(Seq(Byte)) /\ Len(received') <= Len(sent)
      /\ \A i \in 1 .. Len(received') : received'[i] = sent[i]
      /\ Reading'
  BY <1>1, <1>6, <1>7, BodyRead
<1>9. ParserTypes'
  BY <1>1, <1>8 DEF RInv, ParserTypes, page
<1> QED BY <1>1, <1>3, <1>8, <1>9 DEF RInv, ResetEnds, page, Reading

LEMMA SentBound == MaxSent \in Nat
BY QWsSocketAssumption

LEMMA RInvInit == SocketInit => RInv
<1> SUFFICES ASSUME SocketInit PROVE RInv
  OBVIOUS
<1>1. ParserTypes
  <2>1. <<>> \in Seq(Byte) /\ <<>> \in Seq(Events) /\ <<>> \in Seq(Seq(Byte))
    BY EmptySeq
  <2>2. opcode \in 0 .. 15 /\ pings \in 0 .. MaxSent
    BY SentBound DEF SocketInit, OpContinue
  <2>3. payloadLength \in {0, 1, 2} /\ maskingKey \in {<<0, 0, 0, 0>>}
    BY DEF SocketInit
  <2>4. maskingKey \in Keys \cup {<<0, 0, 0, 0>>}
    BY <2>3
  <2> QED BY <2>1, <2>2, <2>3, <2>4 DEF SocketInit, ParserTypes
<1>2. Reading
  <2> DEFINE s == avail \o wire
  <2>1. s = <<>>
    <3>1. <<>> \in Seq(Byte)
      BY EmptySeq
    <3>2. <<>> \o <<>> = <<>>
      BY <3>1, ConcatEmptySeq
    <3> QED BY <3>2 DEF SocketInit
  <2> HIDE DEF s
  <2>2. Len(<<>>) = 0 /\ <<>> \in Seq(Frames)
    BY EmptySeq
  <2>3. \A i \in 1 .. Len(<<>>) : FALSE
    BY <2>2
  <2>4. Len(received) = Len(sent)
    BY DEF SocketInit
  <2>5. ToCome(<<>>, s, sent, Len(received), browser = "open")
    BY <2>1, <2>2, <2>3, <2>4 DEF ToCome
  <2>6. Parsing(<<>>)
    BY DEF Parsing, SocketInit
  <2> QED BY <2>5, <2>6 DEF Reading, SocketInit, s
<1>3. Len(received) = 0 /\ Len(sent) = 0
  BY EmptySeq DEF SocketInit
<1> QED BY <1>1, <1>2, <1>3 DEF RInv, ResetEnds, SocketInit

LEMMA RInvStep == RInv /\ [SocketNext]_socketVars => RInv'
<1> SUFFICES ASSUME RInv, [SocketNext]_socketVars PROVE RInv'
  OBVIOUS
<1>1. running \in BOOLEAN /\ pings \in 0 .. MaxSent /\ Len(sent) \in Nat
  BY LenProperties DEF RInv, ParserTypes
<1>2. ASSUME NEW key \in Keys, NEW e \in Events, Send(e, key) PROVE RInv'
  <2>1. OpText \in {OpText, OpPing, OpClose} /\ e \in Payloads /\ OpText # OpClose
    BY DEF Payloads, OpText, OpClose
  <2> QED BY <2>1, <1>1, <1>2, FrameSent DEF Send
<1>3. ASSUME NEW key \in Keys, Ping(key) PROVE RInv'
  <2>1. OpPing \in {OpText, OpPing, OpClose} /\ <<1>> \in Payloads /\ OpPing # OpClose /\ OpPing # OpText
    BY DEF Payloads, OpText, OpClose, OpPing
  <2>2. pings' \in 0 .. MaxSent
    BY <1>1, <1>3, SentBound DEF Ping
  <2> QED BY <2>1, <2>2, <1>3, FrameSent DEF Ping
<1>4. ASSUME NEW key \in Keys, NEW payload \in {<<>>, <<1, 1>>}, SendClose(payload, key) PROVE RInv'
  <2>1. OpClose \in {OpText, OpPing, OpClose} /\ payload \in Payloads /\ OpClose # OpText
    BY DEF Payloads, OpText, OpClose
  <2> QED BY <2>1, <1>1, <1>4, FrameSent DEF SendClose, page
<1>5. CASE Leave
  BY <1>5, BrowserLeft
<1>6. ASSUME NEW k \in DOMAIN wire, ReadyRead(k) PROVE RInv'
  BY <1>6, BytesCome
<1>7. CASE ReadHeader
  BY <1>7, HeaderComes
<1>8. CASE ReadLength
  BY <1>8, LengthIsRead
<1>9. CASE ReadMask
  BY <1>9, MaskRead
<1>10. CASE ReadPending
  BY <1>10, PendingRead
<1>11. CASE StopReading
  BY <1>11, ParserStays DEF StopReading, RInv, ResetEnds, closing, page
<1>12. CASE TcpClosing
  BY <1>1, <1>12, ParserStays DEF TcpClosing, RInv, ResetEnds, page
<1>13. CASE TcpClosed
  BY <1>1, <1>13, ParserStays DEF TcpClosed, TcpUnconnected, RInv, ResetEnds, page
<1>14. CASE TcpReset
  BY <1>14, ConnectionBreaks
<1>15. ASSUME NEW m \in Outputs, Write(m) PROVE RInv'
  BY <1>1, <1>15, ParserStays DEF Write, RInv, ResetEnds, page, closing
<1>16. CASE UNCHANGED socketVars
  BY <1>1, <1>16, ParserStays DEF socketVars, RInv, ResetEnds, page, closing
<1> QED
  BY <1>2, <1>3, <1>4, <1>5, <1>6, <1>7, <1>8, <1>9, <1>10, <1>11, <1>12, <1>13, <1>14,
     <1>15, <1>16 DEF SocketNext, ProcessData

\* Whatever TCP makes of the bytes, frameReceived is emitted for the browser's messages in their
\* order, unmasked and whole (QWsSocket.cpp processDataV4()).
THEOREM MessagesInOrder == SocketSpec => []ReceivedInOrder
<1> QED BY RInvInit, RInvStep, RInvInOrder, PTL DEF SocketSpec

-----------------------------------------------------------------------------
(* What is written.                                                        *)

LEMMA NumberBytes ==
  ASSUME NEW n \in Nat
  PROVE  \A k \in Nat : BigEndian(n, k) \in Seq(Byte)
<1> SUFFICES ASSUME NEW k \in Nat PROVE BigEndian(n, k) \in Seq(Byte)
  OBVIOUS
<1> DEFINE power(i) == <<1, 256, 65536, 16777216>>[k - i + 1]
           e(i) == IF k - i > 3 THEN 0 ELSE (n \div power(i)) % 256
<1>1. ASSUME NEW i \in 1 .. k PROVE e(i) \in Byte
  <2>1. CASE k - i > 3
    BY <2>1 DEF Byte
  <2>2. CASE ~ (k - i > 3)
    <3>1. k - i + 1 = 1 \/ k - i + 1 = 2 \/ k - i + 1 = 3 \/ k - i + 1 = 4
      BY <2>2
    <3>2. power(i) \in Nat /\ power(i) > 0
      BY <3>1
    <3> HIDE DEF power
    <3>3. n \div power(i) \in Int
      BY <3>2
    <3>4. (n \div power(i)) % 256 \in 0 .. 255
      BY <3>3
    <3> QED BY <2>2, <3>4 DEF Byte
  <2> QED BY <2>1, <2>2
<1>2. BigEndian(n, k) = [i \in 1 .. k |-> e(i)]
  BY DEF BigEndian
<1> HIDE DEF e
<1>3. [i \in 1 .. k |-> e(i)] \in [1 .. k -> Byte]
  BY <1>1
<1> QED BY <1>2, <1>3, FunctionIsSeq

LEMMA HeaderBytes ==
  ASSUME NEW end, NEW op \in 0 .. 15, NEW length \in Nat
  PROVE  ComposeHeader(end, op, length, <<>>) \in Seq(Byte)
<1> DEFINE b == Bit(end) + op
           c == Bit(<<>> # <<>>) + (IF length <= 125 THEN length ELSE IF length <= 65535 THEN 126 ELSE 127)
           more == IF length <= 125 THEN <<>>
                   ELSE IF length <= 65535 THEN BigEndian(length, 2) ELSE BigEndian(length, 8)
<1>1. b \in Byte
  BY DEF Bit, Byte
<1>2. c \in Byte
  BY DEF Bit, Byte
<1>3. more \in Seq(Byte)
  <2>1. 2 \in Nat /\ 8 \in Nat
    OBVIOUS
  <2>2. BigEndian(length, 2) \in Seq(Byte) /\ BigEndian(length, 8) \in Seq(Byte)
    BY <2>1, NumberBytes
  <2> QED BY <2>2, EmptySeq
<1>4. ComposeHeader(end, op, length, <<>>) = (<<b, c>> \o more) \o <<>>
  BY DEF ComposeHeader
<1> HIDE DEF b, c, more
<1>5. <<b, c>> \in Seq(Byte)
  BY <1>1, <1>2
<1>6. <<b, c>> \o more \in Seq(Byte)
  BY <1>3, <1>5, ConcatProperties
<1> QED BY <1>4, <1>6, ConcatEmptySeq

-----------------------------------------------------------------------------
(* What a browser reads.                                                   *)

\* A number that is read is one.
LEMMA NumberRead ==
  ASSUME NEW s \in Seq(Byte)
  PROVE  FromBigEndian(s) \in Nat
<1> DEFINE L == Len(s)
           Number(f, i) == IF i = 0 THEN 0 ELSE f[i - 1] * 256 + s[i]
           number == CHOOSE f : f = [i \in 0 .. L |-> Number(f, i)]
<1>1. L \in Nat /\ L \in 0 .. L
  BY LenProperties
<1>2. ASSUME NEW i \in 1 .. L PROVE s[i] \in Nat
  <2>1. s[i] \in Byte
    BY <1>2, ElementOfSeq
  <2>2. \A x \in Byte : x \in Nat
    BY DEF Byte
  <2> HIDE DEF L, number
  <2> QED BY <2>1, <2>2
<1>3. FromBigEndian(s) = number[L]
  BY DEF FromBigEndian
<1> HIDE DEF number
<1>4. \A n \in 0 .. L : \E f : f = [i \in 0 .. n |-> Number(f, i)]
  <2> DEFINE T == {n \in 0 .. L : ~ \E f : f = [i \in 0 .. n |-> Number(f, i)]}
  <2> HIDE DEF Number
  <2> SUFFICES ASSUME T # {} PROVE FALSE
    OBVIOUS
  <2> USE DEF Number
  <2>1. T \subseteq Nat
    <3> HIDE DEF Number
    <3> QED BY <1>1
  <2> HIDE DEF T
  <2>2. PICK n \in T : \A m \in T : n <= m
    BY <2>1, Smallest
  <2> USE DEF T
  <2>3. n # 0
    <3>1. [i \in 0 .. 0 |-> 0] = [i \in 0 .. 0 |-> Number([j \in 0 .. 0 |-> 0], i)]
      OBVIOUS
    <3> HIDE DEF Number
    <3> QED BY <3>1, <2>2
  <2>4. n \in 1 .. L /\ n - 1 \in 0 .. L /\ n - 1 \in Nat /\ ~ (n <= n - 1)
    <3> HIDE DEF Number
    <3> QED BY <1>1, <2>2, <2>3
  <2>5. PICK g : g = [i \in 0 .. n - 1 |-> Number(g, i)]
    <3> HIDE DEF Number
    <3> QED BY <2>2, <2>4
  <2> DEFINE f == [i \in 0 .. n |-> IF i = n THEN Number(g, n) ELSE g[i]]
  <2>6. ASSUME NEW i \in 0 .. n PROVE f[i] = Number(f, i)
    <3>1. i = 0 \/ (i - 1 \in 0 .. n - 1 /\ i - 1 \in 0 .. n /\ i - 1 # n)
      BY <2>4
    <3>2. i # 0 => f[i - 1] = g[i - 1]
      BY <3>1
    <3>3. Number(f, i) = Number(g, i)
      BY <3>2
    <3>4. i # n => i \in 0 .. n - 1
      BY <2>4
    <3>5. i # n => g[i] = Number(g, i)
      BY <2>5, <3>4
    <3> HIDE DEF Number
    <3> QED BY <3>3, <3>5
  <2>7. f = [i \in 0 .. n |-> Number(f, i)]
    BY <2>6
  <2> QED BY <2>2, <2>7
<1>5. number = [i \in 0 .. L |-> Number(number, i)]
  <2>1. \E f : f = [i \in 0 .. L |-> Number(f, i)]
    <3> HIDE DEF Number
    <3> QED BY <1>1, <1>4
  <2> QED BY <2>1 DEF number
<1>6. \A n \in 0 .. L : number[n] \in Nat
  <2> DEFINE T == {n \in 0 .. L : number[n] \notin Nat}
  <2> SUFFICES ASSUME T # {} PROVE FALSE
    OBVIOUS
  <2>1. T \subseteq Nat
    BY <1>1
  <2> HIDE DEF T
  <2>2. PICK n \in T : \A m \in T : n <= m
    BY <2>1, Smallest
  <2> USE DEF T
  <2>3. n \in 0 .. L /\ number[n] \notin Nat
    BY <2>2
  <2>4. number[n] = Number(number, n)
    <3> HIDE DEF Number
    <3> QED BY <1>5, <2>3
  <2>5. n # 0
    BY <2>3, <2>4
  <2>6. n \in 1 .. L /\ n - 1 \in 0 .. L /\ ~ (n <= n - 1)
    BY <1>1, <2>3, <2>5
  <2>7. number[n - 1] \in Nat /\ s[n] \in Nat
    BY <2>2, <2>6, <1>2
  <2> QED BY <2>3, <2>4, <2>5, <2>7
<1> QED BY <1>1, <1>3, <1>6

LEMMA SliceBytes ==
  ASSUME NEW s \in Seq(Byte), NEW i \in Nat \ {0}, NEW j \in Int, i <= j + 1
  PROVE  Slice(s, i, j) \in Seq(Byte) /\ Len(Slice(s, i, j)) = j - i + 1
<1> DEFINE n == j - i + 1
           e(k) == IF i + k - 1 <= Len(s) THEN s[i + k - 1] ELSE 0
<1>1. n \in Nat /\ Len(s) \in Nat
  BY LenProperties
<1>2. ASSUME NEW k \in 1 .. n PROVE e(k) \in Byte
  <2>1. CASE i + k - 1 <= Len(s)
    <3>1. i + k - 1 \in 1 .. Len(s)
      BY <1>1, <2>1
    <3> QED BY <2>1, <3>1, ElementOfSeq
  <2>2. CASE ~ (i + k - 1 <= Len(s))
    BY <2>2 DEF Byte
  <2> QED BY <2>1, <2>2
<1>3. Slice(s, i, j) = [k \in 1 .. n |-> e(k)]
  BY DEF Slice
<1> HIDE DEF n, e
<1>4. Slice(s, i, j) \in [1 .. n -> Byte]
  BY <1>2, <1>3
<1>5. Slice(s, i, j) \in Seq(Byte) /\ Len(Slice(s, i, j)) = n
  BY <1>1, <1>4, FunctionIsSeq
<1> QED BY <1>5 DEF n

\* What has come is read the same when more comes.
LEMMA SliceStays ==
  ASSUME NEW s \in Seq(Byte), NEW t \in Seq(Byte), NEW i \in Nat \ {0}, NEW j \in Int, j <= Len(s)
  PROVE  Slice(s \o t, i, j) = Slice(s, i, j)
<1> DEFINE c == s \o t
           e(k) == IF i + k - 1 <= Len(s) THEN s[i + k - 1] ELSE 0
           d(k) == IF i + k - 1 <= Len(c) THEN c[i + k - 1] ELSE 0
<1>1. Len(c) = Len(s) + Len(t) /\ (\A k \in 1 .. Len(s) : c[k] = s[k])
      /\ Len(s) \in Nat /\ Len(t) \in Nat
  BY Joined, LenProperties DEF IsJoin
<1> HIDE DEF c
<1>2. ASSUME NEW k \in 1 .. j - i + 1 PROVE d(k) = e(k)
  <2>1. i + k - 1 \in 1 .. Len(s) /\ i + k - 1 <= Len(s) /\ i + k - 1 <= Len(c)
    BY <1>1
  <2> QED BY <1>1, <2>1
<1>3. Slice(s, i, j) = [k \in 1 .. j - i + 1 |-> e(k)] /\ Slice(c, i, j) = [k \in 1 .. j - i + 1 |-> d(k)]
  BY DEF Slice
<1> HIDE DEF d, e
<1> QED BY <1>2, <1>3 DEF c

Ext(s, i) == IF Slice(s, i, i + 1)[2] = 126 THEN 2 ELSE IF Slice(s, i, i + 1)[2] = 127 THEN 8 ELSE 0
Body(s, i) == i + 2 + Ext(s, i)
Length(s, i) == IF Ext(s, i) = 0 THEN Slice(s, i, i + 1)[2]
                ELSE FromBigEndian(Slice(s, i + 2, i + 1 + Ext(s, i)))

\* The fields of a frame.
LEMMA FrameFields ==
  ASSUME NEW s \in Seq(Byte), NEW i \in Nat \ {0}
  PROVE  /\ Ext(s, i) \in {0, 2, 8} /\ Length(s, i) \in Nat
         /\ FrameAt(s, i).fin <=> Slice(s, i, i + 1)[1] >= 128
         /\ FrameAt(s, i).op = Slice(s, i, i + 1)[1] % 16
         /\ FrameAt(s, i).payload = Slice(s, Body(s, i), Body(s, i) + Length(s, i) - 1)
         /\ FrameAt(s, i).next = Body(s, i) + Length(s, i)
         /\ FrameAt(s, i).next \in Nat /\ FrameAt(s, i).next >= i + 2
<1> DEFINE head == Slice(s, i, i + 1)
<1>1. Ext(s, i) \in {0, 2, 8}
  BY DEF Ext
<1>2. Length(s, i) \in Nat
  <2>1. head \in Seq(Byte) /\ Len(head) = 2
    <3>1. i + 1 \in Int /\ i <= (i + 1) + 1 /\ (i + 1) - i + 1 = 2
      OBVIOUS
    <3> QED BY <3>1, SliceBytes
  <2> HIDE DEF head
  <2>2. head[2] \in Nat
    <3>1. 2 \in 1 .. Len(head)
      BY <2>1
    <3>2. head[2] \in Byte
      BY <2>1, <3>1, ElementOfSeq
    <3>3. \A x \in Byte : x \in Nat
      BY DEF Byte
    <3> QED BY <3>2, <3>3
  <2>3. Slice(s, i + 2, i + 1 + Ext(s, i)) \in Seq(Byte)
    <3> DEFINE a == i + 2
               z == i + 1 + Ext(s, i)
    <3>1. a \in Nat \ {0} /\ z \in Int /\ a <= z + 1
      BY <1>1
    <3> HIDE DEF a, z
    <3>2. Slice(s, a, z) \in Seq(Byte)
      BY <3>1, SliceBytes
    <3> QED BY <3>2 DEF a, z
  <2> QED BY <2>2, <2>3, NumberRead DEF Length, head
<1>3. /\ FrameAt(s, i).fin = (head[1] >= 128)
      /\ FrameAt(s, i).op = head[1] % 16
      /\ FrameAt(s, i).payload = Slice(s, Body(s, i), Body(s, i) + Length(s, i) - 1)
      /\ FrameAt(s, i).next = Body(s, i) + Length(s, i)
  BY DEF FrameAt, Ext, Body, Length
<1>4. Body(s, i) \in Nat /\ Body(s, i) >= i + 2
  BY <1>1 DEF Body
<1> HIDE DEF head
<1>5. FrameAt(s, i).next \in Nat /\ FrameAt(s, i).next >= i + 2
  BY <1>2, <1>3, <1>4
<1> QED BY <1>1, <1>2, <1>3, <1>5 DEF head

LEMMA FrameStays ==
  ASSUME NEW s \in Seq(Byte), NEW t \in Seq(Byte), NEW i \in Nat \ {0}, FrameAt(s, i).next <= Len(s) + 1
  PROVE  FrameAt(s \o t, i) = FrameAt(s, i)
<1> DEFINE c == s \o t
<1>1. /\ Ext(s, i) \in {0, 2, 8} /\ Length(s, i) \in Nat /\ Len(s) \in Nat
      /\ Body(s, i) + Length(s, i) <= Len(s) + 1
      /\ Body(s, i) = i + 2 + Ext(s, i)
  BY FrameFields, LenProperties DEF Body
<1>2. Slice(c, i, i + 1) = Slice(s, i, i + 1)
  <2>1. i + 1 \in Int /\ i + 1 <= Len(s)
    BY <1>1
  <2> QED BY <2>1, SliceStays
<1> HIDE DEF c
<1>3. Ext(c, i) = Ext(s, i)
  BY <1>2 DEF Ext
<1>4. Slice(c, i + 2, i + 1 + Ext(s, i)) = Slice(s, i + 2, i + 1 + Ext(s, i))
  <2> DEFINE a == i + 2
             z == i + 1 + Ext(s, i)
  <2>1. a \in Nat \ {0} /\ z \in Int /\ z <= Len(s)
    BY <1>1
  <2> HIDE DEF a, z
  <2>2. Slice(c, a, z) = Slice(s, a, z)
    BY <2>1, SliceStays DEF c
  <2> QED BY <2>2 DEF a, z
<1>5. Body(c, i) = Body(s, i) /\ Length(c, i) = Length(s, i)
  BY <1>2, <1>3, <1>4 DEF Body, Length
<1>6. Slice(c, Body(s, i), Body(s, i) + Length(s, i) - 1) = Slice(s, Body(s, i), Body(s, i) + Length(s, i) - 1)
  <2> DEFINE a == Body(s, i)
             z == Body(s, i) + Length(s, i) - 1
  <2>1. a \in Nat \ {0} /\ z \in Int /\ z <= Len(s)
    BY <1>1
  <2> HIDE DEF a, z
  <2>2. Slice(c, a, z) = Slice(s, a, z)
    BY <2>1, SliceStays DEF c
  <2> QED BY <2>2 DEF a, z
<1>7. \A u : FrameAt(u, i) = [fin |-> Slice(u, i, i + 1)[1] >= 128, op |-> Slice(u, i, i + 1)[1] % 16,
                   payload |-> Slice(u, Body(u, i), Body(u, i) + Length(u, i) - 1),
                   next |-> Body(u, i) + Length(u, i)]
  BY DEF FrameAt, Body, Length, Ext
<1> QED BY <1>2, <1>5, <1>6, <1>7 DEF c

LEMMA SliceElements ==
  ASSUME NEW s \in Seq(Byte), NEW i \in Nat \ {0}, NEW j \in Int
  PROVE  \A k \in 1 .. j - i + 1 : i + k - 1 <= Len(s) => Slice(s, i, j)[k] = s[i + k - 1]
BY DEF Slice

\* The largest length of a frame of the application, in two bytes.
Largest == 65535

\* The header of a frame of the application.
IsHeader(H, end, op, L) ==
  /\ H \in Seq(Byte) /\ Len(H) = IF L <= 125 THEN 2 ELSE 4
  /\ H[1] = Bit(end) + op
  /\ H[2] = IF L <= 125 THEN L ELSE 126
  /\ L > 125 => H[3] = L \div 256 /\ H[4] = L % 256

LEMMA HeaderIs ==
  \A end \in BOOLEAN, op \in 0 .. 15, L \in Nat :
    L <= Largest => IsHeader(ComposeHeader(end, op, L, <<>>), end, op, L)
<1> SUFFICES ASSUME NEW end \in BOOLEAN, NEW op \in 0 .. 15, NEW L \in Nat, L <= Largest
             PROVE  IsHeader(ComposeHeader(end, op, L, <<>>), end, op, L)
  OBVIOUS
<1> DEFINE a == Bit(end) + op
           z == IF L <= 125 THEN L ELSE 126
           more == IF L <= 125 THEN <<>> ELSE BigEndian(L, 2)
           d == <<a, z>>
           H == d \o more
<1>1. a \in Byte /\ z \in Byte
  BY DEF Bit, Byte
<1>2. ComposeHeader(end, op, L, <<>>) = H \o <<>>
  BY DEF ComposeHeader, Bit, Largest
<1>3. (~ (L <= 125) => z = 126) /\ (L <= 125 => z = L) /\ a = Bit(end) + op
  OBVIOUS
<1> HIDE DEF a, z
<1>4. d \in Seq(Byte) /\ Len(d) = 2 /\ d[1] = a /\ d[2] = z
  BY <1>1
<1>5. (L <= 125 => more = <<>>) /\ (~ (L <= 125) => more = BigEndian(L, 2))
  OBVIOUS
<1>6. L <= 125 => H = d \o <<>>
  OBVIOUS
<1> HIDE DEF d, more
<1>7. CASE L <= 125
  <2> HIDE DEF H
  <2>1. H = d
    BY <1>4, <1>6, <1>7, ConcatEmptySeq
  <2>2. ComposeHeader(end, op, L, <<>>) = d
    BY <2>1, <1>2, <1>4, ConcatEmptySeq
  <2>3. ~ (L > 125) /\ z = L
    BY <1>3, <1>7
  <2> QED BY <1>3, <1>4, <1>7, <2>2, <2>3 DEF IsHeader
<1>8. CASE ~ (L <= 125)
  <2>1. /\ more \in Seq(Byte) /\ Len(more) = 2
        /\ more[1] = L \div 256 /\ more[2] = L % 256
    BY <1>5, <1>8, LengthBytes DEF Largest
  <2>2. H \in Seq(Byte) /\ IsJoin(H, d, more)
    BY <1>4, <2>1, Joined
  <2> HIDE DEF H
  <2>3. Len(H) = 4 /\ H[1] = d[1] /\ H[2] = d[2] /\ H[3] = more[1] /\ H[4] = more[2]
    <3>1. /\ Len(H) = Len(d) + Len(more)
          /\ \A k \in 1 .. Len(d) : H[k] = d[k]
          /\ \A k \in 1 .. Len(more) : H[Len(d) + k] = more[k]
      BY <2>2 DEF IsJoin
    <3>2. /\ Len(H) = 2 + 2
          /\ \A k \in 1 .. 2 : H[k] = d[k]
          /\ \A k \in 1 .. 2 : H[2 + k] = more[k]
      BY <3>1, <1>4, <2>1
    <3> QED BY <3>2
  <2>4. ComposeHeader(end, op, L, <<>>) = H
    BY <1>2, <2>2, ConcatEmptySeq
  <2> QED BY <1>3, <1>4, <1>8, <2>1, <2>2, <2>3, <2>4 DEF IsHeader
<1> QED BY <1>7, <1>8

\* A frame of the application behind s is read as it was written.
WrittenFrame(s, b, end, op, p) ==
  /\ b \in Seq(Byte) /\ s \o b \in Seq(Byte) /\ Len(s \o b) >= Len(s) + 2
  /\ FrameAt(s \o b, Len(s) + 1).next = Len(s \o b) + 1
  /\ FrameAt(s \o b, Len(s) + 1).op = op
  /\ FrameAt(s \o b, Len(s) + 1).fin <=> end
  /\ FrameAt(s \o b, Len(s) + 1).payload = p

LEMMA FrameWritten ==
  ASSUME NEW s \in Seq(Byte), NEW p \in Seq(Byte), Len(p) <= Largest, NEW op \in 0 .. 15, NEW end \in BOOLEAN
  PROVE  WrittenFrame(s, ComposeHeader(end, op, Len(p), <<>>) \o p, end, op, p)
<1> DEFINE L == Len(p)
           H == ComposeHeader(end, op, L, <<>>)
           h == IF L <= 125 THEN 2 ELSE 4
           b == H \o p
           c == s \o b
           i == Len(s) + 1
           f == FrameAt(c, i)
<1>1. L \in Nat /\ L <= Largest /\ Len(s) \in Nat
  BY LenProperties
<1> HIDE DEF L
<1>2. IsHeader(H, end, op, L)
  BY <1>1, HeaderIs
<1> HIDE DEF H
<1>3. H \in Seq(Byte) /\ Len(H) = h /\ h \in {2, 4}
  BY <1>2 DEF IsHeader
<1>4. b \in Seq(Byte) /\ IsJoin(b, H, p)
  BY <1>3, Joined
<1> HIDE DEF b
<1>5. c \in Seq(Byte) /\ IsJoin(c, s, b)
  BY <1>4, Joined
<1> HIDE DEF c, h
<1>6. Len(b) = h + L /\ Len(c) = Len(s) + h + L
  BY <1>1, <1>3, <1>4, <1>5 DEF IsJoin, L
<1>7. \A k \in 1 .. h : c[Len(s) + k] = H[k]
  <2> SUFFICES ASSUME NEW k \in 1 .. h PROVE c[Len(s) + k] = H[k]
    OBVIOUS
  <2>1. k \in 1 .. Len(H) /\ k \in 1 .. Len(b)
    BY <1>1, <1>3, <1>6
  <2> QED BY <2>1, <1>4, <1>5 DEF IsJoin
<1>8. \A k \in 1 .. L : c[Len(s) + (h + k)] = p[k]
  <2> SUFFICES ASSUME NEW k \in 1 .. L PROVE c[Len(s) + (h + k)] = p[k]
    OBVIOUS
  <2>1. h + k \in 1 .. Len(b) /\ k \in 1 .. Len(p)
    BY <1>1, <1>3, <1>6 DEF L
  <2>2. b[h + k] = p[k]
    BY <2>1, <1>3, <1>4 DEF IsJoin
  <2> QED BY <2>1, <2>2, <1>5 DEF IsJoin
<1>9. i \in Nat \ {0} /\ i = Len(s) + 1
  BY <1>1
<1> HIDE DEF i
<1>10. Slice(c, i, i + 1)[1] = H[1] /\ Slice(c, i, i + 1)[2] = H[2]
  <2> DEFINE j == i + 1
  <2>1. j \in Int /\ j - i + 1 = 2 /\ i + 1 - 1 = Len(s) + 1 /\ i + 2 - 1 = Len(s) + 2
        /\ Len(s) + 1 <= Len(c) /\ Len(s) + 2 <= Len(c)
    BY <1>1, <1>3, <1>6, <1>9
  <2> HIDE DEF j
  <2>2. \A k \in 1 .. j - i + 1 : i + k - 1 <= Len(c) => Slice(c, i, j)[k] = c[i + k - 1]
    BY <1>5, <1>9, <2>1, SliceElements
  <2>3. 1 \in 1 .. j - i + 1 /\ 2 \in 1 .. j - i + 1 /\ 1 \in 1 .. h /\ 2 \in 1 .. h
    BY <2>1, <1>3
  <2>4. Slice(c, i, j)[1] = c[Len(s) + 1] /\ Slice(c, i, j)[2] = c[Len(s) + 2]
    BY <2>1, <2>2, <2>3
  <2> QED BY <2>3, <2>4, <1>7 DEF j
<1>11. Ext(c, i) = h - 2
  <2>1. H[2] = IF L <= 125 THEN L ELSE 126
    BY <1>2 DEF IsHeader
  <2> QED BY <2>1, <1>1, <1>10 DEF Ext, h
<1>12. Length(c, i) = L
  <2>1. CASE L <= 125
    <3>1. Ext(c, i) = 0 /\ H[2] = L
      BY <2>1, <1>2, <1>11 DEF h, IsHeader
    <3> QED BY <3>1, <1>10 DEF Length
  <2>2. CASE ~ (L <= 125)
    <3>1. h = 4 /\ Ext(c, i) = 2
      BY <2>2, <1>11 DEF h
    <3> DEFINE a == i + 2
               z == i + 1 + Ext(c, i)
               t == Slice(c, a, z)
    <3>2. a \in Nat \ {0} /\ z \in Int /\ z - a + 1 = 2 /\ a <= z + 1
      BY <3>1, <1>9
    <3>3. a + 1 - 1 = Len(s) + 3 /\ a + 2 - 1 = Len(s) + 4 /\ Len(s) + 3 <= Len(c) /\ Len(s) + 4 <= Len(c)
      BY <3>1, <1>1, <1>6, <1>9
    <3>4. Length(c, i) = FromBigEndian(t)
      BY <3>1 DEF Length
    <3> HIDE DEF a, z
    <3>5. t \in Seq(Byte) /\ Len(t) = 2
      <4>1. c \in Seq(Byte) /\ a \in Nat \ {0} /\ z \in Int /\ a <= z + 1
        BY <1>5, <3>2
      <4>2. Slice(c, a, z) \in Seq(Byte) /\ Len(Slice(c, a, z)) = z - a + 1
        BY ONLY <4>1, SliceBytes
      <4> QED BY <3>2, <4>2
    <3>6. \A k \in 1 .. z - a + 1 : a + k - 1 <= Len(c) => t[k] = c[a + k - 1]
      BY <1>5, <3>2, SliceElements
    <3> HIDE DEF t
    <3>7. 1 \in 1 .. z - a + 1 /\ 2 \in 1 .. z - a + 1 /\ 3 \in 1 .. h /\ 4 \in 1 .. h
      BY <3>1, <3>2
    <3>8. t[1] = c[Len(s) + 3] /\ t[2] = c[Len(s) + 4]
      BY <3>3, <3>6, <3>7
    <3>9. t[1] = L \div 256 /\ t[2] = L % 256
      BY <3>7, <3>8, <1>1, <1>2, <1>7, <2>2 DEF IsHeader
    <3>10. FromBigEndian(t) = t[1] * 256 + t[2]
      BY <3>5, LengthRead
    <3>11. (L \div 256) * 256 + (L % 256) = L
      BY <1>1
    <3> QED BY <3>4, <3>9, <3>10, <3>11
  <2> QED BY <2>1, <2>2
<1>13. Body(c, i) = i + h
  BY <1>3, <1>9, <1>11 DEF Body
<1>14. /\ f.fin <=> H[1] >= 128
       /\ f.op = H[1] % 16
       /\ f.payload = Slice(c, i + h, i + h + L - 1)
       /\ f.next = i + h + L
  <2>1. /\ FrameAt(c, i).fin <=> Slice(c, i, i + 1)[1] >= 128
        /\ FrameAt(c, i).op = Slice(c, i, i + 1)[1] % 16
        /\ FrameAt(c, i).payload = Slice(c, Body(c, i), Body(c, i) + Length(c, i) - 1)
        /\ FrameAt(c, i).next = Body(c, i) + Length(c, i)
    BY <1>5, <1>9, FrameFields
  <2> QED BY <2>1, <1>10, <1>12, <1>13
<1>15. Slice(c, i + h, i + h + L - 1) = p
  <2> DEFINE a == i + h
             z == i + h + L - 1
             t == Slice(c, a, z)
  <2>1. a \in Nat \ {0} /\ z \in Int /\ z - a + 1 = L /\ a <= z + 1
    BY <1>1, <1>3, <1>9
  <2>2. \A k \in 1 .. L : a + k - 1 = Len(s) + (h + k) /\ a + k - 1 <= Len(c)
    BY <1>1, <1>3, <1>6, <1>9
  <2> HIDE DEF a, z
  <2>3. t \in Seq(Byte) /\ Len(t) = L
    <3>1. c \in Seq(Byte) /\ a \in Nat \ {0} /\ z \in Int /\ a <= z + 1
      BY <1>5, <2>1
    <3>2. Slice(c, a, z) \in Seq(Byte) /\ Len(Slice(c, a, z)) = z - a + 1
      BY ONLY <3>1, SliceBytes
    <3> QED BY <2>1, <3>2
  <2>4. \A k \in 1 .. z - a + 1 : a + k - 1 <= Len(c) => t[k] = c[a + k - 1]
    BY <1>5, <2>1, SliceElements
  <2> HIDE DEF t
  <2>5. \A k \in 1 .. Len(t) : t[k] = p[k]
    BY <2>1, <2>2, <2>3, <2>4, <1>8
  <2>6. t = p
    BY <2>3, <2>5, SeqEqual DEF L
  <2> QED BY <2>6 DEF t, a, z
<1>16. f.next = Len(c) + 1
  BY <1>1, <1>3, <1>6, <1>9, <1>14
<1>17. H[1] % 16 = op /\ (H[1] >= 128 <=> end)
  <2>1. H[1] = Bit(end) + op
    BY <1>2 DEF IsHeader
  <2>2. CASE end
    BY <2>1, <2>2 DEF Bit
  <2>3. CASE ~ end
    BY <2>1, <2>3 DEF Bit
  <2> QED BY <2>2, <2>3
<1> HIDE DEF f
<1>18. Len(c) >= Len(s) + 2
  BY <1>1, <1>3, <1>6
<1> QED BY <1>4, <1>5, <1>9, <1>14, <1>15, <1>16, <1>17, <1>18 DEF WrittenFrame, b, c, f, H, L

-----------------------------------------------------------------------------
(* The frames of a message.                                                *)

\* What a sequence of sequences is flattened to, one after the other.
LEMMA FlattenSteps ==
  ASSUME NEW S, NEW seqs \in Seq(Seq(S)), Len(seqs) # 0
  PROVE  \E flat :
           /\ flat \in [1 .. Len(seqs) -> Seq(S)] /\ flat[1] = seqs[1]
           /\ \A i \in 1 .. Len(seqs) - 1 : flat[i + 1] = flat[i] \o seqs[i + 1]
           /\ FlattenSeq(seqs) = flat[Len(seqs)]
<1> DEFINE N == Len(seqs)
           Flat(f, i) == IF i = 1 THEN seqs[i] ELSE f[i - 1] \o seqs[i]
           flatten == CHOOSE f : f = [i \in 1 .. N |-> Flat(f, i)]
<1>1. N \in Nat /\ \A i \in 1 .. N : seqs[i] \in Seq(S)
  BY LenProperties, ElementOfSeq
<1>2. N # 0
  OBVIOUS
<1>3. FlattenSeq(seqs) = flatten[N]
  BY DEF FlattenSeq
<1> HIDE DEF flatten
<1>4. \A n \in 1 .. N : \E f : f = [i \in 1 .. n |-> Flat(f, i)]
  <2> DEFINE T == {n \in 1 .. N : ~ \E f : f = [i \in 1 .. n |-> Flat(f, i)]}
  <2> SUFFICES ASSUME T # {} PROVE FALSE
    OBVIOUS
  <2>1. T \subseteq Nat
    <3> HIDE DEF Flat
    <3> QED BY <1>1
  <2> HIDE DEF T
  <2>2. PICK n \in T : \A m \in T : n <= m
    BY <2>1, Smallest
  <2> USE DEF T
  <2>3. n # 1
    <3>1. [i \in 1 .. 1 |-> seqs[1]] = [i \in 1 .. 1 |-> Flat([j \in 1 .. 1 |-> seqs[1]], i)]
      OBVIOUS
    <3> HIDE DEF Flat
    <3> QED BY <3>1, <2>2
  <2>4. n \in 1 .. N /\ n - 1 \in 1 .. N /\ n - 1 \in Nat /\ ~ (n <= n - 1)
    BY <1>1, <2>2, <2>3
  <2>5. PICK g : g = [i \in 1 .. n - 1 |-> Flat(g, i)]
    <3> HIDE DEF Flat
    <3> QED BY <2>2, <2>4
  <2> DEFINE f == [i \in 1 .. n |-> IF i = n THEN Flat(g, n) ELSE g[i]]
  <2>6. ASSUME NEW i \in 1 .. n PROVE f[i] = Flat(f, i)
    <3>1. i = 1 \/ (i - 1 \in 1 .. n - 1 /\ i - 1 \in 1 .. n /\ i - 1 # n)
      BY <2>4
    <3>2. i # 1 => f[i - 1] = g[i - 1]
      BY <3>1
    <3>3. Flat(f, i) = Flat(g, i)
      BY <3>2
    <3>4. i # n => i \in 1 .. n - 1
      BY <2>4
    <3>5. i # n => g[i] = Flat(g, i)
      BY <2>5, <3>4
    <3> HIDE DEF Flat
    <3> QED BY <3>3, <3>5
  <2>7. f = [i \in 1 .. n |-> Flat(f, i)]
    BY <2>6
  <2> QED BY <2>2, <2>7
<1>5. flatten = [i \in 1 .. N |-> Flat(flatten, i)]
  <2>1. N \in 1 .. N
    BY <1>1, <1>2
  <2>2. \E f : f = [i \in 1 .. N |-> Flat(f, i)]
    <3> HIDE DEF Flat
    <3> QED BY <1>4, <2>1
  <2> QED BY <2>2 DEF flatten
<1>6. \A n \in 1 .. N : flatten[n] \in Seq(S)
  <2> DEFINE T == {n \in 1 .. N : flatten[n] \notin Seq(S)}
  <2> SUFFICES ASSUME T # {} PROVE FALSE
    OBVIOUS
  <2>1. T \subseteq Nat
    BY <1>1
  <2> HIDE DEF T
  <2>2. PICK n \in T : \A m \in T : n <= m
    BY <2>1, Smallest
  <2> USE DEF T
  <2>3. n \in 1 .. N /\ flatten[n] \notin Seq(S)
    BY <2>2
  <2>4. flatten[n] = Flat(flatten, n)
    <3> HIDE DEF Flat
    <3> QED BY <1>5, <2>3
  <2>5. CASE n = 1
    BY <1>1, <2>3, <2>4, <2>5
  <2>6. CASE n # 1
    <3>1. n - 1 \in 1 .. N /\ ~ (n <= n - 1)
      BY <1>1, <2>3, <2>6
    <3>2. flatten[n - 1] \in Seq(S)
      BY <2>2, <3>1
    <3>3. flatten[n - 1] \o seqs[n] \in Seq(S)
      BY <1>1, <2>3, <3>2, ConcatProperties
    <3> QED BY <2>3, <2>4, <2>6, <3>3
  <2> QED BY <2>5, <2>6
<1>7. flatten[1] = seqs[1] /\ \A i \in 1 .. N - 1 : flatten[i + 1] = flatten[i] \o seqs[i + 1]
  <2>1. 1 \in 1 .. N /\ \A i \in 1 .. N - 1 : i + 1 \in 1 .. N /\ i + 1 # 1 /\ (i + 1) - 1 = i
    BY <1>1, <1>2
  <2>2. \A i \in 1 .. N : flatten[i] = Flat(flatten, i)
    <3> HIDE DEF Flat
    <3> QED BY <1>5
  <2> QED BY <2>1, <2>2
<1>8. flatten \in [1 .. N -> Seq(S)]
  <2>1. flatten = [i \in 1 .. N |-> flatten[i]]
    <3> HIDE DEF Flat
    <3> QED BY <1>5
  <2> QED BY <1>6, <2>1
<1> QED BY <1>3, <1>7, <1>8

\* composeFrames: the pieces of a message, where each ends and the frame it goes in.
Pieces(L) == L \div MaxFrame + 1
PieceEnd(L, i) == IF i = Pieces(L) THEN L ELSE i * MaxFrame
Piece(m, i) == SubSeq(m, (i - 1) * MaxFrame + 1, PieceEnd(Len(m), i))
PieceOp(op, i) == IF i = 1 THEN op ELSE OpContinue
PieceFrame(m, op, i) ==
  ComposeHeader(i = Pieces(Len(m)), PieceOp(op, i), Len(Piece(m, i)), <<>>) \o Piece(m, i)

LEMMA PieceEnds ==
  ASSUME NEW L \in Nat
  PROVE  /\ Pieces(L) \in Nat \ {0} /\ PieceEnd(L, Pieces(L)) = L
         /\ \A i \in 1 .. Pieces(L) :
              /\ PieceEnd(L, i) \in 0 .. L /\ (i - 1) * MaxFrame \in 0 .. PieceEnd(L, i)
              /\ PieceEnd(L, i) - (i - 1) * MaxFrame <= Largest
              /\ i # Pieces(L) => PieceEnd(L, i) = i * MaxFrame
<1> DEFINE M == MaxFrame
           q == L \div M
<1>1. M \in Nat /\ M > 0 /\ M <= Largest /\ Largest \in Nat
  BY QWsSocketAssumption DEF Largest
<1> HIDE DEF M
<1>2. q \in Nat /\ q * M <= L /\ L - q * M <= M
  <2>1. L = q * M + (L % M) /\ L % M \in 0 .. M - 1 /\ q \in Nat
    BY <1>1
  <2> DEFINE x == q * M
             y == L % M
  <2>2. L = x + y /\ y \in 0 .. M - 1 /\ x \in Nat
    <3>1. x \in Nat
      BY <1>1, <2>1
    <3> QED BY <2>1, <3>1
  <2> HIDE DEF x, y
  <2>3. x <= L /\ L - x <= M
    BY <1>1, <2>2
  <2> QED BY <2>1, <2>3 DEF x
<1>3. Pieces(L) = q + 1
  BY DEF Pieces, M
<1> HIDE DEF q
<1>4. ASSUME NEW i \in 1 .. q + 1
      PROVE  /\ PieceEnd(L, i) \in 0 .. L /\ (i - 1) * M \in 0 .. PieceEnd(L, i)
             /\ PieceEnd(L, i) - (i - 1) * M <= Largest
             /\ i # q + 1 => PieceEnd(L, i) = i * M
  <2> DEFINE r == (i - 1) * M
             t == i * M
             x == q * M
  <2>1. r \in Nat /\ t = r + M /\ x \in Nat
    <3>1. i - 1 \in Nat /\ i = (i - 1) + 1
      BY <1>2
    <3> QED BY <3>1, <1>1, <1>2
  <2>2. PieceEnd(L, i) = IF i = q + 1 THEN L ELSE t
    BY <1>3 DEF PieceEnd, M
  <2>3. CASE i = q + 1
    <3>1. i - 1 = q
      BY <2>3, <1>2
    <3>2. r = x
      BY <3>1
    <3> HIDE DEF r, t, x
    <3>3. x <= L /\ L - x <= M
      BY <1>2 DEF x
    <3> QED BY <1>1, <2>1, <2>2, <2>3, <3>2, <3>3 DEF r
  <2>4. CASE i # q + 1
    <3>1. i <= q /\ i \in Nat
      BY <2>4, <1>2
    <3>2. t <= x
      BY <3>1, <1>1, <1>2
    <3>3. x <= L
      BY <1>2
    <3> HIDE DEF r, t, x
    <3>4. t \in 0 .. L /\ r \in 0 .. t /\ t - r <= Largest
      BY <1>1, <2>1, <3>2, <3>3
    <3> QED BY <2>2, <2>4, <3>4 DEF r, t
  <2> QED BY <2>3, <2>4
<1>5. PieceEnd(L, Pieces(L)) = L /\ q + 1 \in Nat \ {0}
  BY <1>2 DEF PieceEnd
<1> QED BY <1>3, <1>4, <1>5 DEF M

LEMMA PieceIs ==
  ASSUME NEW m \in Seq(Byte), NEW i \in 1 .. Pieces(Len(m))
  PROVE  Piece(m, i) \in Seq(Byte) /\ Len(Piece(m, i)) <= Largest
<1> DEFINE L == Len(m)
           k == (i - 1) * MaxFrame
           a == k + 1
           z == PieceEnd(L, i)
<1>1. L \in Nat
  BY LenProperties
<1>2. z \in 0 .. L /\ k \in 0 .. z /\ z - k <= Largest
  BY <1>1, PieceEnds
<1>3. Piece(m, i) = SubSeq(m, a, z)
  BY DEF Piece
<1>4. a = k + 1
  OBVIOUS
<1> HIDE DEF a, k, z
<1>5. a \in Int /\ z \in Int /\ \A j \in a .. z : j \in 1 .. L
  BY <1>1, <1>2, <1>4
<1>6. \A j \in a .. z : m[j] \in Byte
  BY <1>5, ElementOfSeq
<1>7. /\ SubSeq(m, a, z) \in Seq(Byte)
      /\ Len(SubSeq(m, a, z)) = IF a <= z THEN z - a + 1 ELSE 0
  BY <1>5, <1>6, SubSeqProperties
<1>8. Len(SubSeq(m, a, z)) <= Largest
  <2>1. Largest \in Nat
    BY DEF Largest
  <2> QED BY <2>1, <1>1, <1>2, <1>4, <1>7
<1> QED BY <1>3, <1>7, <1>8

\* A piece goes on where the one before it ended.
LEMMA PieceGoesOn ==
  ASSUME NEW m \in Seq(Byte), NEW i \in 1 .. Pieces(Len(m))
  PROVE  SubSeq(m, 1, (i - 1) * MaxFrame) \o Piece(m, i) = SubSeq(m, 1, PieceEnd(Len(m), i))
<1> DEFINE L == Len(m)
           k == (i - 1) * MaxFrame
           z == PieceEnd(L, i)
           one == 1
<1>1. L \in Nat /\ one = 1
  BY LenProperties
<1>2. z \in 0 .. L /\ k \in 0 .. z
  BY <1>1, PieceEnds
<1>3. Piece(m, i) = SubSeq(m, k + 1, z)
  BY DEF Piece
<1> HIDE DEF k, z, one
<1>4. SubSeq(m, one, k) \o SubSeq(m, k + 1, z) = SubSeq(m, one, z)
  <2>1. one \in 1 .. Len(m) + 1 /\ k \in one - 1 .. Len(m) /\ z \in k .. Len(m)
    BY <1>1, <1>2 DEF L
  <2> QED BY <2>1, ConcatAdjacentSubSeq
<1>5. SubSeq(m, one, k) \o Piece(m, i) = SubSeq(m, one, z)
  BY <1>3, <1>4
<1> QED BY <1>5 DEF k, z, one, L

\* A piece goes in a frame of its own.
LEMMA PieceWritten ==
  ASSUME NEW s \in Seq(Byte), NEW m \in Seq(Byte), NEW op \in 0 .. 15, NEW i \in 1 .. Pieces(Len(m))
  PROVE  /\ PieceOp(op, i) \in 0 .. 15
         /\ WrittenFrame(s, PieceFrame(m, op, i), i = Pieces(Len(m)), PieceOp(op, i), Piece(m, i))
<1> DEFINE p == Piece(m, i)
           o == PieceOp(op, i)
           end == i = Pieces(Len(m))
<1>1. p \in Seq(Byte) /\ Len(p) <= Largest
  BY PieceIs
<1>2. o \in 0 .. 15
  BY DEF PieceOp, OpContinue
<1>3. end \in BOOLEAN
  OBVIOUS
<1>4. PieceFrame(m, op, i) = ComposeHeader(end, o, Len(p), <<>>) \o p
  BY DEF PieceFrame
<1> HIDE DEF p, o, end
<1>5. WrittenFrame(s, ComposeHeader(end, o, Len(p), <<>>) \o p, end, o, p)
  BY <1>1, <1>2, <1>3, FrameWritten
<1> QED BY <1>2, <1>4, <1>5 DEF p, o, end

\* The frames of a message, one after the other.
LEMMA Composed ==
  ASSUME NEW m \in Seq(Byte), NEW op \in 0 .. 15
  PROVE  \E flat :
           /\ flat \in [1 .. Pieces(Len(m)) -> Seq(Byte)] /\ flat[1] = PieceFrame(m, op, 1)
           /\ \A i \in 1 .. Pieces(Len(m)) - 1 : flat[i + 1] = flat[i] \o PieceFrame(m, op, i + 1)
           /\ ComposeFrames(m, op) = flat[Pieces(Len(m))]
<1> DEFINE n == Pieces(Len(m))
           seqs == [i \in 1 .. n |-> PieceFrame(m, op, i)]
<1>1. n \in Nat /\ n # 0
  <2>1. Len(m) \in Nat
    BY LenProperties
  <2> QED BY <2>1, PieceEnds
<1>2. ASSUME NEW i \in 1 .. n PROVE PieceFrame(m, op, i) \in Seq(Byte)
  <2>1. WrittenFrame(m, PieceFrame(m, op, i), i = Pieces(Len(m)), PieceOp(op, i), Piece(m, i))
    BY PieceWritten
  <2> QED BY <2>1 DEF WrittenFrame
<1>3. ComposeFrames(m, op) = FlattenSeq(seqs)
  BY DEF ComposeFrames, PieceFrame, PieceOp, Piece, PieceEnd, Pieces
<1>4. seqs \in [1 .. n -> Seq(Byte)] /\ \A i \in 1 .. n : seqs[i] = PieceFrame(m, op, i)
  BY <1>2
<1> HIDE DEF n, seqs
<1>5. seqs \in Seq(Seq(Byte)) /\ Len(seqs) = n
  BY <1>1, <1>4, FunctionIsSeq
<1>6. PICK flat : /\ flat \in [1 .. n -> Seq(Byte)] /\ flat[1] = seqs[1]
                  /\ \A i \in 1 .. n - 1 : flat[i + 1] = flat[i] \o seqs[i + 1]
                  /\ FlattenSeq(seqs) = flat[n]
  BY <1>1, <1>5, FlattenSteps
<1>7. 1 \in 1 .. n /\ \A i \in 1 .. n - 1 : i + 1 \in 1 .. n
  BY <1>1
<1>8. /\ flat[1] = PieceFrame(m, op, 1) /\ ComposeFrames(m, op) = flat[n]
      /\ \A i \in 1 .. n - 1 : flat[i + 1] = flat[i] \o PieceFrame(m, op, i + 1)
  BY <1>3, <1>4, <1>6, <1>7
<1> QED BY <1>6, <1>8 DEF n

LEMMA FramesBytes ==
  ASSUME NEW bytes \in Seq(Byte), NEW op \in 0 .. 15
  PROVE  ComposeFrames(bytes, op) \in Seq(Byte)
<1>1. Len(bytes) \in Nat
  BY LenProperties
<1>2. Pieces(Len(bytes)) \in 1 .. Pieces(Len(bytes))
  BY <1>1, PieceEnds
<1>3. PICK flat : /\ flat \in [1 .. Pieces(Len(bytes)) -> Seq(Byte)]
                  /\ ComposeFrames(bytes, op) = flat[Pieces(Len(bytes))]
  BY Composed
<1> QED BY <1>2, <1>3

-----------------------------------------------------------------------------
(* Types.                                                                  *)

TInv ==
  /\ closingHandshakeSent \in BOOLEAN /\ closingHandshakeReceived \in BOOLEAN
  /\ state \in {"Connected", "Closing", "Unconnected"}
  /\ tcpState \in {"Connected", "Closing", "Unconnected"}
  /\ down \in Seq(Byte) /\ written \in Seq(Outputs) /\ disconnects \in Nat

LEMMA LengthKnown == RInv => payloadLength \in Int
<1>1. \A e \in Events : Len(e) \in Nat
  BY QWsSocketAssumption, LenProperties
<1>2. RInv => payloadLength \in {0, 1, 2} \/ \E e \in Events : payloadLength = Len(e)
  BY DEF RInv, ParserTypes
<1> QED BY <1>1, <1>2

LEMMA CloseTypes ==
  ASSUME TInv, NEW status \in Seq(Byte), NEW prefix \in Seq(Byte), NEW handshakeReceived \in BOOLEAN,
         Close(status, handshakeReceived, prefix), written' = written
  PROVE  TInv'
<1> DEFINE frame == ComposeHeader(TRUE, OpClose, Len(status), <<>>) \o status
<1>1. frame \in Seq(Byte)
  <2>1. Len(status) \in Nat /\ OpClose \in 0 .. 15
    BY LenProperties DEF OpClose
  <2>2. ComposeHeader(TRUE, OpClose, Len(status), <<>>) \in Seq(Byte)
    BY <2>1, HeaderBytes
  <2> QED BY <2>2, ConcatProperties
<1> HIDE DEF frame
<1>2. prefix \o frame \in Seq(Byte) /\ prefix \o <<>> \in Seq(Byte)
  BY <1>1, ConcatProperties, ConcatEmptySeq
<1>3. down' \in Seq(Byte)
  BY <1>2 DEF Close, frame
<1>4. handshakeReceived \in BOOLEAN /\ TRUE \in BOOLEAN
  OBVIOUS
<1>5. closingHandshakeReceived' \in BOOLEAN /\ closingHandshakeSent' \in BOOLEAN
  BY <1>4, ZenonT(20) DEF Close
<1>6. /\ state' \in {"Connected", "Closing", "Unconnected"}
      /\ tcpState' \in {"Connected", "Closing", "Unconnected"}
      /\ disconnects' \in Nat
  <2>1. CASE handshakeReceived
    BY <2>1 DEF TInv, Close
  <2>2. CASE ~ handshakeReceived
    BY <2>2 DEF TInv, Close
  <2> QED BY <2>1, <2>2
<1>7. written' \in Seq(Outputs)
  BY DEF TInv
<1> QED BY <1>3, <1>5, <1>6, <1>7 DEF TInv

LEMMA EndFrameTypes ==
  ASSUME TInv, NEW frame, NEW status \in Seq(Byte), EndFrame(frame, status), written' = written
  PROVE  TInv'
<1> DEFINE pong == ComposeFrames(ComposeHeader(TRUE, OpPong, 0, <<>>), OpBinary)
<1>1. down \in Seq(Byte) /\ TRUE \in BOOLEAN
  BY DEF TInv
<1>2. pong \in Seq(Byte)
  <2>1. 0 \in Nat /\ OpPong \in 0 .. 15 /\ OpBinary \in 0 .. 15
    BY DEF OpPong, OpBinary
  <2>2. ComposeHeader(TRUE, OpPong, 0, <<>>) \in Seq(Byte)
    BY <2>1, HeaderBytes
  <2> QED BY <2>1, <2>2, FramesBytes
<1> HIDE DEF pong
<1>3. CASE opcode = OpClose /\ state # "Unconnected"
  BY <1>1, <1>3, CloseTypes DEF EndFrame
<1>4. CASE ~ (opcode = OpClose /\ state # "Unconnected")
  <2>1. UNCHANGED <<closing, disconnects>> /\ down' = IF opcode = OpPing THEN down \o pong ELSE down
    BY <1>4 DEF EndFrame, pong
  <2>2. down' \in Seq(Byte)
    BY <2>1, <1>1, <1>2, ConcatProperties
  <2> QED BY <2>1, <2>2 DEF TInv, closing
<1> QED BY <1>3, <1>4

LEMMA ReadBodyTypes ==
  ASSUME RInv, TInv, NEW bytes \in Seq(Byte), Len(bytes) >= payloadLength, NEW key,
         ReadBody(bytes, key), written' = written
  PROVE  TInv'
<1> DEFINE status == IF opcode = OpClose /\ payloadLength >= 2 THEN First(bytes, 2) ELSE <<>>
           told == IF FromBigEndian(status) = 0 THEN <<>> ELSE status
<1>1. payloadLength \in Int /\ Len(bytes) \in Nat
  BY LengthKnown, LenProperties
<1>2. <<>> \in Seq(Byte)
  BY EmptySeq
<1>3. status \in Seq(Byte)
  <2>1. CASE opcode = OpClose /\ payloadLength >= 2
    <3>1. 2 \in 0 .. Len(bytes)
      BY <2>1, <1>1
    <3> QED BY <2>1, <3>1, FirstBytes
  <2> QED BY <2>1, <1>2
<1> HIDE DEF status
<1>4. told \in Seq(Byte)
  BY <1>2, <1>3
<1>5. CASE isFinalFragment
  <2>1. \E frame : EndFrame(frame, told)
    BY <1>5 DEF ReadBody, status
  <2> HIDE DEF told
  <2> QED BY <2>1, <1>4, EndFrameTypes
<1>6. CASE ~ isFinalFragment
  BY <1>6 DEF ReadBody, TInv, closing
<1> QED BY <1>5, <1>6

\* Steps that write nothing and leave the closing handshake alone.
LEMMA TypesStay ==
  ASSUME TInv, UNCHANGED <<closing, down, written, disconnects>>
  PROVE  TInv'
BY DEF TInv, closing

LEMMA UnconnectedTypes ==
  ASSUME TInv, TcpUnconnected, UNCHANGED <<down, written>>
  PROVE  TInv'
<1>1. closingHandshakeReceived' \in BOOLEAN /\ closingHandshakeSent' \in BOOLEAN
  BY ZenonT(20) DEF TcpUnconnected
<1>2. /\ state' = "Unconnected" /\ tcpState' = "Unconnected" /\ disconnects' \in Nat
      /\ down' \in Seq(Byte) /\ written' \in Seq(Outputs)
  BY DEF TInv, TcpUnconnected
<1> QED BY <1>1, <1>2 DEF TInv

LEMMA TInvStep == RInv /\ TInv /\ [SocketNext]_socketVars => TInv'
<1> SUFFICES ASSUME RInv, TInv, [SocketNext]_socketVars PROVE TInv'
  OBVIOUS
<1>1. ASSUME NEW key \in Keys, NEW e \in Events, Send(e, key) PROVE TInv'
  BY <1>1, TypesStay DEF Send
<1>2. ASSUME NEW key \in Keys, Ping(key) PROVE TInv'
  BY <1>2, TypesStay DEF Ping
<1>3. ASSUME NEW key \in Keys, SendClose(<<>>, key) \/ SendClose(<<1, 1>>, key) PROVE TInv'
  BY <1>3, TypesStay DEF SendClose
<1>4. CASE Leave
  BY <1>4, TypesStay DEF Leave
<1>5. ASSUME NEW k \in DOMAIN wire, ReadyRead(k) PROVE TInv'
  BY <1>5, TypesStay DEF ReadyRead
<1>6. CASE ReadHeader
  BY <1>6, TypesStay DEF ReadHeader
<1>7. CASE ReadLength
  BY <1>7, TypesStay DEF ReadLength
<1>8. CASE ReadMask
  <2>1. CASE Len(Rest(avail, 4)) < payloadLength
    BY <1>8, <2>1, TypesStay DEF ReadMask
  <2>2. CASE ~ (Len(Rest(avail, 4)) < payloadLength)
    <3>1. ReadBody(Rest(avail, 4), First(avail, 4)) /\ Len(avail) >= 4 /\ written' = written
      BY <1>8, <2>2 DEF ReadMask
    <3>2. avail \in Seq(Byte) /\ Len(avail) \in Nat
      BY LenProperties DEF RInv, ParserTypes
    <3>3. 4 \in 0 .. Len(avail)
      BY <3>1, <3>2
    <3>4. Rest(avail, 4) \in Seq(Byte)
      BY <3>2, <3>3, RestBytes
    <3>5. Len(Rest(avail, 4)) >= payloadLength
      <4>1. payloadLength \in Int
        BY LengthKnown
      <4>2. Len(Rest(avail, 4)) \in Nat
        BY <3>4, LenProperties
      <4> QED BY <4>1, <4>2, <2>2
    <3> QED BY <3>1, <3>4, <3>5, ReadBodyTypes
  <2> QED BY <2>1, <2>2
<1>9. CASE ReadPending
  <2>1. avail \in Seq(Byte)
    BY DEF RInv, ParserTypes
  <2> QED BY <1>9, <2>1, ReadBodyTypes DEF ReadPending
<1>10. CASE StopReading
  BY <1>10, TypesStay DEF StopReading
<1>11. CASE TcpClosing
  <2>1. CASE state = "Connected"
    <3> DEFINE head == ComposeHeader(TRUE, OpClose, 2, <<>>)
    <3>1. head \in Seq(Byte)
      <4>1. 2 \in Nat /\ OpClose \in 0 .. 15
        BY DEF OpClose
      <4> QED BY <4>1, HeaderBytes
    <3>2. CloseGoingAway \in Seq(Byte)
      <4>1. 2 \in Nat /\ 1001 \in Nat
        OBVIOUS
      <4> QED BY <4>1, NumberBytes DEF CloseGoingAway
    <3> HIDE DEF head
    <3>3. down \in Seq(Byte)
      BY DEF TInv
    <3>4. down \o head \in Seq(Byte)
      BY <3>1, <3>3, ConcatProperties
    <3>5. (down \o head) \o CloseGoingAway \in Seq(Byte)
      BY <3>2, <3>4, ConcatProperties
    <3>6. down' \in Seq(Byte)
      BY <1>11, <2>1, <3>5 DEF TcpClosing, head
    <3> QED BY <1>11, <2>1, <3>6 DEF TcpClosing, TInv
  <2>2. CASE state # "Connected"
    BY <1>11, <2>2 DEF TcpClosing, TInv
  <2> QED BY <2>1, <2>2
<1>12. CASE TcpClosed
  BY <1>12, UnconnectedTypes DEF TcpClosed
<1>13. CASE TcpReset
  BY <1>13, UnconnectedTypes DEF TcpReset
<1>14. ASSUME NEW m \in Outputs, Write(m) PROVE TInv'
  <2>1. m \in Seq(Byte) /\ OpText \in 0 .. 15
    BY QWsSocketAssumption DEF Byte, OpText
  <2>2. ComposeFrames(m, OpText) \in Seq(Byte)
    BY <2>1, FramesBytes
  <2>3. down' = down \o ComposeFrames(m, OpText) /\ written' = Append(written, m)
        /\ UNCHANGED <<closing, disconnects>>
    BY <1>14 DEF Write
  <2>4. down \in Seq(Byte) /\ written \in Seq(Outputs)
    BY DEF TInv
  <2>5. down' \in Seq(Byte)
    BY <2>2, <2>3, <2>4, ConcatProperties
  <2>6. written' \in Seq(Outputs)
    BY <2>3, <2>4, AppendProperties
  <2> QED BY <2>3, <2>5, <2>6 DEF TInv, closing
<1>15. CASE UNCHANGED socketVars
  BY <1>15, TypesStay DEF socketVars
<1> QED
  BY <1>1, <1>2, <1>3, <1>4, <1>5, <1>6, <1>7, <1>8, <1>9, <1>10, <1>11, <1>12, <1>13,
     <1>14, <1>15 DEF SocketNext, ProcessData

LEMMA TInvInit == SocketInit => TInv
<1> SUFFICES ASSUME SocketInit PROVE TInv
  OBVIOUS
<1>1. <<>> \in Seq(Byte) /\ <<>> \in Seq(Outputs)
  BY EmptySeq
<1>2. closingHandshakeReceived \in BOOLEAN /\ closingHandshakeSent \in BOOLEAN
  BY ZenonT(20) DEF SocketInit
<1>3. /\ state = "Connected" /\ tcpState = "Connected" /\ disconnects \in Nat
      /\ down \in Seq(Byte) /\ written \in Seq(Outputs)
  BY <1>1 DEF SocketInit
<1> QED BY <1>2, <1>3 DEF TInv

\* The parser's fields, the bytes in every buffer and the states of the closing handshake keep
\* their types; the length of a frame in hand is that of a message, of a ping or of a status
\* (QWsSocket.cpp, QWsSocket.h).
THEOREM SocketTypes == SocketSpec => []SocketTypeOK
<1>1. RInv /\ TInv => SocketTypeOK
  <2>1. <<>> \in Seq(Byte)
    BY EmptySeq
  <2> QED BY <2>1 DEF RInv, TInv, ParserTypes, SocketTypeOK
<1> QED BY <1>1, RInvInit, RInvStep, TInvInit, TInvStep, PTL DEF SocketSpec

-----------------------------------------------------------------------------
(* The frames in what is written.                                          *)

AnyFrame == [fin : BOOLEAN, op : 0 .. 15, payload : Seq(Byte), next : Nat]

\* The frames of F start at the bytes at of s, one after the other, and make all of it.
Cut(s, F, at) ==
  /\ F \in Seq(AnyFrame)
  /\ at \in [1 .. Len(F) + 1 -> 1 .. Len(s) + 1]
  /\ at[1] = 1 /\ at[Len(F) + 1] = Len(s) + 1
  /\ \A k \in 1 .. Len(F) : F[k] = FrameAt(s, at[k]) /\ F[k].next = at[k + 1]

\* The browser finds these frames.
LEMMA FramesRead ==
  ASSUME NEW s \in Seq(Byte), NEW F, NEW at, Cut(s, F, at)
  PROVE  FramesOf(s) = F
<1> DEFINE L == Len(s)
           N == Len(F)
           next(i) == FrameAt(s, i).next
           item(i) == <<FrameAt(s, i)>>
           From(f, i) == IF next(i) > L + 1 THEN <<>> ELSE item(i) \o f[next(i)]
           from == CHOOSE f : f = [i \in 1 .. L + 1 |-> From(f, i)]
<1>1. L \in Nat /\ N \in Nat /\ F \in Seq(AnyFrame)
  BY LenProperties DEF Cut
<1>2. \A i \in 1 .. L + 1 : next(i) \in Nat /\ next(i) >= i + 2
  <2>1. \A i \in 1 .. L + 1 : i \in Nat \ {0}
    BY <1>1
  <2> QED BY <2>1, FrameFields
<1>3. FramesOf(s) = from[1]
  BY DEF FramesOf
<1>4. /\ at \in [1 .. N + 1 -> 1 .. L + 1]
      /\ at[1] = 1 /\ at[N + 1] = L + 1
      /\ \A k \in 1 .. N : F[k] \in AnyFrame /\ item(at[k]) = <<F[k]>> /\ next(at[k]) = at[k + 1]
  BY ElementOfSeq DEF Cut
<1> HIDE DEF L, N, next, item, from
<1>5. \A n \in 0 .. L + 1 : \E f : f = [i \in L + 2 - n .. L + 1 |-> From(f, i)]
  <2> DEFINE T == {n \in 0 .. L + 1 : ~ \E f : f = [i \in L + 2 - n .. L + 1 |-> From(f, i)]}
  <2> HIDE DEF From
  <2> SUFFICES ASSUME T # {} PROVE FALSE
    OBVIOUS
  <2>1. T \subseteq Nat
    BY <1>1
  <2> HIDE DEF T
  <2>2. PICK n \in T : \A m \in T : n <= m
    BY <2>1, Smallest
  <2> USE DEF T
  <2>3. n # 0
    <3>1. \A i \in L + 2 - 0 .. L + 1 : FALSE
      BY <1>1
    <3>2. [i \in L + 2 - 0 .. L + 1 |-> 0] = [i \in L + 2 - 0 .. L + 1 |-> From(<<>>, i)]
      BY <3>1
    <3>3. [i \in L + 2 - 0 .. L + 1 |-> 0]
          = [i \in L + 2 - 0 .. L + 1 |-> From([j \in L + 2 - 0 .. L + 1 |-> 0], i)]
      BY <3>1
    <3> QED BY <3>3, <2>2
  <2>4. n \in 1 .. L + 1 /\ n - 1 \in 0 .. L + 1 /\ ~ (n <= n - 1)
    BY <1>1, <2>2, <2>3
  <2> DEFINE a == L + 2 - n
             b == L + 2 - (n - 1)
  <2>5. a \in 1 .. L + 1 /\ b = a + 1
    BY <1>1, <2>4
  <2>6. PICK g : g = [i \in b .. L + 1 |-> From(g, i)]
    BY <2>2, <2>4
  <2>7. ~ \E f : f = [i \in a .. L + 1 |-> From(f, i)]
    BY <2>2
  <2> HIDE DEF a, b, T
  <2> DEFINE f == [i \in a .. L + 1 |-> IF i = a THEN From(g, a) ELSE g[i]]
  <2>8. ASSUME NEW i \in a .. L + 1 PROVE f[i] = From(f, i)
    <3>1. i \in 1 .. L + 1 /\ next(i) \in Nat /\ next(i) >= i + 2 /\ a \in Nat
      BY <1>1, <1>2, <2>5
    <3>2. ~ (next(i) > L + 1) => next(i) \in a .. L + 1 /\ next(i) # a
      BY <1>1, <3>1
    <3>3. ~ (next(i) > L + 1) => f[next(i)] = g[next(i)]
      BY <3>2
    <3> HIDE DEF f
    <3>4. From(f, i) = From(g, i)
      BY <3>3 DEF From
    <3>5. i # a => i \in b .. L + 1
      BY <1>1, <2>5
    <3>6. i # a => g[i] = From(g, i)
      BY <2>6, <3>5
    <3>7. f[i] = IF i = a THEN From(g, a) ELSE g[i]
      BY DEF f
    <3> QED BY <3>4, <3>6, <3>7
  <2>9. f = [i \in a .. L + 1 |-> From(f, i)]
    BY <2>8
  <2> QED BY <2>7, <2>9
<1>6. from = [i \in 1 .. L + 1 |-> From(from, i)]
  <2> HIDE DEF From
  <2>1. L + 1 \in 0 .. L + 1 /\ L + 2 - (L + 1) = 1
    BY <1>1
  <2>2. \E f : f = [i \in 1 .. L + 1 |-> From(f, i)]
    BY <1>5, <2>1
  <2> QED BY <2>2 DEF from
<1> DEFINE LastFrames(n, r) == /\ r \in Seq(AnyFrame) /\ Len(r) = n
                          /\ \A j \in 1 .. n : r[j] = F[N - n + j]
<1>7. \A n \in 0 .. N : LastFrames(n, from[at[N + 1 - n]])
  <2> DEFINE T == {n \in 0 .. N : ~ LastFrames(n, from[at[N + 1 - n]])}
  <2> HIDE DEF LastFrames, From
  <2> SUFFICES ASSUME T # {} PROVE FALSE
    OBVIOUS
  <2>1. T \subseteq Nat
    BY <1>1
  <2> HIDE DEF T
  <2>2. PICK n \in T : \A m \in T : n <= m
    BY <2>1, Smallest
  <2> USE DEF T
  <2> DEFINE k == N + 1 - n
  <2>3. n \in 0 .. N /\ n \in Nat /\ ~ LastFrames(n, from[at[k]])
    BY <2>2, <1>1
  <2>4. k \in 1 .. N + 1 /\ at[k] \in 1 .. L + 1
    BY <2>3, <1>1, <1>4
  <2>5. from[at[k]] = From(from, at[k])
    BY <1>6, <2>4
  <2>6. CASE n = 0
    <3>1. at[k] = L + 1
      BY <2>6, <1>1, <1>4
    <3>2. next(L + 1) > L + 1
      <4>1. L + 1 \in 1 .. L + 1
        BY <1>1
      <4>2. next(L + 1) \in Nat /\ next(L + 1) >= (L + 1) + 2
        BY <1>2, <4>1
      <4> QED BY <1>1, <4>2
    <3>3. from[at[k]] = <<>>
      BY <2>5, <3>1, <3>2 DEF From
    <3>4. <<>> \in Seq(AnyFrame) /\ Len(<<>>) = 0
      BY EmptySeq
    <3> QED BY <2>3, <2>6, <3>3, <3>4 DEF LastFrames
  <2>7. CASE n # 0
    <3> DEFINE r == from[at[k + 1]]
               q == <<F[k]>>
    <3>1. n - 1 \in 0 .. N /\ N + 1 - (n - 1) = k + 1 /\ k \in 1 .. N /\ k + 1 \in 1 .. N + 1 /\ ~ (n <= n - 1)
      BY <2>3, <2>7, <1>1
    <3>2. LastFrames(n - 1, r)
      BY <2>2, <3>1
    <3>3. next(at[k]) = at[k + 1] /\ at[k + 1] \in 1 .. L + 1 /\ item(at[k]) = q /\ F[k] \in AnyFrame
      BY <3>1, <1>4
    <3>4. ~ (next(at[k]) > L + 1)
      BY <3>3, <1>1
    <3>5. from[at[k]] = q \o r
      BY <2>5, <3>3, <3>4 DEF From
    <3>6. q \in Seq(AnyFrame) /\ Len(q) = 1 /\ q[1] = F[k]
      BY <3>3
    <3>7. r \in Seq(AnyFrame) /\ Len(r) = n - 1 /\ \A j \in 1 .. n - 1 : r[j] = F[N - (n - 1) + j]
      BY <3>2 DEF LastFrames
    <3> HIDE DEF q, r
    <3> DEFINE c == q \o r
    <3>8. c \in Seq(AnyFrame) /\ IsJoin(c, q, r)
      BY <3>6, <3>7, Joined
    <3> HIDE DEF c
    <3>9. Len(c) = 1 + (n - 1) /\ c[1] = F[k] /\ \A j \in 1 .. n - 1 : c[1 + j] = F[N - (n - 1) + j]
      <4>1. /\ Len(c) = Len(q) + Len(r)
            /\ \A i \in 1 .. Len(q) : c[i] = q[i]
            /\ \A i \in 1 .. Len(r) : c[Len(q) + i] = r[i]
        BY <3>8 DEF IsJoin
      <4>2. /\ Len(c) = 1 + (n - 1)
            /\ \A i \in 1 .. 1 : c[i] = q[i]
            /\ \A i \in 1 .. n - 1 : c[1 + i] = r[i]
        BY <4>1, <3>6, <3>7
      <4> QED BY <4>2, <3>6, <3>7
    <3>10. ASSUME NEW j \in 1 .. n PROVE c[j] = F[N - n + j]
      <4>1. CASE j = 1
        <5>1. N - n + j = k
          BY <4>1, <1>1, <2>3
        <5> QED BY <5>1, <4>1, <3>9
      <4>2. CASE j # 1
        <5> DEFINE i == j - 1
        <5>1. i \in 1 .. n - 1 /\ j = 1 + i /\ N - (n - 1) + i = N - n + j
          BY <4>2, <1>1, <2>3
        <5> HIDE DEF i
        <5>2. c[1 + i] = F[N - (n - 1) + i]
          BY <5>1, <3>9
        <5> QED BY <5>1, <5>2
      <4> QED BY <4>1, <4>2
    <3>11. Len(c) = n
      BY <3>9, <2>3
    <3>12. LastFrames(n, c)
      BY <3>8, <3>10, <3>11 DEF LastFrames
    <3> QED BY <2>3, <3>5, <3>12 DEF c
  <2> QED BY <2>6, <2>7
<1>8. LastFrames(N, from[1])
  <2>1. N \in 0 .. N /\ N + 1 - N = 1
    BY <1>1
  <2> HIDE DEF LastFrames
  <2>2. LastFrames(N, from[at[1]])
    BY <1>7, <2>1
  <2> QED BY <2>2, <1>4
<1> DEFINE r == from[1]
<1>9. r \in Seq(AnyFrame) /\ Len(r) = N /\ \A j \in 1 .. N : r[j] = F[N - N + j]
  BY <1>8
<1> HIDE DEF r
<1>10. \A j \in 1 .. N : r[j] = F[j]
  <2>1. \A j \in 1 .. N : N - N + j = j
    BY <1>1
  <2> QED BY <2>1, <1>9
<1>11. r = F
  BY <1>1, <1>9, <1>10, SeqEqual DEF N
<1> QED BY <1>3, <1>11 DEF r

\* One more frame behind s is one more frame that is read.
LEMMA FrameFollows ==
  ASSUME NEW s \in Seq(Byte), NEW F, NEW at, Cut(s, F, at), NEW b, NEW end \in BOOLEAN, NEW op \in 0 .. 15,
         NEW p \in Seq(Byte), WrittenFrame(s, b, end, op, p)
  PROVE  /\ FrameAt(s \o b, Len(s) + 1) \in AnyFrame
         /\ \E to : Cut(s \o b, Append(F, FrameAt(s \o b, Len(s) + 1)), to)
<1> DEFINE L == Len(s)
           c == s \o b
           M == Len(c)
           N == Len(F)
           f == FrameAt(c, L + 1)
           G == Append(F, f)
           to == [k \in 1 .. N + 2 |-> IF k = N + 2 THEN M + 1 ELSE at[k]]
<1>1. /\ b \in Seq(Byte) /\ c \in Seq(Byte) /\ M \in Nat /\ M >= L + 2
      /\ f.next = M + 1 /\ f.op = op /\ (f.fin <=> end) /\ f.payload = p
  BY LenProperties DEF WrittenFrame
<1>2. L \in Nat /\ N \in Nat /\ F \in Seq(AnyFrame)
  BY LenProperties DEF Cut
<1>3. /\ at \in [1 .. N + 1 -> 1 .. L + 1] /\ at[1] = 1 /\ at[N + 1] = L + 1
      /\ \A k \in 1 .. N : F[k] = FrameAt(s, at[k]) /\ F[k].next = at[k + 1]
  BY DEF Cut
<1>4. f \in AnyFrame
  <2>1. f = [fin |-> f.fin, op |-> f.op, payload |-> f.payload, next |-> f.next] /\ f.fin \in BOOLEAN
    BY DEF FrameAt
  <2> HIDE DEF f, c, L, M
  <2>2. f.next \in Nat
    BY <1>1
  <2> QED BY <1>1, <2>1, <2>2 DEF AnyFrame
<1>5. \A i \in Nat \ {0} : FrameAt(s, i).next <= L + 1 => FrameAt(c, i) = FrameAt(s, i)
  BY <1>1, FrameStays
<1> HIDE DEF c, L, M, N, f
<1>6. G \in Seq(AnyFrame) /\ Len(G) = N + 1 /\ (\A k \in 1 .. N : G[k] = F[k]) /\ G[N + 1] = f
  BY <1>2, <1>4, AppendProperties DEF N
<1> HIDE DEF G
<1>7. \A k \in 1 .. N + 2 : k = N + 2 \/ k \in 1 .. N + 1
  BY <1>2
<1>8. to[N + 2] = M + 1 /\ \A k \in 1 .. N + 1 : to[k] = at[k]
  <2>1. N + 2 \in 1 .. N + 2 /\ \A k \in 1 .. N + 1 : k \in 1 .. N + 2 /\ k # N + 2
    BY <1>2
  <2> QED BY <2>1
<1>9. to \in [1 .. N + 2 -> 1 .. M + 1]
  <2>1. M + 1 \in 1 .. M + 1
    BY <1>1
  <2>2. \A k \in 1 .. N + 1 : at[k] \in 1 .. L + 1
    BY <1>3
  <2>3. \A x \in 1 .. L + 1 : x \in 1 .. M + 1
    BY <1>1, <1>2
  <2>4. \A k \in 1 .. N + 2 : to[k] \in 1 .. M + 1
    <3> HIDE DEF to
    <3> QED BY <1>7, <1>8, <2>1, <2>2, <2>3
  <2> QED BY <2>4
<1> HIDE DEF to
<1>10. ASSUME NEW k \in 1 .. N + 1 PROVE G[k] = FrameAt(c, to[k]) /\ G[k].next = to[k + 1]
  <2>1. CASE k = N + 1
    <3>1. k + 1 = N + 2 /\ to[k] = L + 1 /\ G[k] = f
      BY <2>1, <1>2, <1>3, <1>6, <1>8
    <3> QED BY <3>1, <1>1, <1>8 DEF f
  <2>2. CASE k # N + 1
    <3>1. k \in 1 .. N /\ k + 1 \in 1 .. N + 1
      BY <2>2, <1>2
    <3>2. G[k] = F[k] /\ to[k] = at[k] /\ to[k + 1] = at[k + 1]
      BY <3>1, <1>6, <1>8
    <3>3. at[k] \in 1 .. L + 1 /\ at[k + 1] \in 1 .. L + 1
      BY <3>1, <1>3
    <3>4. at[k] \in Nat \ {0} /\ at[k + 1] <= L + 1
      BY <3>3, <1>2
    <3>5. F[k] = FrameAt(s, at[k]) /\ F[k].next = at[k + 1]
      BY <3>1, <1>3
    <3>6. FrameAt(c, at[k]) = FrameAt(s, at[k])
      BY <3>4, <3>5, <1>5
    <3> QED BY <3>2, <3>5, <3>6
  <2> QED BY <2>1, <2>2
<1>11. to[1] = 1 /\ to[(N + 1) + 1] = M + 1 /\ (N + 1) + 1 = N + 2
  BY <1>2, <1>3, <1>8
<1>12. Cut(c, G, to)
  BY <1>6, <1>9, <1>10, <1>11 DEF Cut, M
<1> QED BY <1>4, <1>12 DEF c, f, G, L

-----------------------------------------------------------------------------
(* The messages in the frames.                                             *)

\* a[k] is what is decoded of the first k frames.
Accumulates(F, a) ==
  a = [k \in 0 .. Len(F) |-> IF k = 0 THEN NoText ELSE Decode(a[k - 1], F[k])]

LEMMA DecodedRead ==
  ASSUME NEW F \in Seq(AnyFrame), NEW a, Accumulates(F, a)
  PROVE  Decoded(F) = a[Len(F)]
<1> DEFINE N == Len(F)
           Step(f, k) == IF k = 0 THEN NoText ELSE Decode(f[k - 1], F[k])
           after == CHOOSE f : f = [k \in 0 .. N |-> Step(f, k)]
<1>1. N \in Nat
  BY LenProperties
<1>2. Decoded(F) = after[N]
  BY DEF Decoded
<1>3. a = [k \in 0 .. N |-> Step(a, k)]
  BY DEF Accumulates
<1> HIDE DEF N, Step
<1>4. after = [k \in 0 .. N |-> Step(after, k)]
  BY <1>3
<1> HIDE DEF after
<1>5. \A k \in 0 .. N : after[k] = a[k]
  <2> DEFINE T == {k \in 0 .. N : after[k] # a[k]}
  <2> SUFFICES ASSUME T # {} PROVE FALSE
    OBVIOUS
  <2>1. T \subseteq Nat
    BY <1>1
  <2> HIDE DEF T
  <2>2. PICK k \in T : \A m \in T : k <= m
    BY <2>1, Smallest
  <2> USE DEF T
  <2>3. k \in 0 .. N /\ after[k] # a[k]
    BY <2>2
  <2>4. after[k] = Step(after, k) /\ a[k] = Step(a, k)
    BY <1>3, <1>4, <2>3
  <2>5. k # 0
    BY <2>3, <2>4 DEF Step
  <2>6. k - 1 \in 0 .. N /\ ~ (k <= k - 1)
    BY <1>1, <2>3, <2>5
  <2>7. after[k - 1] = a[k - 1]
    BY <2>2, <2>6
  <2> QED BY <2>3, <2>4, <2>7 DEF Step
<1>6. N \in 0 .. N
  BY <1>1
<1> QED BY <1>2, <1>5, <1>6 DEF N

LEMMA DecodedFollows ==
  ASSUME NEW F \in Seq(AnyFrame), NEW a, Accumulates(F, a), NEW f \in AnyFrame
  PROVE  \E e : Accumulates(Append(F, f), e) /\ e[Len(F) + 1] = Decode(a[Len(F)], f)
<1> DEFINE N == Len(F)
           G == Append(F, f)
           e == [k \in 0 .. N + 1 |-> IF k = N + 1 THEN Decode(a[N], f) ELSE a[k]]
<1>1. N \in Nat /\ Len(G) = N + 1 /\ (\A k \in 1 .. N : G[k] = F[k]) /\ G[N + 1] = f
  BY LenProperties, AppendProperties
<1>2. \A k \in 0 .. N : a[k] = IF k = 0 THEN NoText ELSE Decode(a[k - 1], F[k])
  BY DEF Accumulates
<1> HIDE DEF N, G
<1>3. e[N + 1] = Decode(a[N], f) /\ \A k \in 0 .. N : e[k] = a[k]
  <2>1. N + 1 \in 0 .. N + 1 /\ \A k \in 0 .. N : k \in 0 .. N + 1 /\ k # N + 1
    BY <1>1
  <2> QED BY <2>1
<1>4. ASSUME NEW k \in 0 .. N + 1 PROVE e[k] = IF k = 0 THEN NoText ELSE Decode(e[k - 1], G[k])
  <2> HIDE DEF e
  <2>1. CASE k = N + 1
    <3>1. k # 0 /\ k - 1 = N /\ N \in 0 .. N
      BY <1>1, <2>1
    <3> QED BY <2>1, <3>1, <1>1, <1>3
  <2>2. CASE k # N + 1
    <3>1. k \in 0 .. N /\ (k # 0 => k - 1 \in 0 .. N /\ k \in 1 .. N)
      BY <1>1, <2>2
    <3>2. e[k] = a[k] /\ (k # 0 => e[k - 1] = a[k - 1] /\ G[k] = F[k])
      BY <3>1, <1>1, <1>3
    <3> QED BY <3>1, <3>2, <1>2
  <2> QED BY <2>1, <2>2
<1>5. e = [k \in 0 .. N + 1 |-> e[k]]
  OBVIOUS
<1> HIDE DEF e
<1>6. e = [k \in 0 .. N + 1 |-> IF k = 0 THEN NoText ELSE Decode(e[k - 1], G[k])]
  BY <1>4, <1>5
<1>7. Accumulates(G, e)
  BY <1>1, <1>6 DEF Accumulates
<1> QED BY <1>3, <1>7 DEF G, N

OneClose(F) == \A i, j \in 1 .. Len(F) : F[i].op = OpClose /\ F[j].op = OpClose => i = j
Closes(F) == \E i \in 1 .. Len(F) : F[i].op = OpClose

\* The bytes s are frames, with one close frame at most; acc is decoded of them.
Browse(s, acc) ==
  \E F, at, a : Cut(s, F, at) /\ Accumulates(F, a) /\ a[Len(F)] = acc /\ OneClose(F)

LEMMA Browsed ==
  ASSUME NEW s \in Seq(Byte), NEW acc, Browse(s, acc)
  PROVE  /\ Decoded(FramesOf(s)) = acc
         /\ DOMAIN FramesOf(s) = 1 .. Len(FramesOf(s))
         /\ OneClose(FramesOf(s))
<1>1. PICK F, at, a : /\ Cut(s, F, at) /\ Accumulates(F, a) /\ a[Len(F)] = acc /\ OneClose(F)
  BY DEF Browse
<1>2. F \in Seq(AnyFrame)
  BY <1>1 DEF Cut
<1>3. FramesOf(s) = F
  BY <1>1, FramesRead
<1>4. Decoded(F) = acc
  BY <1>1, <1>2, DecodedRead
<1>5. DOMAIN F = 1 .. Len(F)
  BY <1>2, LenProperties
<1> QED BY <1>1, <1>3, <1>4, <1>5

LEMMA NothingBrowsed == Browse(<<>>, NoText) /\ ~ Closes(FramesOf(<<>>))
<1> DEFINE F == <<>>
           at == [k \in 1 .. 1 |-> 1]
           a == [k \in 0 .. 0 |-> NoText]
<1>1. F \in Seq(AnyFrame) /\ Len(F) = 0 /\ <<>> \in Seq(Byte)
  BY EmptySeq
<1>2. 0 + 1 = 1 /\ \A i \in 1 .. 0 : FALSE
  OBVIOUS
<1>3. at \in [1 .. 1 -> 1 .. 1] /\ at[1] = 1
  OBVIOUS
<1>4. a = [k \in 0 .. 0 |-> IF k = 0 THEN NoText ELSE Decode(a[k - 1], F[k])] /\ a[0] = NoText
  OBVIOUS
<1> HIDE DEF at, a
<1>5. Cut(<<>>, F, at)
  BY <1>1, <1>2, <1>3 DEF Cut
<1>6. Accumulates(F, a)
  <2>1. Len(F) = 0
    BY <1>1
  <2> HIDE DEF F
  <2> QED BY <2>1, <1>4 DEF Accumulates
<1>7. OneClose(F) /\ ~ Closes(F)
  BY <1>1, <1>2 DEF OneClose, Closes
<1>8. a[Len(F)] = NoText
  BY <1>1, <1>4
<1> HIDE DEF F
<1>9. Browse(<<>>, NoText)
  BY <1>5, <1>6, <1>7, <1>8 DEF Browse
<1>10. FramesOf(<<>>) = F
  BY <1>1, <1>5, FramesRead
<1> QED BY <1>7, <1>9, <1>10

\* The frame that b is behind s.
FrameOf(s, b) == FrameAt(s \o b, Len(s) + 1)

LEMMA BrowseFollows ==
  ASSUME NEW s \in Seq(Byte), NEW acc, Browse(s, acc), NEW b,
         \E end \in BOOLEAN, op \in 0 .. 15, p \in Seq(Byte) : WrittenFrame(s, b, end, op, p),
         FrameOf(s, b).op = OpClose => ~ Closes(FramesOf(s))
  PROVE  /\ Browse(s \o b, Decode(acc, FrameOf(s, b)))
         /\ Closes(FramesOf(s \o b)) => FrameOf(s, b).op = OpClose \/ Closes(FramesOf(s))
<1> DEFINE f == FrameOf(s, b)
           op == f.op
<1>0. PICK end \in BOOLEAN, o \in 0 .. 15, p \in Seq(Byte) : WrittenFrame(s, b, end, o, p)
  OBVIOUS
<1>1. PICK F, at, a : Cut(s, F, at) /\ Accumulates(F, a) /\ a[Len(F)] = acc /\ OneClose(F)
  BY DEF Browse
<1>2. F \in Seq(AnyFrame) /\ Len(F) \in Nat
  BY <1>1, LenProperties DEF Cut
<1>4. f \in AnyFrame /\ \E to : Cut(s \o b, Append(F, f), to)
  BY <1>0, <1>1, FrameFollows DEF FrameOf
<1> HIDE DEF f
<1>5. PICK to : Cut(s \o b, Append(F, f), to)
  BY <1>4
<1>6. PICK e : Accumulates(Append(F, f), e) /\ e[Len(F) + 1] = Decode(acc, f)
  BY <1>1, <1>2, <1>4, DecodedFollows
<1> DEFINE G == Append(F, f)
           N == Len(F)
<1>7. Len(G) = N + 1 /\ (\A k \in 1 .. N : G[k] = F[k]) /\ G[N + 1] = f /\ N \in Nat
  BY <1>2, <1>4, AppendProperties
<1>8. e[Len(G)] = Decode(acc, f) /\ Cut(s \o b, G, to) /\ Accumulates(G, e)
  BY <1>5, <1>6, <1>7
<1>9. ~ Closes(F) => \A k \in 1 .. N : F[k].op # OpClose
  BY DEF Closes
<1>10. \A i, j \in 1 .. N : F[i].op = OpClose /\ F[j].op = OpClose => i = j
  BY <1>1 DEF OneClose
<1> HIDE DEF G, N
<1>11. op = OpClose => \A k \in 1 .. N : F[k].op # OpClose
  BY <1>1, <1>9, FramesRead DEF f
<1>12. \A k \in 1 .. N + 1 : k = N + 1 \/ k \in 1 .. N
  BY <1>7
<1>13. \A k \in 1 .. N + 1 : (k = N + 1 /\ G[k].op = op) \/ (k \in 1 .. N /\ G[k].op = F[k].op)
  BY <1>7, <1>12
<1>14. OneClose(G)
  <2> SUFFICES ASSUME NEW i \in 1 .. N + 1, NEW j \in 1 .. N + 1, G[i].op = OpClose, G[j].op = OpClose
               PROVE  i = j
    BY <1>7 DEF OneClose
  <2> QED BY <1>10, <1>11, <1>13
<1>15. Closes(G) => op = OpClose \/ Closes(F)
  BY <1>7, <1>9, <1>13 DEF Closes
<1>16. Browse(s \o b, Decode(acc, f))
  BY <1>8, <1>14 DEF Browse
<1>17. FramesOf(s) = F /\ FramesOf(s \o b) = G
  <2>1. s \o b \in Seq(Byte)
    BY <1>0 DEF WrittenFrame
  <2> QED BY <2>1, <1>1, <1>8, FramesRead
<1> QED BY <1>15, <1>16, <1>17 DEF f

-----------------------------------------------------------------------------
(* Messages are read as they were written.                                 *)

Quiet(A) == [open |-> FALSE, data |-> <<>>, all |-> A]

\* What is decoded with the first i frames of the message m.
PieceRead(m, op, A, i) ==
  IF op = OpText /\ i # 0
  THEN IF i = Pieces(Len(m)) THEN Quiet(Append(A, m))
       ELSE [open |-> TRUE, data |-> SubSeq(m, 1, i * MaxFrame), all |-> A]
  ELSE Quiet(A)

LEMMA PieceDecoded ==
  ASSUME NEW m \in Seq(Byte), NEW op \in {OpText, OpBinary}, NEW A, NEW i \in 1 .. Pieces(Len(m)),
         NEW f, f.op = PieceOp(op, i), f.fin <=> i = Pieces(Len(m)), f.payload = Piece(m, i)
  PROVE  Decode(PieceRead(m, op, A, i - 1), f) = PieceRead(m, op, A, i)
<1> DEFINE n == Pieces(Len(m))
           p == Piece(m, i)
           before == SubSeq(m, 1, (i - 1) * MaxFrame)
           text == SubSeq(m, 1, PieceEnd(Len(m), i))
           then == SubSeq(m, 1, i * MaxFrame)
<1>1. Len(m) \in Nat /\ n \in Nat /\ PieceEnd(Len(m), n) = Len(m)
  BY LenProperties, PieceEnds
<1>2. before \o p = text
  BY PieceGoesOn
<1>3. i # n => text = then
  <2>1. i # n => PieceEnd(Len(m), i) = i * MaxFrame
    BY <1>1, PieceEnds
  <2> QED BY <2>1
<1>4. i = n => text = m
  <2>1. SubSeq(m, 1, Len(m)) = m
    BY SubSeqFull
  <2> QED BY <2>1, <1>1
<1>5. i = 1 => text = p
  <2>1. ASSUME i = 1 PROVE before = <<>>
    <3>1. (i - 1) * MaxFrame = 0
      <4>1. i - 1 = 0
        BY <2>1
      <4>2. MaxFrame \in Nat
        BY QWsSocketAssumption
      <4>3. 0 * MaxFrame = 0
        BY <4>2
      <4> QED BY <4>1, <4>3
    <3> DEFINE one == 1
               none == 0
    <3>2. one \in Int /\ none \in Int /\ none < one
      OBVIOUS
    <3> HIDE DEF one, none
    <3>3. SubSeq(m, one, none) = <<>>
      BY <3>2, SubSeqEmpty
    <3> QED BY <3>1, <3>3 DEF one, none
  <2>2. p \in Seq(Byte)
    BY PieceIs
  <2>3. <<>> \o p = p
    BY <2>2, ConcatEmptySeq
  <2> QED BY <2>1, <2>3, <1>2
<1>6. /\ PieceRead(m, op, A, i - 1) = IF op = OpText /\ i # 1
                                      THEN [open |-> TRUE, data |-> before, all |-> A] ELSE Quiet(A)
      /\ PieceRead(m, op, A, i) = IF op = OpText
                                  THEN IF i = n THEN Quiet(Append(A, m))
                                       ELSE [open |-> TRUE, data |-> then, all |-> A]
                                  ELSE Quiet(A)
  <2>1. i - 1 # n /\ i # 0 /\ (i - 1 # 0 <=> i # 1)
    BY <1>1
  <2> HIDE DEF n
  <2> QED BY <2>1 DEF PieceRead, n
<1> HIDE DEF n, p, before, text, then
<1>7. (f.fin <=> i = n) /\ f.payload = p
  BY DEF n, p
<1>8. CASE op = OpBinary
  <2>1. op # OpText /\ f.op # OpText /\ Quiet(A).open = FALSE
    BY <1>8 DEF PieceOp, OpBinary, OpText, OpContinue, Quiet
  <2> QED BY <2>1, <1>6 DEF Decode
<1>9. CASE op = OpText /\ i = 1
  <2>1. f.op = OpText
    BY <1>9 DEF PieceOp
  <2>2. Decode(Quiet(A), f) = IF i = n THEN Quiet(Append(A, p)) ELSE [open |-> TRUE, data |-> p, all |-> A]
    BY <1>7, <2>1 DEF Decode, Quiet
  <2> QED BY <2>2, <1>3, <1>4, <1>5, <1>6, <1>9
<1>10. CASE op = OpText /\ i # 1
  <2>1. f.op = OpContinue /\ f.op # OpText
    BY <1>10 DEF PieceOp, OpContinue, OpText
  <2> DEFINE acc == [open |-> TRUE, data |-> before, all |-> A]
  <2>2. Decode(acc, f) = IF i = n THEN Quiet(Append(A, before \o p))
                         ELSE [open |-> TRUE, data |-> before \o p, all |-> A]
    BY <1>7, <2>1 DEF Decode, Quiet
  <2> QED BY <2>2, <1>2, <1>3, <1>4, <1>6, <1>10
<1> QED BY <1>8, <1>9, <1>10

LEMMA ComposedBrowsed ==
  ASSUME NEW s \in Seq(Byte), NEW m \in Seq(Byte), NEW op \in {OpText, OpBinary}, NEW A, Browse(s, Quiet(A))
  PROVE  /\ Browse(s \o ComposeFrames(m, op), Quiet(IF op = OpText THEN Append(A, m) ELSE A))
         /\ Closes(FramesOf(s \o ComposeFrames(m, op))) => Closes(FramesOf(s))
<1> DEFINE n == Pieces(Len(m))
           acc(i) == PieceRead(m, op, A, i)
           frame(i) == PieceFrame(m, op, i)
           Read(t, i) == Browse(t, acc(i)) /\ (Closes(FramesOf(t)) => Closes(FramesOf(s)))
<1>1. n \in Nat \ {0} /\ op \in 0 .. 15
  <2>1. Len(m) \in Nat
    BY LenProperties
  <2> QED BY <2>1, PieceEnds DEF OpText, OpBinary
<1>2. ASSUME NEW t \in Seq(Byte), NEW i \in 1 .. n, Read(t, i - 1)
      PROVE  Read(t \o frame(i), i)
  <2> DEFINE o == PieceOp(op, i)
             p == Piece(m, i)
             end == i = n
             a == acc(i - 1)
             b == frame(i)
  <2>1. o \in 0 .. 15 /\ WrittenFrame(t, b, end, o, p)
    BY <1>1, PieceWritten
  <2>2. p \in Seq(Byte)
    BY PieceIs
  <2>3. o # OpClose /\ end \in BOOLEAN /\ Browse(t, a)
    BY <1>2 DEF PieceOp, OpText, OpBinary, OpContinue, OpClose
  <2> HIDE DEF o, p, end, a, b, acc, frame
  <2> DEFINE f == FrameOf(t, b)
  <2>4. f.op = o /\ (f.fin <=> end) /\ f.payload = p
    BY <2>1 DEF WrittenFrame, FrameOf
  <2>5. Decode(a, f) = acc(i)
    <3>1. f.op = PieceOp(op, i) /\ (f.fin <=> i = Pieces(Len(m))) /\ f.payload = Piece(m, i)
      BY <2>4 DEF o, end, p
    <3> HIDE DEF f
    <3> QED BY <3>1, PieceDecoded DEF a, acc
  <2>6. \E y \in BOOLEAN, x \in 0 .. 15, z \in Seq(Byte) : WrittenFrame(t, b, y, x, z)
    BY <2>1, <2>2, <2>3
  <2>7. f.op # OpClose
    BY <2>3, <2>4
  <2>8. Browse(t \o b, Decode(a, f)) /\ (Closes(FramesOf(t \o b)) => f.op = OpClose \/ Closes(FramesOf(t)))
    BY <2>3, <2>6, <2>7, BrowseFollows
  <2> HIDE DEF f
  <2> QED BY <1>2, <2>5, <2>7, <2>8 DEF b
<1>3. acc(0) = Quiet(A) /\ acc(n) = Quiet(IF op = OpText THEN Append(A, m) ELSE A)
  BY <1>1 DEF PieceRead
<1>4. PICK flat : /\ flat \in [1 .. n -> Seq(Byte)] /\ flat[1] = frame(1)
                  /\ \A i \in 1 .. n - 1 : flat[i + 1] = flat[i] \o frame(i + 1)
                  /\ ComposeFrames(m, op) = flat[n]
  BY <1>1, Composed
<1>5. \A i \in 1 .. n : frame(i) \in Seq(Byte)
  <2>1. \A i \in 1 .. n : WrittenFrame(m, frame(i), i = n, PieceOp(op, i), Piece(m, i))
    BY <1>1, PieceWritten
  <2> QED BY <2>1 DEF WrittenFrame
<1> HIDE DEF n, acc, frame, Read
<1>6. \A i \in 1 .. n : Read(s \o flat[i], i)
  <2> DEFINE T == {i \in 1 .. n : ~ Read(s \o flat[i], i)}
  <2> SUFFICES ASSUME T # {} PROVE FALSE
    OBVIOUS
  <2>1. T \subseteq Nat
    BY <1>1
  <2> HIDE DEF T
  <2>2. PICK i \in T : \A j \in T : i <= j
    BY <2>1, Smallest
  <2> USE DEF T
  <2>3. i \in 1 .. n /\ ~ Read(s \o flat[i], i)
    BY <2>2
  <2>4. CASE i = 1
    <3>1. i - 1 = 0
      BY <2>4
    <3>2. Read(s, i - 1)
      BY <3>1, <1>3 DEF Read
    <3>3. Read(s \o frame(i), i)
      BY <3>2, <2>3, <1>2
    <3> QED BY <3>3, <2>3, <2>4, <1>4
  <2>5. CASE i # 1
    <3> DEFINE j == i - 1
               t == s \o flat[j]
    <3>1. j \in 1 .. n - 1 /\ j \in 1 .. n /\ i = j + 1 /\ ~ (i <= j)
      BY <2>3, <2>5, <1>1
    <3>2. Read(t, i - 1)
      BY <2>2, <3>1
    <3>3. flat[j] \in Seq(Byte) /\ frame(i) \in Seq(Byte) /\ flat[i] = flat[j] \o frame(i)
      BY <3>1, <2>3, <1>4, <1>5
    <3>4. t \in Seq(Byte)
      BY <3>3, ConcatProperties
    <3>5. t \o frame(i) = s \o flat[i]
      <4> DEFINE x == flat[j]
                 y == frame(i)
      <4>1. x \in Seq(Byte) /\ y \in Seq(Byte) /\ flat[i] = x \o y
        BY <3>3
      <4>2. t = s \o x
        OBVIOUS
      <4> HIDE DEF x, y, t, j
      <4>3. (s \o x) \o y = s \o (x \o y)
        <5>1. \A x1, x2, x3 \in Seq(Byte) : (x1 \o x2) \o x3 = x1 \o (x2 \o x3)
          BY ONLY ConcatAssociative
        <5> QED BY <4>1, <5>1
      <4>4. t \o y = s \o flat[i]
        BY <4>1, <4>2, <4>3
      <4> QED BY <4>4 DEF y
    <3> HIDE DEF t, j
    <3>6. Read(t \o frame(i), i)
      BY <3>2, <3>4, <2>3, <1>2
    <3> QED BY <3>5, <3>6, <2>3
  <2> QED BY <2>4, <2>5
<1>7. n \in 1 .. n
  BY <1>1
<1>8. Read(s \o ComposeFrames(m, op), n)
  BY <1>4, <1>6, <1>7
<1> QED BY <1>3, <1>8 DEF Read

\* What is written so far is read whole, with no close frame before the websocket closes.
WInv ==
  /\ Browse(down, Quiet(written))
  /\ Closes(FramesOf(down)) => closingHandshakeSent \/ state = "Unconnected"
  /\ closingHandshakeSent => state # "Connected"

LEMMA WInvReads == TInv /\ WInv => BrowserReadsMessages
<1> SUFFICES ASSUME TInv, WInv PROVE BrowserReadsMessages
  OBVIOUS
<1>1. down \in Seq(Byte) /\ Browse(down, Quiet(written))
  BY DEF TInv, WInv
<1> DEFINE F == FramesOf(down)
<1>2. Decoded(F) = Quiet(written) /\ DOMAIN F = 1 .. Len(F) /\ OneClose(F)
  BY <1>1, Browsed
<1> HIDE DEF F
<1>3. TextMessages(F) = written
  BY <1>2 DEF TextMessages, Quiet
<1>4. \A i, j \in DOMAIN F : F[i].op = OpClose /\ F[j].op = OpClose => i = j
  BY <1>2 DEF OneClose
<1> QED BY <1>3, <1>4 DEF BrowserReadsMessages, F

\* A close frame behind what is written.
LEMMA CloseWritten ==
  ASSUME NEW s \in Seq(Byte), NEW A, Browse(s, Quiet(A)), ~ Closes(FramesOf(s)),
         NEW status \in Seq(Byte), Len(status) <= Largest
  PROVE  Browse(s \o (ComposeHeader(TRUE, OpClose, Len(status), <<>>) \o status), Quiet(A))
<1> DEFINE b == ComposeHeader(TRUE, OpClose, Len(status), <<>>) \o status
           f == FrameOf(s, b)
           o == OpClose
           end == TRUE
<1>1. o \in 0 .. 15 /\ o # OpText /\ o # OpContinue
  BY DEF OpClose, OpText, OpContinue
<1>2. end \in BOOLEAN
  OBVIOUS
<1>3. b = ComposeHeader(end, o, Len(status), <<>>) \o status
  OBVIOUS
<1> HIDE DEF b, o, end
<1>4. WrittenFrame(s, b, end, o, status)
  BY <1>1, <1>2, <1>3, FrameWritten
<1>5. \E y \in BOOLEAN, x \in 0 .. 15, z \in Seq(Byte) : WrittenFrame(s, b, y, x, z)
  BY <1>1, <1>2, <1>4
<1>6. f.op = o
  BY <1>4 DEF WrittenFrame, FrameOf
<1>7. Browse(s \o b, Decode(Quiet(A), f))
  BY <1>5, BrowseFollows
<1> HIDE DEF f
<1>8. Decode(Quiet(A), f) = Quiet(A)
  BY <1>1, <1>6 DEF Decode
<1> QED BY <1>7, <1>8 DEF b

LEMMA CloseReads ==
  ASSUME TInv, WInv, NEW status \in Seq(Byte), Len(status) <= Largest, NEW handshakeReceived,
         state # "Unconnected", Close(status, handshakeReceived, down), written' = written
  PROVE  WInv'
<1>1. down \in Seq(Byte) /\ Browse(down, Quiet(written))
  BY DEF TInv, WInv
<1>2. closingHandshakeSent' = TRUE /\ state' # "Connected"
  BY DEF Close
<1>3. Browse(down', Quiet(written))
  <2>1. CASE closingHandshakeSent
    <3>1. down' = down \o <<>>
      BY <2>1 DEF Close
    <3>2. down' = down
      BY <3>1, <1>1, ConcatEmptySeq
    <3> QED BY <3>2, <1>1
  <2>2. CASE ~ closingHandshakeSent
    <3>1. ~ Closes(FramesOf(down))
      BY <2>2 DEF WInv
    <3>2. down' = down \o (ComposeHeader(TRUE, OpClose, Len(status), <<>>) \o status)
      BY <2>2 DEF Close
    <3> QED BY <1>1, <3>1, <3>2, CloseWritten
  <2> QED BY <2>1, <2>2
<1> QED BY <1>2, <1>3 DEF WInv

\* Steps that write nothing.
LEMMA ReadsStay ==
  ASSUME WInv, UNCHANGED <<closing, down, written>>
  PROVE  WInv'
BY DEF WInv, closing

LEMMA EndFrameReads ==
  ASSUME TInv, WInv, NEW frame, NEW status \in Seq(Byte), Len(status) <= Largest,
         EndFrame(frame, status), written' = written
  PROVE  WInv'
<1> DEFINE head == ComposeHeader(TRUE, OpPong, 0, <<>>)
           b == ComposeFrames(head, OpBinary)
<1>1. CASE opcode = OpClose /\ state # "Unconnected"
  <2>1. Close(status, TRUE, down) /\ state # "Unconnected"
    BY <1>1 DEF EndFrame
  <2> QED BY <2>1, CloseReads
<1>2. CASE ~ (opcode = OpClose /\ state # "Unconnected")
  <2>1. UNCHANGED closing /\ down' = IF opcode = OpPing THEN down \o b ELSE down
    BY <1>2 DEF EndFrame
  <2>2. head \in Seq(Byte)
    <3>1. 0 \in Nat /\ OpPong \in 0 .. 15 /\ TRUE \in BOOLEAN
      BY DEF OpPong
    <3> QED BY <3>1, HeaderBytes
  <2> HIDE DEF head
  <2>3. down \in Seq(Byte) /\ Browse(down, Quiet(written)) /\ OpBinary # OpText
    BY DEF TInv, WInv, OpBinary, OpText
  <2>4. /\ Browse(down \o b, Quiet(IF OpBinary = OpText THEN Append(written, head) ELSE written))
        /\ Closes(FramesOf(down \o b)) => Closes(FramesOf(down))
    BY <2>2, <2>3, ComposedBrowsed
  <2> HIDE DEF b
  <2>5. Browse(down', Quiet(written)) /\ (Closes(FramesOf(down')) => Closes(FramesOf(down)))
    BY <2>1, <2>3, <2>4
  <2> QED BY <2>1, <2>5 DEF WInv, closing
<1> QED BY <1>1, <1>2

LEMMA ReadBodyReads ==
  ASSUME RInv, TInv, WInv, NEW bytes \in Seq(Byte), Len(bytes) >= payloadLength, NEW key,
         ReadBody(bytes, key), written' = written
  PROVE  WInv'
<1> DEFINE status == IF opcode = OpClose /\ payloadLength >= 2 THEN First(bytes, 2) ELSE <<>>
           told == IF FromBigEndian(status) = 0 THEN <<>> ELSE status
<1>1. payloadLength \in Int /\ Len(bytes) \in Nat
  BY LengthKnown, LenProperties
<1>2. <<>> \in Seq(Byte) /\ Len(<<>>) = 0 /\ 0 <= Largest /\ 2 <= Largest
  BY EmptySeq DEF Largest
<1>3. status \in Seq(Byte) /\ Len(status) <= Largest
  <2>1. CASE opcode = OpClose /\ payloadLength >= 2
    <3>1. 2 \in 0 .. Len(bytes)
      BY <2>1, <1>1
    <3>2. First(bytes, 2) \in Seq(Byte) /\ Len(First(bytes, 2)) = 2
      BY <3>1, FirstBytes
    <3> QED BY <2>1, <3>2, <1>2
  <2> QED BY <2>1, <1>2
<1> HIDE DEF status
<1>4. told \in Seq(Byte) /\ Len(told) <= Largest
  BY <1>2, <1>3
<1>5. CASE isFinalFragment
  <2>1. \E frame : EndFrame(frame, told)
    BY <1>5 DEF ReadBody, status
  <2> HIDE DEF told
  <2> QED BY <2>1, <1>4, EndFrameReads
<1>6. CASE ~ isFinalFragment
  <2>1. UNCHANGED <<closing, down>>
    BY <1>6 DEF ReadBody
  <2> QED BY <2>1, ReadsStay
<1> QED BY <1>5, <1>6

LEMMA UnconnectedReads ==
  ASSUME WInv, TcpUnconnected, UNCHANGED <<down, written>>
  PROVE  WInv'
BY DEF WInv, TcpUnconnected

LEMMA TcpClosingReads ==
  ASSUME TInv, WInv, TcpClosing
  PROVE  WInv'
<1>1. CASE state = "Connected"
  <2> DEFINE away == CloseGoingAway
             head == ComposeHeader(TRUE, OpClose, Len(away), <<>>)
  <2>1. away \in Seq(Byte) /\ Len(away) = 2
    <3>1. 1001 \in Nat /\ 1001 <= Largest
      BY DEF Largest
    <3>2. \A n \in Nat : n <= Largest => BigEndian(n, 2) \in Seq(Byte) /\ Len(BigEndian(n, 2)) = 2
      BY LengthBytes DEF Largest
    <3> QED BY <3>1, <3>2 DEF CloseGoingAway
  <2>2. head \in Seq(Byte)
    <3>1. Len(away) \in Nat /\ OpClose \in 0 .. 15 /\ TRUE \in BOOLEAN
      BY <2>1 DEF OpClose
    <3> HIDE DEF away
    <3> QED BY <3>1, HeaderBytes
  <2>3. down' = (down \o head) \o away /\ closingHandshakeSent' = TRUE /\ state' = "Closing" /\ written' = written
    BY <1>1, <2>1 DEF TcpClosing
  <2>4. down \in Seq(Byte) /\ Browse(down, Quiet(written)) /\ ~ Closes(FramesOf(down))
    BY <1>1 DEF TInv, WInv
  <2>5. (down \o head) \o away = down \o (head \o away)
    <3> HIDE DEF head, away
    <3>1. \A x1, x2, x3 \in Seq(Byte) : (x1 \o x2) \o x3 = x1 \o (x2 \o x3)
      BY ONLY ConcatAssociative
    <3> QED BY <2>1, <2>2, <2>4, <3>1
  <2>6. Len(away) <= Largest
    BY <2>1 DEF Largest
  <2> HIDE DEF away
  <2>7. Browse(down \o (head \o away), Quiet(written))
    BY <2>1, <2>4, <2>6, CloseWritten
  <2>8. Browse(down', Quiet(written'))
    BY <2>3, <2>5, <2>7
  <2> QED BY <2>3, <2>8 DEF WInv
<1>2. CASE state # "Connected"
  <2>1. UNCHANGED <<closingHandshakeSent, state, down, written>>
    BY <1>2 DEF TcpClosing
  <2> QED BY <2>1 DEF WInv
<1> QED BY <1>1, <1>2

LEMMA WriteReads ==
  ASSUME TInv, WInv, NEW m \in Outputs, Write(m)
  PROVE  WInv'
<1>1. m \in Seq(Byte)
  BY QWsSocketAssumption DEF Byte
<1> DEFINE b == ComposeFrames(m, OpText)
<1>2. down \in Seq(Byte) /\ Browse(down, Quiet(written)) /\ OpText = OpText
  BY DEF TInv, WInv
<1>3. /\ Browse(down \o b, Quiet(Append(written, m)))
      /\ Closes(FramesOf(down \o b)) => Closes(FramesOf(down))
  <2>1. /\ Browse(down \o b, Quiet(IF OpText = OpText THEN Append(written, m) ELSE written))
        /\ Closes(FramesOf(down \o b)) => Closes(FramesOf(down))
    BY <1>1, <1>2, ComposedBrowsed
  <2> HIDE DEF b
  <2> QED BY <2>1
<1> HIDE DEF b
<1>4. down' = down \o b /\ written' = Append(written, m) /\ UNCHANGED closing
  BY DEF Write, b
<1>5. Browse(down', Quiet(written')) /\ (Closes(FramesOf(down')) => Closes(FramesOf(down)))
  BY <1>3, <1>4
<1> QED BY <1>4, <1>5 DEF WInv, closing

LEMMA WInvStep == RInv /\ TInv /\ WInv /\ [SocketNext]_socketVars => WInv'
<1> SUFFICES ASSUME RInv, TInv, WInv, [SocketNext]_socketVars PROVE WInv'
  OBVIOUS
<1>1. ASSUME NEW key \in Keys, NEW e \in Events, Send(e, key) PROVE WInv'
  BY <1>1, ReadsStay DEF Send
<1>2. ASSUME NEW key \in Keys, Ping(key) PROVE WInv'
  BY <1>2, ReadsStay DEF Ping
<1>3. ASSUME NEW key \in Keys, SendClose(<<>>, key) \/ SendClose(<<1, 1>>, key) PROVE WInv'
  BY <1>3, ReadsStay DEF SendClose
<1>4. CASE Leave
  BY <1>4, ReadsStay DEF Leave
<1>5. ASSUME NEW k \in DOMAIN wire, ReadyRead(k) PROVE WInv'
  BY <1>5, ReadsStay DEF ReadyRead
<1>6. CASE ReadHeader
  BY <1>6, ReadsStay DEF ReadHeader
<1>7. CASE ReadLength
  BY <1>7, ReadsStay DEF ReadLength
<1>8. CASE ReadMask
  <2>1. CASE Len(Rest(avail, 4)) < payloadLength
    BY <1>8, <2>1, ReadsStay DEF ReadMask
  <2>2. CASE ~ (Len(Rest(avail, 4)) < payloadLength)
    <3>1. ReadBody(Rest(avail, 4), First(avail, 4)) /\ Len(avail) >= 4 /\ written' = written
      BY <1>8, <2>2 DEF ReadMask
    <3>2. avail \in Seq(Byte) /\ Len(avail) \in Nat
      BY LenProperties DEF RInv, ParserTypes
    <3>3. 4 \in 0 .. Len(avail)
      BY <3>1, <3>2
    <3>4. Rest(avail, 4) \in Seq(Byte)
      BY <3>2, <3>3, RestBytes
    <3>5. Len(Rest(avail, 4)) >= payloadLength
      <4>1. payloadLength \in Int
        BY LengthKnown
      <4>2. Len(Rest(avail, 4)) \in Nat
        BY <3>4, LenProperties
      <4> QED BY <4>1, <4>2, <2>2
    <3> QED BY <3>1, <3>4, <3>5, ReadBodyReads
  <2> QED BY <2>1, <2>2
<1>9. CASE ReadPending
  <2>1. avail \in Seq(Byte)
    BY DEF RInv, ParserTypes
  <2> QED BY <1>9, <2>1, ReadBodyReads DEF ReadPending
<1>10. CASE StopReading
  BY <1>10, ReadsStay DEF StopReading
<1>11. CASE TcpClosing
  BY <1>11, TcpClosingReads
<1>12. CASE TcpClosed
  BY <1>12, UnconnectedReads DEF TcpClosed
<1>13. CASE TcpReset
  BY <1>13, UnconnectedReads DEF TcpReset
<1>14. ASSUME NEW m \in Outputs, Write(m) PROVE WInv'
  BY <1>14, WriteReads
<1>15. CASE UNCHANGED socketVars
  BY <1>15, ReadsStay DEF socketVars
<1> QED
  BY <1>1, <1>2, <1>3, <1>4, <1>5, <1>6, <1>7, <1>8, <1>9, <1>10, <1>11, <1>12, <1>13,
     <1>14, <1>15 DEF SocketNext, ProcessData

LEMMA WInvInit == SocketInit => WInv
<1> SUFFICES ASSUME SocketInit PROVE WInv
  OBVIOUS
<1>1. down = <<>> /\ written = <<>> /\ closingHandshakeSent = FALSE
  BY DEF SocketInit
<1>2. NoText = Quiet(<<>>)
  BY DEF NoText, Quiet
<1> QED BY <1>1, <1>2, NothingBrowsed DEF WInv

\* Whatever the length of a message and wherever composeFrames cuts it, a browser that reads
\* RFC 6455 frames has every message of the application once, whole and in their order,
\* pongs in between, and never reads a second close frame (QWsSocket.cpp: write,
\* composeFrames, composeHeader, close, processTcpStateChanged).
THEOREM BrowserReads == SocketSpec => []BrowserReadsMessages
BY RInvInit, RInvStep, TInvInit, TInvStep, WInvInit, WInvStep, WInvReads, PTL DEF SocketSpec

=============================================================================
