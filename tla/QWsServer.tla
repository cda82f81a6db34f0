----------------------------- MODULE QWsServer -----------------------------
(***************************************************************************)
(* The opening handshake (src/src/lib/websocket/QWsServer.cpp): a browser  *)
(* sends a request, TCP delivers it cut anywhere, dataReceived collects    *)
(* its lines in headerBuffer and, at the empty line, answers.              *)
(*                                                                         *)
(* A line is one item, and so are the eight bytes that follow a request of *)
(* version 0 (key3, no line) and the two ends of a frame of that version;  *)
(* a cut inside an item is its arrival with the next segment.  A browser   *)
(* opens one connection; what it sends after a refusal is not modelled.    *)
(***************************************************************************)
EXTENDS Integers, Sequences

CONSTANTS
  Browsers,
  Speaks    \* what the connection of a browser may send: a set of DOMAIN Sent for each

\* v13 and v4: the versions that carry Sec-WebSocket-Version; v0: the two keys, then, once
\* answered, a message; plain: a page request that got to this port.
Sent ==
  [v13   |-> <<"GET", "Host", "Key", "Version", "empty">>,
   v4    |-> <<"GET", "Host", "Key", "Version", "empty">>,
   v0    |-> <<"GET", "Host", "Key1", "Key2", "empty", "key3", "text", "0xFF">>,
   plain |-> <<"GET", "Host", "empty">>]

ASSUME QWsServerAssumption == Speaks \in [Browsers -> SUBSET DOMAIN Sent]

VARIABLES
  conn,     \* none; backlog: the kernel has accepted; tcp: a QTcpSocket; websocket: a
            \* QWsSocket; closed: by the browser; dropped: by the server
  kind,     \* what the browser sends
  arrived,  \* how many items have reached the server's host
  seen,     \* how many of them had when readyRead was last served
  taken,    \* how many of them have been read from the QTcpSocket
  header,   \* headerBuffer
  answer    \* the response written

wsServer == <<conn, kind, arrived, seen, taken, header, answer>>

\* EWebsocketVersion
WS_VUnknow == -1
WS_V0 == 0
WS_V4 == 4
WS_V6 == 6
WS_V13 == 13

Offered == [v13 |-> WS_V13, v4 |-> WS_V4]

(***************************************************************************)
(* Responses: the status, the fields, whether the empty line that ends a   *)
(* response is there, and what proves that the request was understood.     *)
(***************************************************************************)
ResponseV0 == [status |-> 101, fields |-> {"Upgrade", "Connection", "Origin", "Location"},
               complete |-> TRUE, accept |-> "md5"]
ResponseV4 == [status |-> 101, fields |-> {"Upgrade", "Connection", "Accept", "Nonce"},
               complete |-> TRUE, accept |-> "sha1"]
ResponseV6 == [status |-> 101, fields |-> {"Upgrade", "Connection", "Accept"},
               complete |-> TRUE, accept |-> "sha1"]
BadRequestResponse == [status |-> 400, fields |-> {"Version"}, complete |-> FALSE, accept |-> "none"]
NoAnswer == [status |-> 0, fields |-> {}, complete |-> FALSE, accept |-> "none"]

Response(v) == IF v >= WS_V6 THEN ResponseV6 ELSE IF v >= WS_V4 THEN ResponseV4 ELSE ResponseV0

\* What a browser of a kind takes for the acceptance of its request.
Accepts(k, r) ==
  /\ r.status = 101
  /\ r.complete
  /\ {"Upgrade", "Connection"} \subseteq r.fields
  /\ CASE k = "v13" -> "Accept" \in r.fields /\ "Nonce" \notin r.fields /\ r.accept = "sha1"
       [] k = "v4" -> {"Accept", "Nonce"} \subseteq r.fields /\ r.accept = "sha1"
       [] k = "v0" -> {"Origin", "Location"} \subseteq r.fields /\ r.accept = "md5"
       [] OTHER -> FALSE

-----------------------------------------------------------------------------
\* The items of request k up to its empty line are lines; the request is what precedes its
\* answer.
EmptyLine == [k \in DOMAIN Sent |-> CHOOSE i \in DOMAIN Sent[k] : Sent[k][i] = "empty"]
RequestLength == [EmptyLine EXCEPT !["v0"] = @ + 1]

TypeOKServer ==
  /\ conn \in [Browsers -> {"none", "backlog", "tcp", "websocket", "closed", "dropped"}]
  /\ kind \in [Browsers -> DOMAIN Sent]
  /\ arrived \in [Browsers -> Nat]
  /\ seen \in [Browsers -> Nat]
  /\ taken \in [Browsers -> Nat]
  /\ header \in [Browsers -> SUBSET {"GET", "Host", "Key", "Key1", "Key2", "Version"}]
  /\ answer \in [Browsers -> {NoAnswer, BadRequestResponse, ResponseV0, ResponseV4, ResponseV6}]
  /\ \A b \in Browsers : taken[b] <= seen[b] /\ seen[b] <= arrived[b]

InitServer ==
  /\ conn = [b \in Browsers |-> "none"]
  /\ kind \in [Browsers -> DOMAIN Sent] /\ \A b \in Browsers : kind[b] \in Speaks[b]
  /\ arrived = [b \in Browsers |-> 0]
  /\ seen = [b \in Browsers |-> 0]
  /\ taken = [b \in Browsers |-> 0]
  /\ header = [b \in Browsers |-> {}]
  /\ answer = [b \in Browsers |-> NoAnswer]

\* The kernel accepts for a socket that listens, whatever its thread does.
Connect(b) ==
  /\ conn[b] = "none"
  /\ conn' = [conn EXCEPT ![b] = "backlog"]
  /\ UNCHANGED <<kind, arrived, seen, taken, header, answer>>

\* A segment arrives.  What follows the request is sent only once it has been accepted.
Segment(b) ==
  /\ conn[b] \in {"backlog", "tcp", "websocket"}
  /\ \E n \in arrived[b] + 1 .. Len(Sent[kind[b]]) :
       /\ n > RequestLength[kind[b]] => Accepts(kind[b], answer[b])
       /\ arrived' = [arrived EXCEPT ![b] = n]
  /\ UNCHANGED <<conn, kind, seen, taken, header, answer>>

NewTcpConnection(b) ==
  /\ conn[b] = "backlog"
  /\ conn' = [conn EXCEPT ![b] = "tcp"]
  /\ header' = [header EXCEPT ![b] = {}]
  /\ UNCHANGED <<kind, arrived, seen, taken, answer>>

-----------------------------------------------------------------------------
(* dataReceived, served for readyRead.                                     *)

Unread(b) == seen[b] < arrived[b]

\* The loop over canReadLine: up to the empty line, which goes into no buffer.
LinesRead(b) == {i \in taken[b] + 1 .. arrived[b] : i <= EmptyLine[kind[b]]}
AllHeadersFetched(b) == EmptyLine[kind[b]] \in LinesRead(b)

\* Mutant: headerBuffer holds the lines of the last segment only.
HeaderReadLast(b) == {Sent[kind[b]][i] : i \in LinesRead(b)} \ {"empty"}

HeaderRead(b) == header[b] \cup ({Sent[kind[b]][i] : i \in LinesRead(b)} \ {"empty"})

\* Without a version field, eight more bytes make it version 0.
Key3Available(b) == arrived[b] > EmptyLine[kind[b]]
Version(b) ==
  IF "Version" \in HeaderRead(b) THEN Offered[kind[b]]
  ELSE IF Key3Available(b) THEN WS_V0
  ELSE WS_VUnknow

MandatoryFields(b) ==
  /\ Version(b) # WS_VUnknow
  /\ {"GET", "Host"} \subseteq HeaderRead(b)
  /\ IF Version(b) >= WS_V4 THEN "Key" \in HeaderRead(b) ELSE {"Key1", "Key2"} \subseteq HeaderRead(b)

\* What this call takes from the socket: lines and, for version 0, key3.
Take(b) ==
  /\ seen' = [seen EXCEPT ![b] = arrived[b]]
  /\ header' = [header EXCEPT ![b] = HeaderRead(b)]
  /\ taken' = [taken EXCEPT ![b] =
                 IF LinesRead(b) = {} THEN taken[b]
                 ELSE IF ~AllHeadersFetched(b) THEN arrived[b]
                 ELSE IF Version(b) = WS_V0 THEN EmptyLine[kind[b]] + 1
                 ELSE EmptyLine[kind[b]]]

NotFetched(b) ==
  /\ conn[b] = "tcp"
  /\ Unread(b)
  /\ ~AllHeadersFetched(b)
  /\ Take(b)
  /\ UNCHANGED <<conn, kind, arrived, answer>>

\* The connection stays open and readyRead connected; headerBuffer keeps the lines.
BadRequest(b) ==
  /\ conn[b] = "tcp"
  /\ Unread(b)
  /\ AllHeadersFetched(b)
  /\ ~MandatoryFields(b)
  /\ Take(b)
  /\ answer' = [answer EXCEPT ![b] = BadRequestResponse]
  /\ UNCHANGED <<conn, kind, arrived>>

\* readyRead is disconnected and a QWsSocket takes the QTcpSocket over; its caller serves
\* newConnection(), emitted at the end.
Handshake(b) ==
  /\ conn[b] = "tcp"
  /\ Unread(b)
  /\ AllHeadersFetched(b)
  /\ MandatoryFields(b)
  /\ Take(b)
  /\ answer' = [answer EXCEPT ![b] = Response(Version(b))]
  /\ conn' = [conn EXCEPT ![b] = "websocket"]
  /\ UNCHANGED <<kind, arrived>>
=============================================================================
