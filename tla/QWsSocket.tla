----------------------------- MODULE QWsSocket -----------------------------
(***************************************************************************)
(* The websocket protocol of the injected library (src/src/lib/websocket/  *)
(* QWsSocket.cpp), after the handshake, for protocol versions 4 and later: *)
(* the parser processDataV4 with its reading states, the composer of       *)
(* frames, and the closing handshake between the websocket's state and the *)
(* state of the TCP socket under it.                                       *)
(*                                                                         *)
(* TCP cuts the bytes of the browser's frames anywhere.  The browser sends *)
(* each message in one masked frame, as browsers do with messages of this  *)
(* size, and may ping.  What it reads is defined by RFC 6455.              *)
(***************************************************************************)
EXTENDS Integers, SequencesExt

CONSTANTS
  Events,     \* payloads of messages the browser sends; their bytes are 0 or 1
  Keys,       \* masking keys; their bytes are 0 or 1
  Outputs,    \* payloads of messages the application sends
  MaxFrame,   \* maxBytesPerFrame (1400)
  MaxSent,    \* bound: messages and pings the browser sends
  MaxCut,     \* bound: a segment ends this near to the end of what is on its way, or
              \* when there are this many bytes to read
  MaxWritten  \* bound: messages the application sends

ASSUME QWsSocketAssumption ==
  /\ \A e \in Events : e \in Seq({0, 1}) /\ Len(e) <= 65535
  /\ \A k \in Keys : k \in Seq({0, 1}) /\ Len(k) = 4
  /\ Outputs \subseteq Seq(0 .. 255)
  /\ MaxFrame \in 1 .. 65535
  /\ MaxSent \in Nat
  /\ MaxCut \in Nat
  /\ MaxWritten \in Nat

OpContinue == 0
OpText == 1
OpBinary == 2
OpClose == 8
OpPing == 9
OpPong == 10

VARIABLES
  wire,          \* bytes on their way from the browser
  avail,         \* bytes in tcpSocket
  running,       \* processDataV4 is in its loop
  readingState, isFinalFragment, opcode, hasMask, payloadLength, maskingKey,
  currentFrame,
  closingHandshakeSent, closingHandshakeReceived,
  state,         \* of the QWsSocket
  tcpState,      \* of tcpSocket
  down,          \* bytes written to the browser
  browser,       \* open, closing: it sent a close frame; left: it ended the TCP
                 \* connection after its last byte; reset: the connection broke
  pings,         \* history: pings the browser sent
  sent,          \* history: messages the browser sent
  received,      \* history: messages given to frameReceived
  written,       \* history: messages the application sent
  disconnects    \* history: emissions of disconnected()

parser == <<readingState, isFinalFragment, opcode, hasMask, payloadLength, maskingKey>>
closing == <<closingHandshakeSent, closingHandshakeReceived, state, tcpState>>
page == <<browser, pings, sent>>
socketVars == <<wire, avail, running, parser, currentFrame, closing, down, page,
          received, written, disconnects>>

Byte == 0 .. 255

SocketTypeOK ==
  /\ wire \in Seq(Byte)
  /\ avail \in Seq(Byte)
  /\ running \in BOOLEAN
  /\ readingState \in {"HeaderPending", "PayloadLengthPending", "BigPayloadLenghPending",
                       "MaskPending", "PayloadBodyPending", "CloseDataPending"}
  /\ isFinalFragment \in BOOLEAN
  /\ opcode \in 0 .. 15
  /\ hasMask \in BOOLEAN
  /\ \/ payloadLength \in {0, 1, 2}
     \/ \E e \in Events : payloadLength = Len(e)
  /\ maskingKey \in Keys \cup {<<0, 0, 0, 0>>}
  /\ currentFrame \in Seq(Byte)
  /\ closingHandshakeSent \in BOOLEAN
  /\ closingHandshakeReceived \in BOOLEAN
  /\ state \in {"Connected", "Closing", "Unconnected"}
  /\ tcpState \in {"Connected", "Closing", "Unconnected"}
  /\ down \in Seq(Byte)
  /\ browser \in {"open", "closing", "left", "reset"}
  /\ pings \in 0 .. MaxSent
  /\ sent \in Seq(Events)
  /\ received \in Seq(Seq(Byte))
  /\ written \in Seq(Outputs)
  /\ disconnects \in Nat

SocketInit ==
  /\ wire = <<>>
  /\ avail = <<>>
  /\ running = FALSE
  /\ readingState = "HeaderPending"
  /\ isFinalFragment = FALSE
  /\ opcode = OpContinue
  /\ hasMask = FALSE
  /\ payloadLength = 0
  /\ maskingKey = <<0, 0, 0, 0>>
  /\ currentFrame = <<>>
  /\ closingHandshakeSent = FALSE
  /\ closingHandshakeReceived = FALSE
  /\ state = "Connected"
  /\ tcpState = "Connected"
  /\ down = <<>>
  /\ browser = "open"
  /\ pings = 0
  /\ sent = <<>>
  /\ received = <<>>
  /\ written = <<>>
  /\ disconnects = 0

-----------------------------------------------------------------------------
(* Bytes.                                                                  *)

First(s, n) == SubSeq(s, 1, n)
Rest(s, n) == SubSeq(s, n + 1, Len(s))

\* n < 2^31 in k bytes, the most significant first.
BigEndian(n, k) ==
  [i \in 1 .. k |->
     IF k - i > 3 THEN 0 ELSE (n \div <<1, 256, 65536, 16777216>>[k - i + 1]) % 256]

FromBigEndian(bytes) ==
  LET number[i \in 0 .. Len(bytes)] == IF i = 0 THEN 0 ELSE number[i - 1] * 256 + bytes[i]
  IN number[Len(bytes)]

Bit(condition) == IF condition THEN 128 ELSE 0

\* Exclusive or, of bytes that are 0 or 1.
Mask(data, key) == [i \in DOMAIN data |-> (data[i] + key[((i - 1) % 4) + 1]) % 2]

\* Mutant: a length of 126 is put in the header's own seven bits.
ComposeHeaderMutant(end, op, length, key) ==
  <<Bit(end) + op,
    Bit(key # <<>>) + (IF length <= 126 THEN length
                       ELSE IF length <= 65535 THEN 126 ELSE 127)>>
  \o (IF length <= 126 THEN <<>>
      ELSE IF length <= 65535 THEN BigEndian(length, 2) ELSE BigEndian(length, 8))
  \o key

ComposeHeader(end, op, length, key) ==
  <<Bit(end) + op,
    Bit(key # <<>>) + (IF length <= 125 THEN length
                       ELSE IF length <= 65535 THEN 126 ELSE 127)>>
  \o (IF length <= 125 THEN <<>>
      ELSE IF length <= 65535 THEN BigEndian(length, 2) ELSE BigEndian(length, 8))
  \o key

\* composeFrames: full frames of MaxFrame bytes, and a last one with what is left,
\* which is empty when the length is a multiple of MaxFrame.
ComposeFrames(bytes, op) ==
  LET n == Len(bytes) \div MaxFrame + 1
      Chunk(i) == SubSeq(bytes, (i - 1) * MaxFrame + 1,
                         IF i = n THEN Len(bytes) ELSE i * MaxFrame)
      Frame(i) == ComposeHeader(i = n, IF i = 1 THEN op ELSE OpContinue,
                                Len(Chunk(i)), <<>>) \o Chunk(i)
  IN FlattenSeq([i \in 1 .. n |-> Frame(i)])

-----------------------------------------------------------------------------
(* The browser.                                                            *)

\* A masked frame as RFC 6455 defines it.
ClientFrame(op, payload, key) ==
  <<128 + op>>
  \o (IF Len(payload) < 126 THEN <<128 + Len(payload)>>
      ELSE <<254>> \o BigEndian(Len(payload), 2))
  \o key \o Mask(payload, key)

\* The bytes of s from i to j; those that have not come count as 0.
Slice(s, i, j) == [n \in 1 .. j - i + 1 |-> IF i + n - 1 <= Len(s) THEN s[i + n - 1] ELSE 0]

\* The frame that starts at byte i of s.
FrameAt(s, i) ==
  LET head == Slice(s, i, i + 1)
      extended == IF head[2] = 126 THEN 2 ELSE IF head[2] = 127 THEN 8 ELSE 0
      length == IF extended = 0 THEN head[2]
                ELSE FromBigEndian(Slice(s, i + 2, i + 1 + extended))
      body == i + 2 + extended
  IN [fin |-> head[1] >= 128, op |-> head[1] % 16,
      payload |-> Slice(s, body, body + length - 1), next |-> body + length]

\* The complete frames of s.
FramesOf(s) ==
  LET from[i \in 1 .. Len(s) + 1] ==
        IF FrameAt(s, i).next > Len(s) + 1 THEN <<>>
        ELSE <<FrameAt(s, i)>> \o from[FrameAt(s, i).next]
  IN from[1]

NoText == [open |-> FALSE, data |-> <<>>, all |-> <<>>]

\* What is read before the frame f, and with it: a text frame begins a message,
\* continuation frames go on with it up to the final one; others are left aside.
Decode(acc, f) ==
  IF f.op = OpText \/ (f.op = OpContinue /\ acc.open)
  THEN LET data == IF f.op = OpText THEN f.payload ELSE acc.data \o f.payload IN
       IF f.fin THEN [open |-> FALSE, data |-> <<>>, all |-> Append(acc.all, data)]
       ELSE [open |-> TRUE, data |-> data, all |-> acc.all]
  ELSE acc

Decoded(frames) ==
  LET after[k \in 0 .. Len(frames)] ==
        IF k = 0 THEN NoText ELSE Decode(after[k - 1], frames[k])
  IN after[Len(frames)]

TextMessages(frames) == Decoded(frames).all

\* onSend of an event: the JSON text of the event.
Send(e, key) ==
  /\ browser = "open"
  /\ Len(sent) + pings < MaxSent
  /\ sent' = Append(sent, e)
  /\ wire' = wire \o ClientFrame(OpText, e, key)
  /\ UNCHANGED <<avail, running, parser, currentFrame, closing, down, browser, pings,
                 received, written, disconnects>>

Ping(key) ==
  /\ browser = "open"
  /\ Len(sent) + pings < MaxSent
  /\ pings' = pings + 1
  /\ wire' = wire \o ClientFrame(OpPing, <<1>>, key)
  /\ UNCHANGED <<avail, running, parser, currentFrame, closing, down, browser, sent,
                 received, written, disconnects>>

\* The page is left: a close frame without or with a status code.
SendClose(payload, key) ==
  /\ browser = "open"
  /\ browser' = "closing"
  /\ wire' = wire \o ClientFrame(OpClose, payload, key)
  /\ UNCHANGED <<avail, running, parser, currentFrame, closing, down, pings, sent,
                 received, written, disconnects>>

\* The browser ends the TCP connection, after the handshake or because it waited for
\* it long enough, or its process ends.
Leave ==
  /\ browser \in {"open", "closing"}
  /\ browser' = "left"
  /\ UNCHANGED <<wire, avail, running, parser, currentFrame, closing, down, pings, sent,
                 received, written, disconnects>>

-----------------------------------------------------------------------------
(* The closing handshake.                                                  *)

\* Mutant: the websocket stays in ClosingState when the handshake is complete.
CloseMutant(status, handshakeReceived, prefix) ==
  /\ closingHandshakeReceived' = handshakeReceived
  /\ closingHandshakeSent' = TRUE
  /\ down' = prefix
       \o (IF closingHandshakeSent THEN <<>>
           ELSE ComposeHeader(TRUE, OpClose, Len(status), <<>>) \o status)
  /\ IF handshakeReceived
     THEN state' = "Closing" /\ tcpState' = "Closing" /\ disconnects' = disconnects + 1
     ELSE state' = "Closing" /\ UNCHANGED <<tcpState, disconnects>>

\* close(status) of a websocket that is not in UnconnectedState; prefix is what was
\* written before.
Close(status, handshakeReceived, prefix) ==
  /\ closingHandshakeReceived' = handshakeReceived
  /\ closingHandshakeSent' = TRUE
  /\ down' = prefix
       \o (IF closingHandshakeSent THEN <<>>
           ELSE ComposeHeader(TRUE, OpClose, Len(status), <<>>) \o status)
  /\ IF handshakeReceived
     THEN state' = "Unconnected" /\ tcpState' = "Closing" /\ disconnects' = disconnects + 1
     ELSE state' = "Closing" /\ UNCHANGED <<tcpState, disconnects>>

CloseGoingAway == BigEndian(1001, 2)

\* processTcpStateChanged(ClosingState): the browser's end of the TCP connection comes
\* after its last byte.
TcpClosing ==
  /\ ~ running
  /\ browser = "left"
  /\ wire = <<>>
  /\ tcpState = "Connected"
  /\ IF state = "Connected"
     THEN /\ closingHandshakeReceived' = closingHandshakeReceived
          /\ closingHandshakeSent' = TRUE
          /\ down' = down \o ComposeHeader(TRUE, OpClose, 2, <<>>) \o CloseGoingAway
          /\ state' = "Closing"
     ELSE UNCHANGED <<closingHandshakeReceived, closingHandshakeSent, down, state>>
  /\ tcpState' = "Closing"
  /\ UNCHANGED <<wire, avail, running, parser, currentFrame, page, received, written,
                 disconnects>>

\* Mutant: only a websocket that was connected tells that it is disconnected.
TcpUnconnectedMutant ==
  /\ tcpState' = "Unconnected"
  /\ state' = "Unconnected"
  /\ disconnects' = IF state = "Connected" THEN disconnects + 1 ELSE disconnects
  /\ closingHandshakeSent' = FALSE
  /\ closingHandshakeReceived' = FALSE

\* processTcpStateChanged(UnconnectedState).
TcpUnconnected ==
  /\ tcpState' = "Unconnected"
  /\ state' = "Unconnected"
  /\ disconnects' = IF state = "Unconnected" THEN disconnects ELSE disconnects + 1
  /\ closingHandshakeSent' = FALSE
  /\ closingHandshakeReceived' = FALSE

TcpClosed ==
  /\ ~ running
  /\ tcpState = "Closing"
  /\ TcpUnconnected
  /\ UNCHANGED <<wire, avail, running, parser, currentFrame, down, page, received,
                 written>>

\* The connection breaks: what is on its way is lost.
TcpReset ==
  /\ ~ running
  /\ tcpState = "Connected"
  /\ browser' = "reset"
  /\ wire' = <<>>
  /\ TcpUnconnected
  /\ UNCHANGED <<avail, running, parser, currentFrame, down, pings, sent, received,
                 written>>

-----------------------------------------------------------------------------
(* processDataV4.                                                          *)

\* readyRead with any number of bytes, of a socket that onDisconnection has not deleted.
ReadyRead(k) ==
  /\ ~ running
  /\ state # "Unconnected"
  /\ Len(avail) + k <= MaxCut \/ Len(wire) - k <= MaxCut
  /\ avail' = avail \o First(wire, k)
  /\ wire' = Rest(wire, k)
  /\ running' = TRUE
  /\ UNCHANGED <<parser, currentFrame, closing, down, page, received, written,
                 disconnects>>

\* Mutant: the mask bit stays in the length.
ReadHeaderMutant ==
  /\ running
  /\ readingState = "HeaderPending"
  /\ Len(avail) >= 2
  /\ isFinalFragment' = (avail[1] >= 128)
  /\ opcode' = avail[1] % 16
  /\ hasMask' = (avail[2] >= 128)
  /\ payloadLength' = avail[2]
  /\ readingState' = "MaskPending"
  /\ avail' = Rest(avail, 2)
  /\ UNCHANGED <<wire, running, maskingKey, currentFrame, closing, down, page,
                 received, written, disconnects>>

ReadHeader ==
  /\ running
  /\ readingState = "HeaderPending"
  /\ Len(avail) >= 2
  /\ isFinalFragment' = (avail[1] >= 128)
  /\ opcode' = avail[1] % 16
  /\ hasMask' = (avail[2] >= 128)
  /\ LET length == avail[2] % 128 IN
     /\ readingState' = (CASE length = 126 -> "PayloadLengthPending"
                           [] length = 127 -> "BigPayloadLenghPending"
                           [] OTHER -> "MaskPending")
     /\ payloadLength' = IF length < 126 THEN length ELSE payloadLength
  /\ avail' = Rest(avail, 2)
  /\ UNCHANGED <<wire, running, maskingKey, currentFrame, closing, down, page,
                 received, written, disconnects>>

ReadLength ==
  /\ running
  /\ \E n \in {2, 8} :
       /\ readingState = IF n = 2 THEN "PayloadLengthPending" ELSE "BigPayloadLenghPending"
       /\ Len(avail) >= n
       /\ payloadLength' = FromBigEndian(First(avail, n))
       /\ avail' = Rest(avail, n)
  /\ readingState' = "MaskPending"
  /\ UNCHANGED <<wire, running, isFinalFragment, opcode, hasMask, maskingKey,
                 currentFrame, closing, down, page, received, written, disconnects>>

\* Mutant: the frame is not cleared after a control frame.
EndFrameMutant(frame, status) ==
  /\ received' = IF opcode \in {OpText, OpBinary} THEN Append(received, frame) ELSE received
  /\ currentFrame' = IF opcode = OpPing THEN frame ELSE <<>>
  /\ IF opcode = OpClose /\ state # "Unconnected"
     THEN Close(status, TRUE, down)
     ELSE /\ down' = IF opcode = OpPing
                     THEN down \o ComposeFrames(ComposeHeader(TRUE, OpPong, 0, <<>>), OpBinary)
                     ELSE down
          /\ UNCHANGED <<closing, disconnects>>

\* The final fragment of a frame is complete.  A ping is answered through write(), which
\* makes a binary message of the header of the pong.
EndFrame(frame, status) ==
  /\ received' = IF opcode \in {OpText, OpBinary} THEN Append(received, frame) ELSE received
  /\ currentFrame' = <<>>
  /\ IF opcode = OpClose /\ state # "Unconnected"
     THEN Close(status, TRUE, down)
     ELSE /\ down' = IF opcode = OpPing
                     THEN down \o ComposeFrames(ComposeHeader(TRUE, OpPong, 0, <<>>), OpBinary)
                     ELSE down
          /\ UNCHANGED <<closing, disconnects>>

\* The body, when it has arrived: of a close frame two bytes are read as the status,
\* masked as they are, and then as many bytes as the body has, if there are any.
ReadBody(bytes, key) ==
  LET status == IF opcode = OpClose /\ payloadLength >= 2 THEN First(bytes, 2) ELSE <<>>
      rest == Rest(bytes, Len(status))
      read == IF payloadLength < Len(rest) THEN payloadLength ELSE Len(rest)
      data == First(rest, read)
      frame == currentFrame \o (IF hasMask THEN Mask(data, key) ELSE data)
  IN /\ avail' = Rest(rest, read)
     /\ readingState' = "HeaderPending"
     /\ IF isFinalFragment
        THEN EndFrame(frame, IF FromBigEndian(status) = 0 THEN <<>> ELSE status)
        ELSE /\ currentFrame' = frame
             /\ UNCHANGED <<received, closing, down, disconnects>>

\* Frames of a browser are masked (without the bit, the body is read next).  A masked
\* frame falls through to the body; without all of the body, the loop ends in
\* the state that was chosen before.
ReadMask ==
  /\ running
  /\ readingState = "MaskPending"
  /\ hasMask
  /\ Len(avail) >= 4
  /\ LET key == First(avail, 4)
         bytes == Rest(avail, 4)
     IN /\ maskingKey' = key
        /\ IF Len(bytes) < payloadLength
           THEN /\ readingState' = IF opcode = OpClose THEN "CloseDataPending"
                                   ELSE "PayloadBodyPending"
                /\ avail' = bytes
                /\ running' = FALSE
                /\ UNCHANGED <<currentFrame, closing, down, received, disconnects>>
           ELSE ReadBody(bytes, key) /\ UNCHANGED running
  /\ UNCHANGED <<wire, isFinalFragment, opcode, hasMask, payloadLength, page, written>>

ReadPending ==
  /\ running
  /\ readingState = "PayloadBodyPending"
  /\ Len(avail) >= payloadLength
  /\ ReadBody(avail, maskingKey)
  /\ UNCHANGED <<wire, running, isFinalFragment, opcode, hasMask, payloadLength,
                 maskingKey, page, written>>

\* Mutant: the last byte of a body is waited for once more.
StopReadingMutant ==
  /\ running
  /\ \/ readingState = "HeaderPending" /\ Len(avail) < 2
     \/ readingState = "PayloadLengthPending" /\ Len(avail) < 2
     \/ readingState = "BigPayloadLenghPending" /\ Len(avail) < 8
     \/ readingState = "MaskPending" /\ hasMask /\ Len(avail) < 4
     \/ readingState = "PayloadBodyPending" /\ Len(avail) <= payloadLength
     \/ readingState = "CloseDataPending"
  /\ running' = FALSE
  /\ UNCHANGED <<wire, avail, parser, currentFrame, closing, down, page, received,
                 written, disconnects>>

\* The loop ends: too few bytes, or CloseDataPending, for which there is no case.
StopReading ==
  /\ running
  /\ \/ readingState = "HeaderPending" /\ Len(avail) < 2
     \/ readingState = "PayloadLengthPending" /\ Len(avail) < 2
     \/ readingState = "BigPayloadLenghPending" /\ Len(avail) < 8
     \/ readingState = "MaskPending" /\ hasMask /\ Len(avail) < 4
     \/ readingState = "PayloadBodyPending" /\ Len(avail) < payloadLength
     \/ readingState = "CloseDataPending"
  /\ running' = FALSE
  /\ UNCHANGED <<wire, avail, parser, currentFrame, closing, down, page, received,
                 written, disconnects>>

ProcessData == ReadHeader \/ ReadLength \/ ReadMask \/ ReadPending \/ StopReading

\* WebsocketServer's flush() writes a message of the application, to a client that
\* onDisconnection has not taken away.
Write(m) ==
  /\ ~ running
  /\ disconnects = 0
  /\ Len(written) < MaxWritten
  /\ written' = Append(written, m)
  /\ down' = down \o ComposeFrames(m, OpText)
  /\ UNCHANGED <<wire, avail, running, parser, currentFrame, closing, page, received,
                 disconnects>>

-----------------------------------------------------------------------------

SocketNext ==
  \/ \E key \in Keys :
       \/ \E e \in Events : Send(e, key)
       \/ Ping(key)
       \/ SendClose(<<>>, key) \/ SendClose(<<1, 1>>, key)
  \/ Leave
  \/ \E k \in DOMAIN wire : ReadyRead(k)
  \/ ProcessData
  \/ TcpClosing \/ TcpClosed \/ TcpReset
  \/ \E m \in Outputs : Write(m)

SocketSpec == SocketInit /\ [][SocketNext]_socketVars

\* TCP delivers what was sent and tells when it ends; the event loop takes it.
SocketFairness ==
  /\ WF_socketVars(\E k \in DOMAIN wire : ReadyRead(k))
  /\ WF_socketVars(ProcessData)
  /\ WF_socketVars(TcpClosing)
  /\ WF_socketVars(TcpClosed)

SocketFairSpec == SocketSpec /\ SocketFairness

-----------------------------------------------------------------------------
(* Correctness.                                                            *)

\* Whatever TCP makes of the bytes, frameReceived is emitted for the browser's messages
\* in their order, unmasked and whole.
ReceivedInOrder == IsPrefix(received, sent)

\* The browser reads the application's messages out of the frames, whatever their length,
\* answers to pings in between, and one close frame at most.
BrowserReadsMessages ==
  LET frames == FramesOf(down) IN
  /\ TextMessages(frames) = written
  /\ \A i, j \in DOMAIN frames : frames[i].op = OpClose /\ frames[j].op = OpClose => i = j

\* disconnected() is emitted when the websocket ends and never again, be it by the closing
\* handshake or by the end of the TCP connection, whichever comes first.
DisconnectedOnce == disconnects = IF state = "Unconnected" THEN 1 ELSE 0

\* A message of the browser is received, unless the connection breaks.
EventuallyReceived ==
  \A n \in 1 .. MaxSent : Len(sent) >= n ~> Len(received) >= n \/ browser = "reset"

\* A browser that has left is noticed, although the parser may be stuck in its close
\* frame.
EventuallyDisconnected == browser = "left" ~> disconnects > 0

=============================================================================
