------------------------- MODULE JSONBuilderProofs -------------------------
(***************************************************************************)
(* Proofs about the output buffers: the two semaphores, that no fragment   *)
(* is lost, that messages hold whole draw commands, and that the buffers   *)
(* implement DisplayStream; and about the painter's state that the draw    *)
(* commands carry.                                                         *)
(***************************************************************************)
EXTENDS Painter, SequenceTheorems, TLAPS

-----------------------------------------------------------------------------
(* Sequences of fragments.                                                 *)

\* An empty buffer has no command.
LEMMA CommandsEmpty == Commands(<<>>) = {}
<1>1. DOMAIN <<>> = {}
  OBVIOUS
<1> QED
  BY <1>1 DEF Commands

\* A fragment adds its command, if it ends one.
LEMMA CommandsAppend ==
  ASSUME NEW s \in Seq(Fragment), NEW f \in Fragment
  PROVE  Commands(Append(s, f)) = Commands(s) \cup ({f.command} \ {0})
<1>1. /\ DOMAIN s = 1 .. Len(s) /\ Len(s) \in Nat
      /\ DOMAIN Append(s, f) = 1 .. Len(s) + 1
      /\ \A i \in 1 .. Len(s) : Append(s, f)[i] = s[i]
      /\ Append(s, f)[Len(s) + 1] = f
  BY AppendProperties, LenProperties
<1> QED
  BY <1>1 DEF Commands

\* The commands of what was sent before and of what is sent now.
LEMMA CommandsConcat ==
  ASSUME NEW s \in Seq(Fragment), NEW t \in Seq(Fragment)
  PROVE  Commands(s \o t) = Commands(s) \cup Commands(t)
<1> DEFINE u == s \o t
<1>1. /\ DOMAIN s = 1 .. Len(s) /\ Len(s) \in Nat
      /\ DOMAIN t = 1 .. Len(t) /\ Len(t) \in Nat
      /\ DOMAIN u = 1 .. Len(s) + Len(t)
      /\ \A i \in 1 .. Len(s) + Len(t) :
           u[i] = IF i <= Len(s) THEN s[i] ELSE t[i - Len(s)]
  BY ConcatProperties, LenProperties
<1> HIDE DEF u
<1>2. \A i \in DOMAIN s : i \in DOMAIN u /\ u[i] = s[i]
  BY <1>1
<1>3. \A i \in DOMAIN t : i + Len(s) \in DOMAIN u /\ u[i + Len(s)] = t[i]
  BY <1>1
<1>4. \A i \in DOMAIN u :
        (i \in DOMAIN s /\ u[i] = s[i])
          \/ (i - Len(s) \in DOMAIN t /\ u[i] = t[i - Len(s)])
  BY <1>1
<1>5. Commands(s) \cup Commands(t) \subseteq Commands(u)
  BY <1>2, <1>3 DEF Commands
<1>6. Commands(u) \subseteq Commands(s) \cup Commands(t)
  BY <1>4 DEF Commands
<1> QED
  BY <1>5, <1>6 DEF u

\* The parts of a draw command before its end carry no number.
LEMMA PartIsFragment ==
  /\ Part("head") \in Fragment /\ Part("head").command = 0
  /\ Part("primitive") \in Fragment /\ Part("primitive").command = 0
BY DEF Part, Fragment

\* s is empty or ends with a complete draw command.
Whole(s) == s # <<>> => s[Len(s)].part = "end"

\* A buffer whose last fragment is an end is whole.
LEMMA WholeAppend ==
  ASSUME NEW s \in Seq(Fragment), NEW f \in Fragment, f.part = "end"
  PROVE  Whole(Append(s, f))
BY AppendProperties DEF Whole

\* Whole draw commands after whole draw commands are whole.
LEMMA WholeConcat ==
  ASSUME NEW s \in Seq(Fragment), NEW t \in Seq(Fragment), Whole(s), Whole(t)
  PROVE  Whole(s \o t)
<1>1. CASE t = <<>>
  BY <1>1, ConcatEmptySeq
<1>2. CASE t # <<>>
  <2>1. Len(s) \in Nat /\ Len(t) \in Nat \ {0}
    BY <1>2, EmptySeq, LenProperties
  <2>2. Len(s \o t) = Len(s) + Len(t) /\ (s \o t)[Len(s) + Len(t)] = t[Len(t)]
    BY <2>1, ConcatProperties
  <2> QED
    BY <1>2, <2>2 DEF Whole
<1> QED
  BY <1>1, <1>2

-----------------------------------------------------------------------------
(* The inductive invariant.                                                *)

\* While no draw command is open, whoever takes _render_sem finds whole commands.
WholeBuffer == drawing = NotDrawing => Whole(renderBuffer)

JInv ==
  /\ TypeOK
  /\ ExclusiveBuffers
  /\ NothingLost
  /\ WholeDraws
  /\ WholeBuffer

\* Both buffers are empty and both permits free.
LEMMA JInvInit == Init => JInv
<1> SUFFICES ASSUME Init PROVE JInv
  OBVIOUS
<1>1. <<>> \in Seq(Fragment)
  BY EmptySeq
<1>2. TypeOK
  <2>1. /\ renderBuffer \in Seq(Fragment) /\ layoutBuffer \in Seq(Fragment)
        /\ sentRender \in Seq(Fragment) /\ sentLayout \in Seq(Fragment)
        /\ drawLog \in Seq(Fragment) /\ layoutLog \in Seq(Fragment)
    BY <1>1 DEF Init
  <2>2. drawing \in 0 .. NotDrawing
    BY JSONBuilderAssumption DEF Init, NotDrawing
  <2> QED
    BY <2>1, <2>2 DEF Init, TypeOK
<1>3. ExclusiveBuffers
  BY DEF Init, ExclusiveBuffers
<1>4. NothingLost
  BY <1>1, ConcatEmptySeq DEF Init, NothingLost
<1>5. WholeDraws /\ WholeBuffer
  BY DEF Init, WholeDraws, WholeBuffer, Whole
<1> QED
  BY <1>2, <1>3, <1>4, <1>5 DEF JInv

\* Whoever is at a buffer keeps the other thread out.
LEMMA PermitTaken ==
  ASSUME TypeOK, ExclusiveBuffers
  PROVE  /\ drawing # NotDrawing => renderSem = 0 /\ ws # "render"
         /\ ws = "render" => renderSem = 0 /\ drawing = NotDrawing
         /\ gui = "layout" => layoutSem = 0 /\ ws # "layout"
         /\ ws = "layout" => layoutSem = 0 /\ gui # "layout"
<1>1. renderSem \in {0, 1} /\ layoutSem \in {0, 1}
  BY DEF TypeOK
<1>2. CASE drawing # NotDrawing
  BY <1>1, <1>2 DEF ExclusiveBuffers
<1>3. CASE drawing = NotDrawing
  BY <1>1, <1>3 DEF ExclusiveBuffers
<1> QED
  BY <1>2, <1>3

\* What NothingLost needs of an append: the log and the buffer grow alike.
LEMMA LogAppend ==
  ASSUME NEW sentNow \in Seq(Fragment), NEW buffer \in Seq(Fragment),
         NEW f \in Fragment
  PROVE  /\ Append(buffer, f) \in Seq(Fragment)
         /\ Append(sentNow \o buffer, f) \in Seq(Fragment)
         /\ Append(sentNow \o buffer, f) = sentNow \o Append(buffer, f)
OBVIOUS

\* The same for render_buffer.
LEMMA AppendRenderLogged ==
  ASSUME TypeOK, NothingLost, NEW f \in Fragment, AppendRender(f)
  PROVE  /\ renderBuffer' = Append(renderBuffer, f)
         /\ renderBuffer' \in Seq(Fragment)
         /\ drawLog' \in Seq(Fragment)
         /\ drawLog' = sentRender \o renderBuffer'
<1>1. sentRender \in Seq(Fragment) /\ renderBuffer \in Seq(Fragment)
  BY DEF TypeOK
<1>2. /\ renderBuffer' = Append(renderBuffer, f)
      /\ drawLog' = Append(sentRender \o renderBuffer, f)
  BY DEF AppendRender, NothingLost
<1> QED
  BY <1>1, <1>2, LogAppend

\* Steps that touch neither buffer nor log.
LEMMA QuietStep ==
  ASSUME JInv, TypeOK', ExclusiveBuffers',
         UNCHANGED <<renderBuffer, layoutBuffer, drawing, sent, drawLog, layoutLog>>
  PROVE  JInv'
BY DEF JInv, NothingLost, WholeDraws, WholeBuffer, Whole, sent

\* A draw command is opened.
LEMMA BeginRenderStep == ASSUME JInv, BeginRender PROVE JInv'
<1> USE DEF JInv, BeginRender, AppendRender, guiVars, wsVars, sent
<1>1. Part("head") \in Fragment
  BY PartIsFragment
<1>2. /\ renderBuffer' \in Seq(Fragment) /\ drawLog' \in Seq(Fragment)
      /\ drawLog' = sentRender \o renderBuffer'
  BY <1>1, AppendRenderLogged
<1>3. 0 \in 0 .. NotDrawing /\ 0 # NotDrawing
  BY JSONBuilderAssumption DEF NotDrawing
<1>4. TypeOK'
  BY <1>2, <1>3 DEF TypeOK
<1>5. ExclusiveBuffers'
  BY <1>3 DEF TypeOK, ExclusiveBuffers
<1>6. NothingLost' /\ WholeDraws' /\ WholeBuffer'
  BY <1>2, <1>3 DEF NothingLost, WholeDraws, WholeBuffer, NotDrawing
<1> QED
  BY <1>4, <1>5, <1>6

\* A primitive of the open draw command.
LEMMA PrimitiveStep == ASSUME JInv, Primitive PROVE JInv'
<1> USE DEF JInv, Primitive, AppendRender, guiVars, wsVars, sent
<1>1. Part("primitive") \in Fragment
  BY PartIsFragment
<1>2. /\ renderBuffer' \in Seq(Fragment) /\ drawLog' \in Seq(Fragment)
      /\ drawLog' = sentRender \o renderBuffer'
  BY <1>1, AppendRenderLogged
<1>3. drawing' \in 0 .. NotDrawing /\ drawing' # NotDrawing /\ drawing # NotDrawing
  BY JSONBuilderAssumption DEF NotDrawing, TypeOK
<1>4. TypeOK'
  BY <1>2, <1>3 DEF TypeOK
<1>5. ExclusiveBuffers'
  BY <1>3 DEF TypeOK, ExclusiveBuffers, NotDrawing
<1>6. NothingLost' /\ WholeDraws' /\ WholeBuffer'
  BY <1>2, <1>3 DEF NothingLost, WholeDraws, WholeBuffer, NotDrawing
<1> QED
  BY <1>4, <1>5, <1>6

\* The open draw command ends.
LEMMA EndRenderStep == ASSUME JInv, EndRender PROVE JInv'
<1> DEFINE f == [part |-> "end", command |-> completed']
<1> USE DEF JInv, EndRender, guiVars, wsVars, sent
<1>1. f \in Fragment /\ f.part = "end"
  BY DEF Fragment, TypeOK
<1> HIDE DEF f
<1>2. AppendRender(f)
  BY DEF f
<1>3. /\ renderBuffer' \in Seq(Fragment) /\ drawLog' \in Seq(Fragment)
      /\ drawLog' = sentRender \o renderBuffer'
  BY <1>1, <1>2, AppendRenderLogged
<1>4. renderSem = 0 /\ ws # "render"
  BY PermitTaken
<1>5. TypeOK'
  <2>1. drawing' \in 0 .. NotDrawing
    BY JSONBuilderAssumption DEF NotDrawing
  <2> QED
    BY <1>3, <1>4, <2>1 DEF TypeOK
<1>6. ExclusiveBuffers'
  BY <1>4 DEF ExclusiveBuffers, NotDrawing
<1>7. Whole(renderBuffer')
  BY <1>1, <1>2, WholeAppend, AppendRenderLogged DEF TypeOK
<1>8. NothingLost' /\ WholeDraws' /\ WholeBuffer'
  BY <1>3, <1>7 DEF NothingLost, WholeDraws, WholeBuffer, Whole
<1> QED
  BY <1>5, <1>6, <1>8

\* A layout command takes _layout_sem.
LEMMA BeginLayoutStep == ASSUME JInv, BeginLayout PROVE JInv'
<1> USE DEF JInv, BeginLayout, wsVars, sent, log
<1>1. gui # "layout"
  OBVIOUS
<1>2. TypeOK' /\ ExclusiveBuffers'
  BY DEF TypeOK, ExclusiveBuffers
<1> QED
  BY <1>2, QuietStep DEF sent

\* A layout command is complete.
LEMMA EndLayoutStep == ASSUME JInv, EndLayout PROVE JInv'
<1> DEFINE f == [part |-> "layout", command |-> completed']
<1>1. f \in Fragment
  BY DEF JInv, EndLayout, Fragment, TypeOK
<1>2. layoutBuffer' = Append(layoutBuffer, f) /\ layoutLog' = Append(layoutLog, f)
  BY DEF EndLayout
<1> HIDE DEF f
<1> USE DEF JInv
<1>3. /\ layoutBuffer' \in Seq(Fragment) /\ layoutLog' \in Seq(Fragment)
      /\ layoutLog' = sentLayout \o layoutBuffer'
  <2>1. sentLayout \in Seq(Fragment) /\ layoutBuffer \in Seq(Fragment)
    BY DEF TypeOK
  <2>2. layoutLog' = Append(sentLayout \o layoutBuffer, f)
    BY <1>2 DEF NothingLost
  <2>3. sentLayout' = sentLayout
    BY DEF EndLayout, sent
  <2> QED
    BY <1>1, <1>2, <2>1, <2>2, <2>3, LogAppend
<1> USE DEF EndLayout, wsVars, sent
<1>4. layoutSem = 0 /\ ws # "layout"
  BY PermitTaken
<1>5. TypeOK'
  BY <1>3, <1>4 DEF TypeOK
<1>6. ExclusiveBuffers'
  BY <1>4 DEF ExclusiveBuffers
<1>7. NothingLost' /\ WholeDraws' /\ WholeBuffer'
  BY <1>3 DEF NothingLost, WholeDraws, WholeBuffer, Whole
<1> QED
  BY <1>5, <1>6, <1>7

\* flush() takes _render_sem or _layout_sem.
LEMMA LockStep == ASSUME JInv, LockRender \/ LockLayout PROVE JInv'
<1> USE DEF JInv, guiVars, sent, log
<1>1. CASE LockRender
  <2>1. TypeOK' /\ ExclusiveBuffers'
    BY <1>1 DEF TypeOK, ExclusiveBuffers, LockRender
  <2> QED
    BY <1>1, <2>1, QuietStep DEF sent, LockRender
<1>2. CASE LockLayout
  <2>1. TypeOK' /\ ExclusiveBuffers'
    BY <1>2 DEF TypeOK, ExclusiveBuffers, LockLayout
  <2> QED
    BY <1>2, <2>1, QuietStep DEF sent, LockLayout
<1> QED
  BY <1>1, <1>2

\* The draw commands go out; no draw command is open, for flush() has the permit.
LEMMA SendRenderStep == ASSUME JInv, SendRender PROVE JInv'
<1> USE DEF JInv, SendRender, guiVars, log
<1>1. renderSem = 0 /\ drawing = NotDrawing
  BY PermitTaken
<1>2. /\ sentRender \in Seq(Fragment) /\ renderBuffer \in Seq(Fragment)
      /\ sentRender' = sentRender \o renderBuffer /\ renderBuffer' = <<>>
  BY DEF TypeOK
<1>3. renderBuffer' \in Seq(Fragment) /\ sentRender' \in Seq(Fragment)
  BY <1>2, EmptySeq, ConcatProperties
<1>4. drawLog' = sentRender' \o renderBuffer'
  <2>1. drawLog' = sentRender'
    BY <1>2 DEF NothingLost
  <2> QED
    BY <1>2, <1>3, <2>1, ConcatEmptySeq
<1>5. Whole(sentRender')
  <2>1. Whole(sentRender) /\ Whole(renderBuffer)
    BY <1>1 DEF WholeDraws, WholeBuffer, Whole
  <2> QED
    BY <1>2, <2>1, WholeConcat
<1>6. TypeOK'
  BY <1>1, <1>3 DEF TypeOK
<1>7. ExclusiveBuffers'
  BY <1>1 DEF ExclusiveBuffers
<1>8. NothingLost' /\ WholeDraws' /\ WholeBuffer'
  BY <1>2, <1>4, <1>5 DEF NothingLost, WholeDraws, WholeBuffer, Whole
<1> QED
  BY <1>6, <1>7, <1>8

\* The layout commands go out.
LEMMA SendLayoutStep == ASSUME JInv, SendLayout PROVE JInv'
<1> USE DEF JInv, SendLayout, guiVars, log
<1>1. layoutSem = 0 /\ gui # "layout"
  BY PermitTaken
<1>2. /\ sentLayout \in Seq(Fragment) /\ layoutBuffer \in Seq(Fragment)
      /\ sentLayout' = sentLayout \o layoutBuffer /\ layoutBuffer' = <<>>
  BY DEF TypeOK
<1>3. layoutBuffer' \in Seq(Fragment) /\ sentLayout' \in Seq(Fragment)
  BY <1>2, EmptySeq, ConcatProperties
<1>4. layoutLog' = sentLayout' \o layoutBuffer'
  <2>1. layoutLog' = sentLayout'
    BY <1>2 DEF NothingLost
  <2> QED
    BY <1>2, <1>3, <2>1, ConcatEmptySeq
<1>5. TypeOK'
  BY <1>1, <1>3 DEF TypeOK
<1>6. ExclusiveBuffers'
  BY <1>1 DEF ExclusiveBuffers
<1>7. NothingLost' /\ WholeDraws' /\ WholeBuffer'
  BY <1>4 DEF NothingLost, WholeDraws, WholeBuffer, Whole
<1> QED
  BY <1>5, <1>6, <1>7

\* Steps of connections and of posted calls.
LEMMA OtherStep ==
  ASSUME JInv,
         \/ HookReturns \/ EmitReadyRead
         \/ OnConnection \/ OnDisconnection \/ Quit \/ ReadData
  PROVE  JInv'
<1> USE DEF JInv, guiVars, wsVars, sent, log
<1>1. UNCHANGED <<renderBuffer, layoutBuffer, drawing, sent, drawLog, layoutLog>>
  BY DEF HookReturns, EmitReadyRead, OnConnection, OnDisconnection, Quit, ReadData
<1>2. TypeOK'
  <2>1. CASE HookReturns \/ EmitReadyRead
    BY <2>1 DEF TypeOK, HookReturns, EmitReadyRead
  <2>2. CASE OnConnection
    BY <2>2 DEF TypeOK, OnConnection
  <2>3. CASE OnDisconnection
    BY <2>3 DEF TypeOK, OnDisconnection
  <2>4. CASE Quit
    BY <2>4 DEF TypeOK, Quit
  <2>5. CASE ReadData
    <3>1. ws' \in {"loop", "wantRender", "render", "wantLayout", "layout", "stopped"}
      BY <2>5 DEF ReadData
    <3>2. readsPosted' \in Nat
      BY <2>5 DEF ReadData, TypeOK
    <3> QED
      BY <2>5, <3>1, <3>2 DEF TypeOK, ReadData
  <2> QED
    BY <2>1, <2>2, <2>3, <2>4, <2>5
<1>3. ExclusiveBuffers'
  BY DEF ExclusiveBuffers, HookReturns, EmitReadyRead, OnConnection, OnDisconnection,
         Quit, ReadData
<1> QED
  BY <1>1, <1>2, <1>3, QuietStep

\* Every step keeps the invariant.
LEMMA JInvStep == JInv /\ [Next]_vars => JInv'
<1> SUFFICES ASSUME JInv, [Next]_vars PROVE JInv'
  OBVIOUS
<1>1. CASE Gui
  BY <1>1, BeginRenderStep, PrimitiveStep, EndRenderStep, BeginLayoutStep,
     EndLayoutStep, OtherStep DEF Gui
<1>2. CASE Flush
  BY <1>2, LockStep, SendRenderStep, SendLayoutStep DEF Flush
<1>3. CASE OnConnection \/ OnDisconnection \/ Quit \/ ReadData
  BY <1>3, OtherStep
<1>4. CASE UNCHANGED vars
  BY <1>4 DEF vars, guiVars, wsVars, sent, log, JInv, TypeOK, ExclusiveBuffers,
              NothingLost, WholeDraws, WholeBuffer
<1> QED
  BY <1>1, <1>2, <1>3, <1>4 DEF Next

\* The invariant holds in every state.
LEMMA JInvariance == Spec => []JInv
BY JInvInit, JInvStep, PTL DEF Spec

-----------------------------------------------------------------------------
(* The theorems.                                                           *)

\* Both semaphores have one permit at most and the buffers hold fragments, for any number of
\* commands and primitives (JSONBuilder's two buffers).
THEOREM BufferTypes == Spec => []TypeOK
<1>1. JInv => TypeOK
  BY DEF JInv
<1> QED
  BY <1>1, JInvariance, PTL

\* Each buffer is in the hands of one thread at a time, for any number of commands and
\* primitives and whatever the browser does.
THEOREM BuffersAreExclusive == Spec => []ExclusiveBuffers
<1>1. JInv => ExclusiveBuffers
  BY DEF JInv
<1> QED
  BY <1>1, JInvariance, PTL

\* Messages made of render_buffer hold whole draw commands.
THEOREM DrawsAreWhole == Spec => []WholeDraws
<1>1. JInv => WholeDraws
  BY DEF JInv
<1> QED
  BY <1>1, JInvariance, PTL

\* What was appended is what was sent and what is buffered, in this order.
THEOREM FragmentsKept == Spec => []NothingLost
<1>1. JInv => NothingLost
  BY DEF JInv
<1> QED
  BY <1>1, JInvariance, PTL

\* The initial state is an initial state of the command stream.
LEMMA StreamInitial == Init => Stream!Init
BY CommandsEmpty DEF Init, Stream!Init

\* Only ends of draw commands, layout commands and the two sends are steps of the
\* command stream.
LEMMA StreamStep == JInv /\ [Next]_vars => [Stream!Next]_(Stream!streamVars)
<1> SUFFICES ASSUME JInv, [Next]_vars PROVE [Stream!Next]_(Stream!streamVars)
  OBVIOUS
<1> USE DEF Stream!Next, Stream!streamVars
<1>1. /\ renderBuffer \in Seq(Fragment) /\ layoutBuffer \in Seq(Fragment)
      /\ sentRender \in Seq(Fragment) /\ sentLayout \in Seq(Fragment)
      /\ completed \in Nat
  BY DEF JInv, TypeOK
<1>2. CASE BeginRender \/ Primitive
  <2>1. \E f \in Fragment : f.command = 0 /\ renderBuffer' = Append(renderBuffer, f)
    BY <1>2, PartIsFragment DEF BeginRender, Primitive, AppendRender
  <2>2. Commands(renderBuffer') = Commands(renderBuffer)
    <3>1. PICK f \in Fragment :
            f.command = 0 /\ renderBuffer' = Append(renderBuffer, f)
      BY <2>1
    <3>2. Commands(Append(renderBuffer, f))
            = Commands(renderBuffer) \cup ({f.command} \ {0})
      BY <1>1, CommandsAppend
    <3>3. {f.command} \ {0} = {}
      BY <3>1
    <3> QED
      BY <3>1, <3>2, <3>3
  <2>3. UNCHANGED <<completed, layoutBuffer, sentRender, sentLayout, ws>>
    BY <1>2 DEF BeginRender, Primitive, wsVars, sent
  <2> QED
    BY <2>2, <2>3
<1>3. CASE EndRender
  <2> DEFINE f == [part |-> "end", command |-> completed']
  <2>1. completed' = completed + 1 /\ completed' # 0
    BY <1>1, <1>3 DEF EndRender
  <2>2. f \in Fragment /\ f.command = completed'
    BY <1>1, <2>1 DEF Fragment
  <2>3. renderBuffer' = Append(renderBuffer, f)
    BY <1>3 DEF EndRender, AppendRender
  <2> HIDE DEF f
  <2>4. Commands(renderBuffer') = Commands(renderBuffer) \cup {completed'}
    BY <1>1, <2>1, <2>2, <2>3, CommandsAppend
  <2>5. UNCHANGED <<layoutBuffer, sentRender, sentLayout, ws>>
    BY <1>3 DEF EndRender, wsVars, sent
  <2>6. Stream!Draw
    BY <2>1, <2>4, <2>5 DEF Stream!Draw
  <2> QED
    BY <2>6
<1>4. CASE EndLayout
  <2> DEFINE f == [part |-> "layout", command |-> completed']
  <2>1. completed' = completed + 1 /\ completed' # 0
    BY <1>1, <1>4 DEF EndLayout
  <2>2. f \in Fragment /\ f.command = completed'
    BY <1>1, <2>1 DEF Fragment
  <2>3. layoutBuffer' = Append(layoutBuffer, f)
    BY <1>4 DEF EndLayout
  <2> HIDE DEF f
  <2>4. Commands(layoutBuffer') = Commands(layoutBuffer) \cup {completed'}
    BY <1>1, <2>1, <2>2, <2>3, CommandsAppend
  <2>5. UNCHANGED <<renderBuffer, sentRender, sentLayout, ws>>
    BY <1>4 DEF EndLayout, wsVars, sent
  <2>6. Stream!Layout
    BY <2>1, <2>4, <2>5 DEF Stream!Layout
  <2> QED
    BY <2>6
<1>5. CASE SendRender
  <2>1. /\ ws = "render" /\ ws' = "wantLayout"
        /\ Commands(sentRender') = Commands(sentRender) \cup Commands(renderBuffer)
        /\ Commands(renderBuffer') = {}
        /\ UNCHANGED <<completed, layoutBuffer, sentLayout>>
    BY <1>1, <1>5, CommandsConcat, CommandsEmpty DEF SendRender, log
  <2>2. Stream!SendDraws
    BY <2>1 DEF Stream!SendDraws
  <2> QED
    BY <2>2
<1>6. CASE SendLayout
  <2>1. /\ ws = "layout" /\ ws' = "loop"
        /\ Commands(sentLayout') = Commands(sentLayout) \cup Commands(layoutBuffer)
        /\ Commands(layoutBuffer') = {}
        /\ UNCHANGED <<completed, renderBuffer, sentRender>>
    BY <1>1, <1>6, CommandsConcat, CommandsEmpty DEF SendLayout, log
  <2>2. Stream!SendLayouts
    BY <2>1 DEF Stream!SendLayouts
  <2> QED
    BY <2>2
<1>7. CASE \/ HookReturns \/ BeginLayout \/ EmitReadyRead \/ OnConnection
           \/ OnDisconnection \/ Quit \/ ReadData \/ LockRender \/ LockLayout
           \/ UNCHANGED vars
  <2>1. /\ UNCHANGED <<completed, renderBuffer, layoutBuffer, sentRender, sentLayout>>
        /\ ws \in {"wantLayout", "layout"} <=> ws' \in {"wantLayout", "layout"}
    BY <1>7 DEF HookReturns, BeginLayout, EmitReadyRead, OnConnection, OnDisconnection,
                Quit, ReadData, LockRender, LockLayout, vars, guiVars, wsVars, sent, log
  <2> QED
    BY <2>1
<1> QED
  BY <1>2, <1>3, <1>4, <1>5, <1>6, <1>7 DEF Next, Gui, Flush

\* The buffers with their semaphores implement the command stream.
THEOREM BuffersImplementStream == Spec => ImplementsDisplayStream
BY StreamInitial, StreamStep, JInvariance, PTL
DEF Spec, ImplementsDisplayStream, Stream!Spec

-----------------------------------------------------------------------------
(* What the command stream promises, and so the buffers that implement it. *)

\* Commands are numbered up to issued, each is in one place, and the draws of a flush
\* are older than every layout command issued after it.
StreamInv == Stream!StreamTypeOK /\ Stream!InOnePlace /\ Stream!BoundedOvertaking

\* The first command is number 1.
LEMMA StreamInvInit == Stream!Init => StreamInv
<1> SUFFICES ASSUME Stream!Init PROVE StreamInv
  OBVIOUS
<1> USE DEF Stream!Init
<1>1. 1 .. completed = {}
  OBVIOUS
<1>2. Stream!StreamTypeOK /\ Stream!BoundedOvertaking
  BY DEF Stream!StreamTypeOK, Stream!BoundedOvertaking
<1>3. Stream!InOnePlace
  BY <1>1 DEF Stream!InOnePlace
<1> QED
  BY <1>2, <1>3 DEF StreamInv

\* Both channels are emptied whole.
LEMMA StreamInvStep == StreamInv /\ [Stream!Next]_(Stream!streamVars) => StreamInv'
<1> SUFFICES ASSUME StreamInv, [Stream!Next]_(Stream!streamVars) PROVE StreamInv'
  OBVIOUS
<1> USE DEF StreamInv, Stream!StreamTypeOK
<1>1. CASE Stream!Draw
  <2>1. Stream!StreamTypeOK'
    BY <1>1 DEF Stream!Draw
  <2>2. Stream!InOnePlace'
    BY <1>1 DEF Stream!Draw, Stream!InOnePlace
  <2>3. Stream!BoundedOvertaking'
    BY <1>1 DEF Stream!Draw, Stream!BoundedOvertaking
  <2> QED
    BY <2>1, <2>2, <2>3
<1>2. CASE Stream!Layout
  <2>1. Stream!StreamTypeOK'
    BY <1>2 DEF Stream!Layout
  <2>2. Stream!InOnePlace'
    BY <1>2 DEF Stream!Layout, Stream!InOnePlace
  <2>3. Stream!BoundedOvertaking'
    BY <1>2 DEF Stream!Layout, Stream!BoundedOvertaking
  <2> QED
    BY <2>1, <2>2, <2>3
<1>3. CASE Stream!SendDraws
  BY <1>3 DEF Stream!SendDraws, Stream!InOnePlace, Stream!BoundedOvertaking
<1>4. CASE Stream!SendLayouts
  BY <1>4 DEF Stream!SendLayouts, Stream!InOnePlace, Stream!BoundedOvertaking
<1>5. CASE UNCHANGED Stream!streamVars
  BY <1>5 DEF Stream!streamVars, Stream!InOnePlace, Stream!BoundedOvertaking
<1> QED
  BY <1>1, <1>2, <1>3, <1>4, <1>5 DEF Stream!Next

\* The invariant of the command stream holds of the buffers.
LEMMA StreamInvariance == Spec => []StreamInv
BY StreamInvInit, StreamInvStep, BuffersImplementStream, PTL
DEF ImplementsDisplayStream, Stream!Spec

\* No completed command is lost or sent twice, for any number of commands.
THEOREM NothingLostOrTwice == Spec => []Stream!InOnePlace
<1>1. StreamInv => Stream!InOnePlace
  BY DEF StreamInv
<1> QED
  BY <1>1, StreamInvariance, PTL

\* In the buffers, too, a draw overtakes older layout commands during a flush only.
THEOREM DrawsOvertakeOneMessage == Spec => []BoundedOvertaking
<1>1. StreamInv => BoundedOvertaking
  BY DEF StreamInv, BoundedOvertaking
<1> QED
  BY <1>1, StreamInvariance, PTL

-----------------------------------------------------------------------------
(* The painter's state.                                                    *)

\* What is proved here of the buffers holds of them with the painter, too: no call of
\* the paint engine does more to them than JSONBuilder's Primitive.
THEOREM PainterKeepsBuffers == PaintSpec => Spec
<1>1. PaintInit => Init
  BY DEF PaintInit
<1>2. [PaintNext]_paintVars => [Next]_vars
  <2> SUFFICES ASSUME [PaintNext]_paintVars PROVE [Next]_vars
    OBVIOUS
  <2>1. CASE StartDrawing
    BY <2>1 DEF StartDrawing, Next, Gui
  <2>2. ASSUME NEW report \in Reports, NEW clip \in BOOLEAN,
               DrawShape(report, clip) \/ DrawPixmap(report, clip)
        PROVE  Next
    BY <2>2 DEF DrawShape, DrawPixmap, Next, Gui
  <2>3. ASSUME NEW report \in Reports, DrawNothing(report)
        PROVE  UNCHANGED vars
    BY <2>3 DEF DrawNothing
  <2>4. CASE EndDrawing
    BY <2>4 DEF EndDrawing, Next, Gui
  <2>5. CASE Elsewhere
    BY <2>5 DEF Elsewhere, Next, Gui
  <2>6. CASE UNCHANGED paintVars
    BY <2>6 DEF paintVars
  <2> QED
    BY <2>1, <2>2, <2>3, <2>4, <2>5, <2>6 DEF PaintNext
<1> QED
  BY <1>1, <1>2, PTL DEF PaintSpec, Spec

\* The states of the page's drawer and context.
Pages == [drawer : Transforms, context : Transforms, saved : Transforms]

\* The page's context and drawer agree, and lag behind cur_state only in what is
\* flagged or has not been reported in this draw command.
PaintInv ==
  /\ transform \in Transforms
  /\ flags \subseteq {"transform", "others"}
  /\ told \in BOOLEAN
  /\ page \in Pages
  /\ page.context = page.drawer
  /\ told => "transform" \in flags \/ page.drawer = transform

\* A state fragment leaves the context with the transform it names, or as it was.
LEMMA SaveStateContext ==
  ASSUME NEW p \in Pages, p.context = p.drawer,
         NEW flagged \in SUBSET {"transform", "others"},
         NEW t \in Transforms, NEW clip \in BOOLEAN,
         NEW q, q = SaveState(p, flagged, t, clip)
  PROVE  /\ q \in Pages
         /\ q.context = q.drawer
         /\ "transform" \in flagged => q.context = t
         /\ "transform" \notin flagged => q.context = p.context
<1> DEFINE r == IF clip THEN SetupClipping(p) ELSE p
<1>1. /\ r \in Pages
      /\ r.context = p.context
      /\ r.drawer = p.drawer
  BY DEF SetupClipping, RestoreState, Pages
<1>2. DrawState(p, flagged, t, clip)
        = IF "transform" \in flagged THEN [r EXCEPT !.drawer = t, !.context = t] ELSE r
  BY DEF DrawState
<1> HIDE DEF r
<1>3. CASE flagged = {}
  BY <1>3 DEF SaveState
<1>4. CASE flagged # {}
  <2>1. q = DrawState(p, flagged, t, clip)
    BY <1>4 DEF SaveState
  <2>2. CASE "transform" \in flagged
    BY <2>1, <2>2, <1>1, <1>2 DEF Pages
  <2>3. CASE "transform" \notin flagged
    BY <2>1, <2>3, <1>1, <1>2
  <2> QED
    BY <2>2, <2>3
<1> QED
  BY <1>3, <1>4

\* What the engine keeps of a report.
LEMMA ReportKept ==
  ASSUME PaintInv, NEW report \in Reports
  PROVE  /\ Current(report) \in Transforms
         /\ Flagged(report) \subseteq {"transform", "others"}
         /\ "transform" \in Flagged(report)
              <=> "transform" \in flags \/ report.transform # Unchanged
         /\ told /\ "transform" \notin Flagged(report) => page.drawer = Current(report)
BY DEF PaintInv, Reports, Current, Flagged, Transforms, Unchanged, Identity

\* The page when a shape is drawn, which is the page after it as well.
LEMMA PageAtShape ==
  ASSUME PaintInv, NEW report \in Reports, NEW clip \in BOOLEAN
  PROVE  /\ AtShape(report, clip) \in Pages
         /\ AtShape(report, clip).context = AtShape(report, clip).drawer
         /\ "transform" \in Flagged(report) =>
              AtShape(report, clip).context = Current(report)
         /\ "transform" \notin Flagged(report) =>
              AtShape(report, clip).context = page.context
<1>1. /\ Current(report) \in Transforms
      /\ Flagged(report) \in SUBSET {"transform", "others"}
  BY ReportKept
<1>2. page \in Pages /\ page.context = page.drawer
  BY DEF PaintInv
<1>3. AtShape(report, clip) = SaveState(page, Flagged(report), Current(report), clip)
  BY DEF AtShape
<1> QED
  BY <1>1, <1>2, <1>3, SaveStateContext

\* The page when the picture of a pixmap is drawn.
LEMMA PageAtPixmap ==
  ASSUME PaintInv, NEW report \in Reports, NEW clip \in BOOLEAN
  PROVE  /\ AtPixmap(report, clip) \in Pages
         /\ AtPixmap(report, clip).context = AtPixmap(report, clip).drawer
         /\ AtPixmap(report, clip).context = Identity
<1> DEFINE f == Flagged(report) \cup {"transform"}
<1>1. f \in SUBSET {"transform", "others"} /\ "transform" \in f
  BY ReportKept
<1>2. page \in Pages /\ page.context = page.drawer /\ Identity \in Transforms
  BY DEF PaintInv, Transforms
<1>3. AtPixmap(report, clip) = SaveState(page, f, Identity, clip)
  BY DEF AtPixmap
<1> HIDE DEF f
<1> QED
  BY <1>1, <1>2, <1>3, SaveStateContext

\* A shape is drawn under the painter's transform, a pixmap under the identity.
LEMMA DrawnUnder ==
  ASSUME PaintInv, NEW report \in Reports, NEW clip \in BOOLEAN
  PROVE  /\ told \/ report.transform # Unchanged =>
              AtShape(report, clip).context = Current(report)
         /\ AtPixmap(report, clip).context = Identity
<1>1. /\ page \in Pages
      /\ page.context = page.drawer
      /\ Identity \in Transforms
  BY DEF PaintInv, Transforms
<1>2. /\ "transform" \in Flagged(report) =>
           AtShape(report, clip).context = Current(report)
      /\ "transform" \notin Flagged(report) =>
           AtShape(report, clip).context = page.context
  BY PageAtShape
<1>3. AtPixmap(report, clip).context = Identity
  BY PageAtPixmap
<1> QED
  BY <1>1, <1>2, <1>3, ReportKept

\* PaintInv is inductive.
LEMMA PaintInvStep == PaintInv /\ [PaintNext]_paintVars => PaintInv'
<1> SUFFICES ASSUME PaintInv, [PaintNext]_paintVars PROVE PaintInv'
  OBVIOUS
<1>1. CASE StartDrawing
  BY <1>1 DEF StartDrawing, Setup, PaintInv, Transforms, Pages
<1>2. ASSUME NEW report \in Reports, NEW clip \in BOOLEAN, DrawShape(report, clip)
      PROVE  PaintInv'
  <2>1. /\ page \in Pages
        /\ page.context = page.drawer
    BY DEF PaintInv
  <2>2. /\ page' \in Pages
        /\ page'.context = page'.drawer
        /\ "transform" \in Flagged(report) => page'.context = Current(report)
        /\ "transform" \notin Flagged(report) => page'.context = page.context
    BY <1>2, PageAtShape DEF DrawShape
  <2>3. /\ transform' = Current(report)
        /\ told' = (told \/ report.transform # Unchanged)
        /\ flags' = {}
    BY <1>2 DEF DrawShape, Report
  <2> QED
    BY <2>1, <2>2, <2>3, ReportKept DEF PaintInv
<1>3. ASSUME NEW report \in Reports, NEW clip \in BOOLEAN, DrawPixmap(report, clip)
      PROVE  PaintInv'
  <2> DEFINE p == AtPixmap(report, clip)
             f == {"transform"}
  <2>1. /\ p \in Pages
        /\ p.context = p.drawer
    BY PageAtPixmap
  <2>2. /\ f \in SUBSET {"transform", "others"} /\ "transform" \in f
        /\ Current(report) \in Transforms
    BY ReportKept
  <2>3. page' = SaveState(p, f, Current(report), clip)
    BY <1>3 DEF DrawPixmap
  <2> HIDE DEF p, f
  <2>4. /\ page' \in Pages
        /\ page'.context = page'.drawer
        /\ page'.context = Current(report)
    BY <2>1, <2>2, <2>3, SaveStateContext
  <2>5. /\ transform' = Current(report)
        /\ told' = (told \/ report.transform # Unchanged)
        /\ flags' = {}
    BY <1>3 DEF DrawPixmap, Report
  <2> QED
    BY <2>4, <2>5, ReportKept DEF PaintInv
<1>4. ASSUME NEW report \in Reports, DrawNothing(report)
      PROVE  PaintInv'
  <2>1. /\ transform' = Current(report)
        /\ told' = (told \/ report.transform # Unchanged)
        /\ flags' = Flagged(report)
        /\ page' = page
    BY <1>4 DEF DrawNothing, Report
  <2> QED
    BY <2>1, ReportKept DEF PaintInv
<1>5. CASE EndDrawing
  BY <1>5 DEF EndDrawing, Setup, PaintInv, Transforms, Pages
<1>6. CASE UNCHANGED painterVars
  BY <1>6 DEF painterVars, PaintInv
<1> QED
  BY <1>1, <1>2, <1>3, <1>4, <1>5, <1>6 DEF PaintNext, paintVars

\* In every draw command, however long, and whatever earlier ones have left in cur_state.
THEOREM PaintedAsReported == PaintSpec => []DrawnAsPainted
<1>1. ASSUME PaintInit PROVE PaintInv
  <2>1. /\ transform \in Transforms /\ flags = {} /\ told = FALSE
        /\ page \in Pages /\ page.context = page.drawer
    BY <1>1 DEF PaintInit, Setup, Transforms, Pages
  <2> QED
    BY <2>1 DEF PaintInv
<1>2. PaintInv => DrawnAsPainted
  BY DrawnUnder DEF DrawnAsPainted
<1> QED
  BY <1>1, <1>2, PaintInvStep, PTL DEF PaintSpec

=============================================================================
