---------------------------- MODULE ImageLoader ----------------------------
(***************************************************************************)
(* A picture on its way from a paintEvent to the canvas: the image store   *)
(* (ImagesHostServer) with the browser's loader (QtLogic.loadImages and    *)
(* input in src/src/server/canvas.html) and the two channels between them. *)
(*                                                                         *)
(* The websocket carries messages, each with the keys its draw commands    *)
(* name; it is ordered.  Every picture is fetched over an HTTP connection  *)
(* of its own; these are not ordered, and may fail.  A message is executed *)
(* once all the pictures it asked for have loaded or failed; a message     *)
(* that finds nothing to wait for is executed at once.                     *)
(***************************************************************************)
EXTENDS ImagesHostServer, Sequences

CONSTANT
  MaxMessages   \* bound: messages the application sends

ASSUME ImageLoaderAssumption == MaxMessages \in Nat

VARIABLES
  open,      \* keys named in render_buffer
  stream,    \* websocket messages in flight: the set of keys of each
  received,  \* number of messages the browser has received
  images,    \* QtLogic.images
  asked,     \* "/add" requests on their way to the server
  loading,   \* pictures on their way to the browser
  failing,   \* requests that end in the Image object's onerror
  waiting,   \* per received message that waits: its keys, and the count and the
             \* Image objects of its delayCallback
  executed,  \* history: numbers of the messages executed
  asker,     \* history: the message whose loading asked for a key, or 0
  failed,    \* history: keys whose request failed
  missing    \* history: <<message, key>> drawn without the picture

browserVars == <<received, images, asked, loading, failing, waiting,
                 executed, asker, failed, missing>>
vars == <<serverVars, open, stream, browserVars>>

Batch == [keys : SUBSET Keys, own : SUBSET Keys, num : Nat]

TypeOK ==
  /\ ServerTypeOK
  /\ Cardinality(data) <= MaxData
  /\ open \subseteq Keys
  /\ stream \in Seq(SUBSET Keys)
  /\ received \in 0 .. MaxMessages
  /\ images \in [Keys -> {"none", "holding", "loaded"}]
  /\ asked \subseteq Keys
  /\ loading \subseteq Keys
  /\ failing \subseteq Keys
  /\ DOMAIN waiting \subseteq 1 .. received
  /\ \A n \in DOMAIN waiting : waiting[n] \in Batch
  /\ executed \subseteq 1 .. received
  /\ asker \in [Keys -> 0 .. received]
  /\ failed \subseteq Keys
  /\ missing \subseteq (1 .. received) \X Keys

Init ==
  /\ ServerInit
  /\ open = {}
  /\ stream = <<>>
  /\ received = 0
  /\ images = [k \in Keys |-> "none"]
  /\ asked = {}
  /\ loading = {}
  /\ failing = {}
  /\ waiting = <<>>
  /\ executed = {}
  /\ asker = [k \in Keys |-> 0]
  /\ failed = {}
  /\ missing = {}

-----------------------------------------------------------------------------
(* The application.                                                        *)

\* JSONBuilder::image: a picture without key is not drawn.
DrawImage(k) ==
  /\ received + Len(stream) < MaxMessages
  /\ HostImage(k)
  /\ open' = IF Drawable(k) THEN open \cup {k} ELSE open
  /\ UNCHANGED <<stream, browserVars>>

\* JSONBuilder::pixmap.
DrawPixmap(k) ==
  /\ received + Len(stream) < MaxMessages
  /\ HostPixmap(k)
  /\ open' = open \cup {k}
  /\ UNCHANGED <<stream, browserVars>>

\* JSONBuilder::flush; a message of layout commands names no picture.
Flush ==
  /\ received + Len(stream) < MaxMessages
  /\ stream' = Append(stream, open)
  /\ open' = {}
  /\ UNCHANGED <<serverVars, browserVars>>

-----------------------------------------------------------------------------
(* The server's answers.                                                   *)

\* "GET /add?i=k": the picture, or an empty body, which no browser loads.
Answer(k) ==
  /\ k \in asked
  /\ asked' = asked \ {k}
  /\ SendImage(k)
  /\ IF k \in data
     THEN loading' = loading \cup {k} /\ UNCHANGED failing
     ELSE failing' = failing \cup {k} /\ UNCHANGED loading
  /\ UNCHANGED <<open, stream, received, images, waiting, executed, asker, failed, missing>>

\* readyRead before the request line is complete: 400.
AnswerBadRequest(k) ==
  /\ k \in asked
  /\ asked' = asked \ {k}
  /\ failing' = failing \cup {k}
  /\ UNCHANGED <<serverVars, open, stream, received, images, loading, waiting,
                 executed, asker, failed, missing>>

\* The connection breaks while the picture is written.
LoseAnswer(k) ==
  /\ k \in loading
  /\ loading' = loading \ {k}
  /\ failing' = failing \cup {k}
  /\ UNCHANGED <<serverVars, open, stream, received, images, asked, waiting,
                 executed, asker, failed, missing>>

-----------------------------------------------------------------------------
(* The browser.                                                            *)

\* afterLoad: the draw commands of message n, with what QtLogic.images holds; drawImage
\* skips a key whose entry is no object.
Execute(n, keys, imgs) ==
  /\ executed' = executed \cup {n}
  /\ missing' = missing \cup {<<n, k>> : k \in {l \in keys : imgs[l] # "loaded"}}

\* Mutant: a picture that is on its way counts as one that is not there.
FreshMutant(keys) == {k \in keys : images[k] # "loaded"}

\* The pictures loadImages has to ask for: not loaded, and not asked for before.
Fresh(keys) == {k \in keys : images[k] = "none"}

\* onmessage, input, loadImages: the delayer counts down once for every picture that
\* has an entry, at once; the others get an Image object, whose request goes out.
Receive ==
  /\ stream # <<>>
  /\ stream' = Tail(stream)
  /\ received' = received + 1
  /\ LET keys == Head(stream)
         fresh == Fresh(keys)
     IN /\ images' = [k \in Keys |-> IF k \in fresh THEN "holding" ELSE images[k]]
        /\ asked' = asked \cup fresh
        /\ asker' = [k \in Keys |-> IF k \in fresh THEN received' ELSE asker[k]]
        /\ IF fresh = {}
           THEN /\ Execute(received', keys, images)
                /\ UNCHANGED waiting
           ELSE /\ waiting' = [n \in DOMAIN waiting \cup {received'} |->
                     IF n = received'
                     THEN [keys |-> keys, own |-> fresh, num |-> Cardinality(fresh)]
                     ELSE waiting[n]]
                /\ UNCHANGED <<executed, missing>>
  /\ UNCHANGED <<serverVars, open, loading, failing, failed>>

\* Mutant: delayCallback counts one too few.
DelayerMutant(n, k, imgs) ==
  LET left == [waiting[n] EXCEPT !.num = @ - 1, !.own = @ \ {k}] IN
  IF left.num <= 1
  THEN /\ Execute(n, left.keys, imgs)
       /\ waiting' = [m \in DOMAIN waiting \ {n} |-> waiting[m]]
  ELSE /\ waiting' = [waiting EXCEPT ![n] = left]
       /\ UNCHANGED <<executed, missing>>

\* The closure of delayCallback for message n, called for the picture k.
Delayer(n, k, imgs) ==
  LET left == [waiting[n] EXCEPT !.num = @ - 1, !.own = @ \ {k}] IN
  IF left.num = 0
  THEN /\ Execute(n, left.keys, imgs)
       /\ waiting' = [m \in DOMAIN waiting \ {n} |-> waiting[m]]
  ELSE /\ waiting' = [waiting EXCEPT ![n] = left]
       /\ UNCHANGED <<executed, missing>>

\* image.onload.
OnLoad(k) ==
  /\ k \in loading
  /\ loading' = loading \ {k}
  /\ images' = [images EXCEPT ![k] = "loaded"]
  /\ \E n \in DOMAIN waiting : k \in waiting[n].own /\ Delayer(n, k, images')
  /\ UNCHANGED <<serverVars, open, stream, received, asked, failing, asker, failed>>

\* Mutant: no onerror.
OnErrorMutant(k) ==
  /\ k \in failing
  /\ failing' = failing \ {k}
  /\ failed' = failed \cup {k}
  /\ UNCHANGED <<serverVars, open, stream, received, images, asked, loading, waiting,
                 executed, asker, missing>>

\* image.onerror is the delayer: the key keeps its entry.
OnError(k) ==
  /\ k \in failing
  /\ failing' = failing \ {k}
  /\ failed' = failed \cup {k}
  /\ \E n \in DOMAIN waiting : k \in waiting[n].own /\ Delayer(n, k, images)
  /\ UNCHANGED <<serverVars, open, stream, received, images, asked, loading, asker>>

Next ==
  \/ \E k \in Keys : DrawImage(k) \/ DrawPixmap(k)
  \/ Flush
  \/ \E k \in Keys : Answer(k) \/ AnswerBadRequest(k) \/ LoseAnswer(k)
  \/ Receive
  \/ \E k \in Keys : OnLoad(k) \/ OnError(k)

Spec == Init /\ [][Next]_vars

\* Sockets deliver or fail, and the two event loops take what was delivered.
Fairness ==
  /\ WF_vars(Receive)
  /\ \A k \in Keys : WF_vars(Answer(k) \/ AnswerBadRequest(k))
  /\ \A k \in Keys : WF_vars(OnLoad(k) \/ OnError(k))

FairSpec == Spec /\ Fairness

-----------------------------------------------------------------------------
(* Correctness.                                                            *)

\* The browser's request for a key finds the picture, although the server gives it
\* out once only: it relies on the browser to ask once.
RequestServed == asked \subseteq data \cup evicted

\* The message that asked for a picture is drawn with it, unless the request failed: a
\* picture left out otherwise is one that an earlier message is still waiting for.
AskerDrawsImage ==
  \A p \in missing : p[2] \in failed \/ asker[p[2]] < p[1]

\* Every message is executed in the end, although pictures fail.
EveryMessageExecuted ==
  \A n \in 1 .. MaxMessages : received >= n ~> n \in executed

=============================================================================
