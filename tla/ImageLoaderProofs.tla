-------------------------- MODULE ImageLoaderProofs --------------------------
(***************************************************************************)
(* For any pictures, any size of the store and any number of messages: the *)
(* store holds what the browser asks for unless the limit took it, and a   *)
(* message is drawn with the pictures that it asked for.                   *)
(***************************************************************************)
EXTENDS ImageLoader, FiniteSetTheorems, TLAPS

\* A message names finitely many pictures, so that its delayer can count them; there
\* are no more messages than the bound allows.
FiniteMessages ==
  /\ IsFiniteSet(data)
  /\ IsFiniteSet(open)
  /\ \A i \in DOMAIN stream : IsFiniteSet(stream[i])
  /\ received + Len(stream) <= MaxMessages

\* A key that is on its way to the browser, or was, is known to the store.
Hosted ==
  /\ open \subseteq cached
  /\ \A i \in DOMAIN stream : stream[i] \subseteq cached
  /\ \A k \in Keys : images[k] # "none" => k \in cached

\* m_cached remembers a key longer than m_data: the picture is gone only if the limit
\* took it, or if the browser's one request for it has been answered.
Stored ==
  /\ \A k \in cached : \/ k \in data \cup evicted
                       \/ images[k] # "none" /\ k \notin asked
  /\ \A k \in asked : images[k] # "none"

\* A message that waits has Object images of its own to wait for; every other
\* picture it asked for has loaded or failed.
Waits ==
  \A n \in DOMAIN waiting :
    /\ IsFiniteSet(waiting[n].own) /\ waiting[n].num = Cardinality(waiting[n].own)
    /\ waiting[n].own \subseteq waiting[n].keys
    /\ \A k \in waiting[n].keys :
         /\ images[k] # "none" /\ asker[k] <= n
         /\ asker[k] = n => k \in waiting[n].own \/ images[k] = "loaded" \/ k \in failed

\* A picture that a message was drawn without has been asked for, so that its asker
\* is known for good.
MissingAsked == \A p \in missing : images[p[2]] # "none"

IInv ==
  /\ TypeOK /\ FiniteMessages
  /\ Hosted /\ Stored
  /\ Waits /\ MissingAsked /\ AskerDrawsImage

-----------------------------------------------------------------------------
(* The store.                                                              *)

\* Removing the first keys leaves MaxData of them at most: the keys that stay have
\* different numbers of keys after them, and these are below MaxData.
LEMMA TrimmedFits ==
  ASSUME NEW S \in SUBSET Keys, IsFiniteSet(S)
  PROVE  /\ Trimmed(S) \subseteq S
         /\ IsFiniteSet(Trimmed(S))
         /\ Cardinality(Trimmed(S)) <= MaxData
<1> DEFINE above(k) == {l \in S : l > k}
           T == Trimmed(S)
           f == [k \in T |-> Cardinality(above(k))]
<1>1. S \subseteq Nat /\ T \subseteq S /\ MaxData \in Nat
  BY ImagesHostServerAssumption DEF Trimmed
<1>2. \A k \in S : IsFiniteSet(above(k)) /\ Cardinality(above(k)) \in Nat
  <2> SUFFICES ASSUME NEW k \in S PROVE IsFiniteSet(above(k)) /\ Cardinality(above(k)) \in Nat
    OBVIOUS
  <2>1. above(k) \in SUBSET S
    OBVIOUS
  <2>2. IsFiniteSet(above(k))
    BY <2>1, FS_Subset
  <2> QED
    BY <2>2, FS_CardinalityType
<1>3. \A k \in T : Cardinality(above(k)) < MaxData
  BY DEF Trimmed
<1>4. f \in [T -> 0 .. MaxData - 1]
  <2>1. \A k \in T : Cardinality(above(k)) \in 0 .. MaxData - 1
    <3> SUFFICES ASSUME NEW k \in T PROVE Cardinality(above(k)) \in 0 .. MaxData - 1
      OBVIOUS
    <3> DEFINE n == Cardinality(above(k))
    <3>1. n \in Nat /\ n < MaxData
      BY <1>1, <1>2, <1>3
    <3> HIDE DEF n
    <3>2. n \in 0 .. MaxData - 1
      BY <3>1, <1>1
    <3> QED
      BY <3>2 DEF n
  <2> QED
    BY <2>1
<1>5. ASSUME NEW k \in T, NEW l \in T, k < l PROVE f[k] # f[l]
  <2>0. k \in Nat /\ l \in Nat /\ l \in S
    BY <1>1
  <2>1. \A m \in S : m > l => m > k
    BY <1>1, <1>5, <2>0
  <2>2. above(l) \in SUBSET above(k) /\ l \in above(k)
    BY <1>5, <2>0, <2>1
  <2>3. l \notin above(l)
    BY <2>0
  <2>4. IsFiniteSet(above(k))
    BY <1>1, <1>2
  <2>5. Cardinality(above(k)) # Cardinality(above(l))
    BY <2>2, <2>3, <2>4, FS_Subset
  <2> QED
    BY <2>5
<1>6. \A k, l \in T : f[k] = f[l] => k = l
  <2>1. T \subseteq Nat
    BY <1>1
  <2> HIDE DEF f, T
  <2> SUFFICES ASSUME NEW k \in T, NEW l \in T, f[k] = f[l] PROVE k = l
    OBVIOUS
  <2>2. k \in Nat /\ l \in Nat
    BY <2>1
  <2>3. ~ (k < l) /\ ~ (l < k)
    BY <1>5
  <2> QED
    BY <2>2, <2>3
<1>7. f \in Injection(T, 0 .. MaxData - 1)
  BY <1>4, <1>6 DEF Injection, IsInjective
<1>8. /\ IsFiniteSet(0 .. MaxData - 1)
      /\ Cardinality(0 .. MaxData - 1) = MaxData
  BY <1>1, FS_Interval
<1>9. IsFiniteSet(T) /\ Cardinality(T) <= MaxData
  BY <1>7, <1>8, FS_Injection
<1> QED
  BY <1>1, <1>9

\* What hosting a picture leaves: the store is in its limit, it knows no other key than
\* before and this one, and it has lost none without noting it as evicted.
Hosting(k) ==
  /\ ServerTypeOK' /\ IsFiniteSet(data') /\ Cardinality(data') <= MaxData
  /\ cached \subseteq cached' /\ cached' \subseteq cached \cup {k}
  /\ data \cup evicted \subseteq data' \cup evicted'
  /\ cached' \ cached \subseteq data' \cup evicted'

LEMMA StoreHosts ==
  ASSUME NEW k \in Keys, TypeOK, IsFiniteSet(data), Store(k)
  PROVE  Hosting(k)
<1>1. data \cup {k} \in SUBSET Keys /\ IsFiniteSet(data \cup {k})
  BY FS_AddElement DEF TypeOK, ServerTypeOK
<1>2. /\ data' \subseteq data \cup {k}
      /\ IsFiniteSet(data') /\ Cardinality(data') <= MaxData
  BY <1>1, TrimmedFits DEF Store
<1> QED
  BY <1>1, <1>2 DEF Hosting, Store, TypeOK, ServerTypeOK

LEMMA HostHosts ==
  ASSUME NEW k \in Keys, TypeOK, IsFiniteSet(data), HostImage(k) \/ HostPixmap(k)
  PROVE  /\ Hosting(k)
         /\ HostImage(k) /\ Drawable(k) => k \in cached'
         /\ HostPixmap(k) => k \in cached'
<1>1. CASE Store(k)
  BY <1>1, StoreHosts DEF Store
<1>2. CASE UNCHANGED serverVars
  <2>1. Hosting(k)
    BY <1>2 DEF Hosting, serverVars, TypeOK, ServerTypeOK
  <2> QED
    BY <1>1, <1>2, <2>1 DEF HostImage, HostPixmap, serverVars
<1> QED
  BY <1>1, <1>2 DEF HostImage, HostPixmap
-----------------------------------------------------------------------------
(* The steps.                                                              *)

LEMMA IInvInit == Init => IInv
<1> SUFFICES ASSUME Init PROVE IInv
  OBVIOUS
<1>1. DOMAIN waiting = {} /\ DOMAIN stream = {} /\ Len(stream) = 0
  BY DEF Init
<1>2. IsFiniteSet({}) /\ Cardinality({}) = 0
  BY FS_EmptySet
<1>3. TypeOK
  BY <1>1, <1>2, ImagesHostServerAssumption, ImageLoaderAssumption
  DEF Init, ServerInit, TypeOK, ServerTypeOK
<1>4. FiniteMessages
  BY <1>1, <1>2, ImageLoaderAssumption DEF Init, ServerInit, FiniteMessages
<1> QED
  BY <1>1, <1>3, <1>4
  DEF IInv, Init, ServerInit, Hosted, Stored, Waits, MissingAsked, AskerDrawsImage

\* A picture is hosted and named in the open message, or neither.
LEMMA DrawKeeps ==
  ASSUME NEW k \in Keys, IInv, DrawImage(k) \/ DrawPixmap(k)
  PROVE  IInv'
<1>1. Hosting(k)
  BY HostHosts DEF IInv, FiniteMessages, DrawImage, DrawPixmap
<1>2. open' \in {open, open \cup {k}} /\ open' \subseteq open \cup cached'
  BY HostHosts, <1>1 DEF IInv, FiniteMessages, DrawImage, DrawPixmap
<1>3. UNCHANGED <<stream, browserVars>>
  BY DEF DrawImage, DrawPixmap
<1>4. TypeOK'
  BY <1>1, <1>2, <1>3 DEF IInv, TypeOK, Hosting, browserVars
<1>5. FiniteMessages'
  BY <1>1, <1>2, <1>3, FS_AddElement DEF IInv, FiniteMessages, Hosting, browserVars
<1>6. Hosted'
  BY <1>1, <1>2, <1>3 DEF IInv, Hosted, Hosting, browserVars
<1>7. Stored'
  BY <1>1, <1>3 DEF IInv, Stored, Hosting, browserVars
<1>8. Waits' /\ MissingAsked' /\ AskerDrawsImage'
  BY <1>3 DEF IInv, Waits, MissingAsked, AskerDrawsImage, browserVars
<1> QED
  BY <1>4, <1>5, <1>6, <1>7, <1>8 DEF IInv

LEMMA FlushKeeps ==
  ASSUME IInv, Flush
  PROVE  IInv'
<1>1. /\ stream \in Seq(SUBSET Keys) /\ open \in SUBSET Keys
      /\ stream' = Append(stream, open) /\ open' = {}
      /\ received + Len(stream) < MaxMessages
      /\ UNCHANGED <<serverVars, browserVars>>
  BY DEF IInv, TypeOK, Flush
<1>2. /\ stream' \in Seq(SUBSET Keys) /\ Len(stream') = Len(stream) + 1
      /\ \A i \in DOMAIN stream' : i \in DOMAIN stream \/ stream'[i] = open
      /\ \A i \in DOMAIN stream : stream'[i] = stream[i]
  BY <1>1
<1>3. Len(stream) \in Nat /\ received \in Nat /\ MaxMessages \in Nat
  BY <1>1, ImageLoaderAssumption DEF IInv, TypeOK
<1>4. TypeOK'
  BY <1>1, <1>2 DEF IInv, TypeOK, ServerTypeOK, serverVars, browserVars
<1>5. FiniteMessages'
  <2>1. received' + Len(stream') <= MaxMessages
    BY <1>1, <1>2, <1>3 DEF browserVars
  <2> QED
    BY <2>1, <1>1, <1>2, FS_EmptySet DEF IInv, FiniteMessages, serverVars
<1>6. Hosted'
  BY <1>1, <1>2 DEF IInv, Hosted, serverVars, browserVars
<1>7. Stored' /\ Waits' /\ MissingAsked' /\ AskerDrawsImage'
  BY <1>1 DEF IInv, Stored, Waits, MissingAsked, AskerDrawsImage, serverVars, browserVars
<1> QED
  BY <1>4, <1>5, <1>6, <1>7 DEF IInv

\* A request that is answered is out of asked: the picture need not be there any more.
LEMMA AnswersKeep ==
  ASSUME NEW k \in Keys, IInv, Answer(k) \/ AnswerBadRequest(k) \/ LoseAnswer(k)
  PROVE  IInv'
<1>1. /\ asked' \subseteq asked /\ loading' \subseteq Keys /\ failing' \subseteq Keys
      /\ \/ UNCHANGED <<data, asked>>
         \/ data' \in {data, data \ {k}} /\ k \in asked /\ asked' = asked \ {k}
      /\ UNCHANGED <<cached, evicted, open, stream, received, images, waiting, executed,
                     asker, failed, missing>>
  BY DEF Answer, SendImage, AnswerBadRequest, LoseAnswer, serverVars, IInv, TypeOK
<1>2. IsFiniteSet(data') /\ Cardinality(data') <= MaxData
  <2>1. IsFiniteSet(data) /\ Cardinality(data) <= MaxData /\ data' \in SUBSET data
    BY <1>1 DEF IInv, FiniteMessages, TypeOK
  <2>2. IsFiniteSet(data') /\ Cardinality(data') <= Cardinality(data)
    BY <2>1, FS_Subset
  <2>3. Cardinality(data') \in Nat /\ Cardinality(data) \in Nat /\ MaxData \in Nat
    BY <2>1, <2>2, FS_CardinalityType, ImagesHostServerAssumption
  <2> QED
    BY <2>1, <2>2, <2>3
<1>3. TypeOK'
  BY <1>1, <1>2 DEF IInv, TypeOK, ServerTypeOK
<1>4. FiniteMessages' /\ Hosted'
  BY <1>1, <1>2 DEF IInv, FiniteMessages, Hosted
<1>5. Stored'
  BY <1>1 DEF IInv, Stored
<1>6. Waits' /\ MissingAsked' /\ AskerDrawsImage'
  BY <1>1 DEF IInv, Waits, MissingAsked, AskerDrawsImage
<1> QED
  BY <1>3, <1>4, <1>5, <1>6 DEF IInv

\* A message that comes in asks for its fresh pictures and waits for them, or has none
\* and is drawn at once, with pictures that earlier messages asked for.
LEMMA ReceiveKeeps ==
  ASSUME IInv, Receive
  PROVE  IInv'
<1> DEFINE n == received + 1
           keys == Head(stream)
           fresh == Fresh(keys)
<1>1. /\ stream \in Seq(SUBSET Keys) /\ stream # <<>> /\ stream' = Tail(stream)
      /\ received \in Nat /\ received' = n /\ MaxMessages \in Nat
      /\ images' = [k \in Keys |-> IF k \in fresh THEN "holding" ELSE images[k]]
      /\ asked' = asked \cup fresh
      /\ asker' = [k \in Keys |-> IF k \in fresh THEN n ELSE asker[k]]
      /\ UNCHANGED <<serverVars, open, loading, failing, failed>>
  BY ImageLoaderAssumption DEF Receive, IInv, TypeOK
<1>2. /\ Tail(stream) \in Seq(SUBSET Keys) /\ Len(Tail(stream)) = Len(stream) - 1
      /\ keys \in SUBSET Keys /\ keys = stream[1] /\ 1 \in DOMAIN stream
      /\ \A i \in DOMAIN Tail(stream) : /\ i + 1 \in DOMAIN stream
                                        /\ Tail(stream)[i] = stream[i + 1]
  BY <1>1
<1>3. fresh \in SUBSET keys /\ \A k \in keys : k \in fresh <=> images[k] = "none"
  BY DEF Fresh
<1>4. /\ IsFiniteSet(keys) /\ keys \subseteq cached
      /\ IsFiniteSet(fresh) /\ Cardinality(fresh) \in Nat
  BY <1>2, <1>3, FS_Subset, FS_CardinalityType DEF IInv, FiniteMessages, Hosted
<1>5. received + Len(stream) <= MaxMessages /\ Len(stream) \in Nat /\ Len(stream) > 0
  BY <1>1 DEF IInv, FiniteMessages
<1>6. n \in 1 .. MaxMessages /\ n \in 1 .. n /\ 1 .. received \subseteq 1 .. n
      /\ 0 .. received \subseteq 0 .. n
  BY <1>1, <1>5
<1>7. /\ images \in [Keys -> {"none", "holding", "loaded"}]
      /\ asker \in [Keys -> 0 .. received]
      /\ DOMAIN waiting \subseteq 1 .. received
  BY DEF IInv, TypeOK
<1>8. \/ /\ fresh = {} /\ UNCHANGED waiting
         /\ executed' = executed \cup {n}
         /\ missing' = missing \cup {<<n, k>> : k \in {l \in keys : images[l] # "loaded"}}
      \/ /\ waiting' = [m \in DOMAIN waiting \cup {n} |->
                IF m = n THEN [keys |-> keys, own |-> fresh, num |-> Cardinality(fresh)]
                ELSE waiting[m]]
         /\ UNCHANGED <<executed, missing>>
  BY <1>1 DEF Receive, Execute
<1> HIDE DEF n, keys, fresh
<1>9. n \notin DOMAIN waiting /\ n \in Nat /\ n > received
  BY <1>1, <1>7 DEF n
<1>10. \A k \in Keys : /\ images[k] # "none" => images'[k] = images[k] /\ asker'[k] = asker[k]
                       /\ images'[k] = "none" => images[k] = "none"
                       /\ images'[k] = images[k] \/ k \in fresh
  BY <1>1, <1>2, <1>3, <1>7
<1>11. TypeOK'
  <2>1. /\ stream' \in Seq(SUBSET Keys) /\ received' \in 0 .. MaxMessages
        /\ images' \in [Keys -> {"none", "holding", "loaded"}]
        /\ asked' \subseteq Keys /\ asker' \in [Keys -> 0 .. received']
    <3>1. stream' \in Seq(SUBSET Keys) /\ received' \in 0 .. MaxMessages
      BY <1>1, <1>2, <1>6
    <3>2. images' \in [Keys -> {"none", "holding", "loaded"}]
      BY <1>1, <1>7
    <3>3. asked' \subseteq Keys
      BY <1>1, <1>2, <1>3 DEF IInv, TypeOK
    <3>4. n \in 0 .. n
      BY <1>9
    <3>5. \A k \in Keys : (IF k \in fresh THEN n ELSE asker[k]) \in 0 .. n
      BY <1>6, <1>7, <3>4
    <3>6. asker' \in [Keys -> 0 .. n] /\ received' = n
      BY <1>1, <3>5
    <3> QED
      BY <3>1, <3>2, <3>3, <3>6
  <2>2. /\ DOMAIN waiting' \subseteq 1 .. received'
        /\ executed' \subseteq 1 .. received'
        /\ missing' \subseteq (1 .. received') \X Keys
    <3>1. executed \subseteq 1 .. received /\ missing \subseteq (1 .. received) \X Keys
      BY DEF IInv, TypeOK
    <3>2. received' = n
      BY <1>1
    <3>3. DOMAIN waiting' \subseteq 1 .. n /\ executed' \subseteq 1 .. n
      BY <1>6, <1>7, <1>8, <3>1
    <3>4. missing' \subseteq (1 .. n) \X Keys
      BY <1>2, <1>6, <1>8, <3>1
    <3> QED
      BY <3>2, <3>3, <3>4
  <2>3. \A m \in DOMAIN waiting' : waiting'[m] \in Batch
    BY <1>2, <1>3, <1>4, <1>8 DEF IInv, TypeOK, Batch
  <2> QED
    BY <1>1, <2>1, <2>2, <2>3 DEF IInv, TypeOK, ServerTypeOK, serverVars
<1>12. FiniteMessages'
  <2>1. received' + Len(stream') <= MaxMessages
    BY <1>1, <1>2, <1>5 DEF n
  <2> QED
    BY <1>1, <1>2, <2>1 DEF IInv, FiniteMessages, serverVars
<1>13. Hosted'
  BY <1>1, <1>2, <1>3, <1>4, <1>10 DEF IInv, Hosted, serverVars
<1>14. Stored'
  <2>1. \A k \in fresh : k \in Keys /\ images[k] = "none" /\ images'[k] = "holding"
    BY <1>1, <1>2, <1>3
  <2>2. cached \subseteq Keys /\ asked \subseteq Keys
    BY DEF IInv, TypeOK, ServerTypeOK
  <2> QED
    BY <1>1, <1>10, <2>1, <2>2 DEF IInv, Stored, serverVars
<1>15. Waits'
  <2> SUFFICES ASSUME NEW m \in DOMAIN waiting'
               PROVE  /\ IsFiniteSet(waiting'[m].own)
                      /\ waiting'[m].num = Cardinality(waiting'[m].own)
                      /\ waiting'[m].own \subseteq waiting'[m].keys
                      /\ \A k \in waiting'[m].keys :
                           /\ images'[k] # "none" /\ asker'[k] <= m
                           /\ asker'[k] = m => \/ k \in waiting'[m].own
                                               \/ images'[k] = "loaded" \/ k \in failed'
    BY DEF Waits
  <2>1. CASE m \in DOMAIN waiting
    <3>1. waiting'[m] = waiting[m] /\ waiting[m].keys \subseteq Keys
      BY <1>8, <1>9, <2>1 DEF IInv, TypeOK, Batch
    <3> QED
      BY <1>1, <1>10, <2>1, <3>1 DEF IInv, Waits
  <2>2. CASE m = n /\ m \notin DOMAIN waiting
    <3>1. waiting'[m] = [keys |-> keys, own |-> fresh, num |-> Cardinality(fresh)]
      BY <1>8, <2>2
    <3>2. ASSUME NEW k \in keys
          PROVE  /\ images'[k] # "none" /\ asker'[k] <= n
                 /\ asker'[k] = n => k \in fresh
      <4>1. CASE k \in fresh
        BY <1>1, <1>2, <1>9, <4>1
      <4>2. CASE k \notin fresh
        <5>1. asker'[k] = asker[k] /\ asker[k] \in 0 .. received
          BY <1>1, <1>2, <1>7, <4>2
        <5>2. asker[k] < n
          BY <1>1, <1>9, <5>1
        <5>3. asker[k] \in Int /\ n \in Int
          BY <1>9, <5>1
        <5> QED
          BY <1>2, <1>3, <1>10, <4>2, <5>1, <5>2, <5>3
      <4> QED
        BY <4>1, <4>2
    <3> QED
      BY <1>3, <1>4, <2>2, <3>1, <3>2
  <2> QED
    BY <1>8, <2>1, <2>2
<1>16. MissingAsked' /\ AskerDrawsImage'
  <2> SUFFICES ASSUME NEW p \in missing'
               PROVE  /\ images'[p[2]] # "none"
                      /\ p[2] \in failed' \/ asker'[p[2]] < p[1]
    BY DEF MissingAsked, AskerDrawsImage
  <2>1. CASE p \in missing
    <3>1. p[2] \in Keys
      BY <2>1 DEF IInv, TypeOK
    <3> QED
      BY <1>1, <1>10, <2>1, <3>1 DEF IInv, MissingAsked, AskerDrawsImage
  <2>2. CASE p \notin missing
    <3>1. fresh = {} /\ p[1] = n /\ p[2] \in keys
      BY <1>8, <2>2
    <3>2. asker'[p[2]] = asker[p[2]] /\ asker[p[2]] \in 0 .. received
      BY <1>1, <1>2, <1>7, <3>1
    <3>3. images'[p[2]] # "none"
      BY <1>2, <1>3, <1>10, <3>1
    <3> QED
      BY <1>1, <1>9, <3>1, <3>2, <3>3
  <2> QED
    BY <2>1, <2>2
<1> QED
  BY <1>11, <1>12, <1>13, <1>14, <1>15, <1>16 DEF IInv

\* The delayer of message n is called for one of its pictures k, which has loaded
\* or failed: the message goes on waiting, or it waits for nothing any more.
LEMMA DelayerKeeps ==
  ASSUME NEW n \in DOMAIN waiting, NEW k \in waiting[n].own, NEW imgs, IInv,
         Delayer(n, k, imgs), images' = imgs,
         imgs \in [Keys -> {"none", "holding", "loaded"}],
         \A l \in Keys : images[l] # "none" => imgs[l] # "none",
         \A l \in Keys : images[l] = "loaded" => imgs[l] = "loaded",
         failed \subseteq failed', imgs[k] = "loaded" \/ k \in failed',
         UNCHANGED <<received, asker>>
  PROVE  /\ DOMAIN waiting' \subseteq 1 .. received'
         /\ \A m \in DOMAIN waiting' : waiting'[m] \in Batch
         /\ executed' \subseteq 1 .. received'
         /\ missing' \subseteq (1 .. received') \X Keys
         /\ Waits' /\ MissingAsked' /\ AskerDrawsImage'
<1> DEFINE left == [waiting[n] EXCEPT !.num = @ - 1, !.own = @ \ {k}]
<1>1. /\ waiting[n] \in Batch /\ waiting[n].keys \subseteq Keys
      /\ waiting[n].own \subseteq waiting[n].keys
      /\ IsFiniteSet(waiting[n].own) /\ waiting[n].num = Cardinality(waiting[n].own)
      /\ n \in 1 .. received /\ received \in Nat
      /\ asker \in [Keys -> 0 .. received]
  BY DEF IInv, TypeOK, Waits, Batch
<1>2. /\ left.keys = waiting[n].keys /\ left.own = waiting[n].own \ {k}
      /\ left.num = waiting[n].num - 1
  BY <1>1 DEF Batch
<1>3. /\ left.own \subseteq left.keys
      /\ IsFiniteSet(left.own) /\ left.num = Cardinality(left.own) /\ left.num \in Nat
  <2>1. k \in waiting[n].own
    OBVIOUS
  <2>2. /\ IsFiniteSet(waiting[n].own \ {k})
        /\ Cardinality(waiting[n].own \ {k}) = Cardinality(waiting[n].own) - 1
    BY <1>1, <2>1, FS_RemoveElement
  <2>3. Cardinality(waiting[n].own \ {k}) \in Nat
    BY <2>2, FS_CardinalityType
  <2> HIDE DEF left
  <2> QED
    BY <1>1, <1>2, <2>2, <2>3
<1>4. left \in Batch
  <2> DEFINE own == waiting[n].own \ {k}
             num == waiting[n].num - 1
  <2>1. own \in SUBSET Keys /\ num \in Nat
    BY <1>1, <1>2, <1>3
  <2>2. left = [waiting[n] EXCEPT !.num = num, !.own = own]
    OBVIOUS
  <2> HIDE DEF own, num, left
  <2> QED
    BY <1>1, <2>1, <2>2 DEF Batch
<1>5. \A l \in left.keys :
        /\ imgs[l] # "none" /\ asker[l] <= n
        /\ asker[l] = n => l \in left.own \/ imgs[l] = "loaded" \/ l \in failed'
  BY <1>1, <1>2 DEF IInv, Waits
<1>6. ASSUME NEW m \in DOMAIN waiting
      PROVE  /\ IsFiniteSet(waiting[m].own) /\ waiting[m].num = Cardinality(waiting[m].own)
             /\ waiting[m].own \subseteq waiting[m].keys
             /\ \A l \in waiting[m].keys :
                  /\ imgs[l] # "none" /\ asker[l] <= m
                  /\ asker[l] = m => \/ l \in waiting[m].own
                                     \/ imgs[l] = "loaded" \/ l \in failed'
  <2>1. waiting[m].keys \subseteq Keys
    BY DEF IInv, TypeOK, Batch
  <2> QED
    BY <2>1 DEF IInv, Waits
<1>7. \A p \in missing : /\ p[2] \in Keys /\ imgs[p[2]] # "none"
                         /\ p[2] \in failed' \/ asker[p[2]] < p[1]
  BY DEF IInv, TypeOK, MissingAsked, AskerDrawsImage
<1>8. CASE left.num = 0
  <2>1. /\ executed' = executed \cup {n}
        /\ missing' = missing \cup {<<n, l>> : l \in {j \in left.keys : imgs[j] # "loaded"}}
        /\ waiting' = [m \in DOMAIN waiting \ {n} |-> waiting[m]]
    BY <1>8 DEF Delayer, Execute
  <2>2. left.own = {}
    BY <1>3, <1>8, FS_EmptySet
  <2> HIDE DEF left
  <2>3. Waits'
    BY <1>6, <2>1 DEF Waits
  <2>4. ASSUME NEW l \in left.keys, imgs[l] # "loaded"
        PROVE  imgs[l] # "none" /\ (l \in failed' \/ asker[l] < n)
    <3>1. l \in Keys /\ asker[l] \in Nat /\ n \in Nat
      BY <1>1, <1>2
    <3> QED
      BY <1>5, <2>2, <2>4, <3>1
  <2>5. \A p \in missing' : imgs[p[2]] # "none" /\ (p[2] \in failed' \/ asker[p[2]] < p[1])
    BY <1>7, <2>1, <2>4
  <2>6. MissingAsked' /\ AskerDrawsImage'
    BY <2>5 DEF MissingAsked, AskerDrawsImage
  <2>7. /\ DOMAIN waiting' \subseteq 1 .. received'
        /\ \A m \in DOMAIN waiting' : waiting'[m] \in Batch
    BY <2>1 DEF IInv, TypeOK
  <2>8. /\ executed' \subseteq 1 .. received'
        /\ missing' \subseteq (1 .. received') \X Keys
    <3>1. executed \subseteq 1 .. received /\ missing \subseteq (1 .. received) \X Keys
      BY DEF IInv, TypeOK
    <3>2. {<<n, l>> : l \in {j \in left.keys : imgs[j] # "loaded"}}
            \subseteq (1 .. received) \X Keys
      BY <1>1, <1>2
    <3> QED
      BY <1>1, <2>1, <3>1, <3>2
  <2> QED
    BY <2>3, <2>6, <2>7, <2>8
<1>9. CASE left.num # 0
  <2>1. /\ waiting' = [waiting EXCEPT ![n] = left]
        /\ UNCHANGED <<executed, missing>>
    BY <1>9 DEF Delayer
  <2> HIDE DEF left
  <2>2. /\ DOMAIN waiting' = DOMAIN waiting /\ waiting'[n] = left
        /\ \A m \in DOMAIN waiting \ {n} : waiting'[m] = waiting[m]
    BY <2>1
  <2>3. Waits'
    BY <1>3, <1>5, <1>6, <2>2 DEF Waits
  <2>4. MissingAsked' /\ AskerDrawsImage'
    BY <1>7, <2>1 DEF MissingAsked, AskerDrawsImage
  <2>5. \A m \in DOMAIN waiting' : waiting'[m] \in Batch
    BY <1>4, <2>2 DEF IInv, TypeOK
  <2>6. /\ DOMAIN waiting' \subseteq 1 .. received'
        /\ executed' \subseteq 1 .. received'
        /\ missing' \subseteq (1 .. received') \X Keys
    BY <2>1, <2>2 DEF IInv, TypeOK
  <2> QED
    BY <2>3, <2>4, <2>5, <2>6
<1> QED
  BY <1>8, <1>9

\* An Object image that has loaded or failed counts down the message that made it.
LEMMA EndOfLoadingKeeps ==
  ASSUME NEW k \in Keys, IInv, OnLoad(k) \/ OnError(k)
  PROVE  IInv'
<1>1. images \in [Keys -> {"none", "holding", "loaded"}]
  BY DEF IInv, TypeOK
<1>2. /\ loading' \subseteq Keys /\ failing' \subseteq Keys
      /\ failed \subseteq failed' /\ failed' \subseteq Keys
      /\ UNCHANGED <<serverVars, open, stream, received, asked, asker>>
  BY DEF OnLoad, OnError, IInv, TypeOK
<1>3. /\ images' \in [Keys -> {"none", "holding", "loaded"}]
      /\ \A l \in Keys : images[l] # "none" => images'[l] # "none"
      /\ \A l \in Keys : images[l] = "loaded" => images'[l] = "loaded"
      /\ images'[k] = "loaded" \/ k \in failed'
  BY <1>1 DEF OnLoad, OnError
<1>4. PICK n \in DOMAIN waiting : k \in waiting[n].own /\ Delayer(n, k, images')
  BY DEF OnLoad, OnError
<1>5. /\ DOMAIN waiting' \subseteq 1 .. received'
      /\ \A m \in DOMAIN waiting' : waiting'[m] \in Batch
      /\ executed' \subseteq 1 .. received'
      /\ missing' \subseteq (1 .. received') \X Keys
      /\ Waits' /\ MissingAsked' /\ AskerDrawsImage'
  BY <1>2, <1>3, <1>4, DelayerKeeps
<1>6. TypeOK'
  BY <1>2, <1>3, <1>5 DEF IInv, TypeOK, ServerTypeOK, serverVars
<1>7. images[k] # "none"
  BY <1>4 DEF IInv, Waits
<1>8. FiniteMessages'
  BY <1>2 DEF IInv, FiniteMessages, serverVars
<1>9. \A l \in Keys : images'[l] # "none" <=> images[l] # "none"
  BY <1>1, <1>3, <1>7 DEF OnLoad, OnError
<1>10. Hosted'
  BY <1>2, <1>9 DEF IInv, Hosted, serverVars
<1>11. Stored'
  <2>1. cached \subseteq Keys /\ asked \subseteq Keys
    BY DEF IInv, TypeOK, ServerTypeOK
  <2> QED
    BY <1>2, <1>9, <2>1 DEF IInv, Stored, serverVars
<1> QED
  BY <1>5, <1>6, <1>8, <1>10, <1>11 DEF IInv

LEMMA IInvStep == IInv /\ [Next]_vars => IInv'
<1> SUFFICES ASSUME IInv, [Next]_vars PROVE IInv'
  OBVIOUS
<1>1. CASE UNCHANGED vars
  BY <1>1 DEF vars, serverVars, browserVars, IInv, TypeOK, ServerTypeOK, FiniteMessages,
              Hosted, Stored, Waits, MissingAsked, AskerDrawsImage
<1> QED
  BY <1>1, DrawKeeps, FlushKeeps, AnswersKeep, ReceiveKeeps, EndOfLoadingKeeps DEF Next

LEMMA Invariance == Spec => []IInv
BY IInvInit, IInvStep, PTL DEF Spec

-----------------------------------------------------------------------------
(* The theorems.                                                           *)

\* The variables keep their types, and m_data its limit, for any pictures and messages.
THEOREM LoaderTypes == Spec => []TypeOK
<1>1. IInv => TypeOK
  BY DEF IInv
<1> QED
  BY <1>1, Invariance, PTL

\* A request finds its picture, which is given out once only, unless the limit took it.
THEOREM RequestsAreServed == Spec => []RequestServed
<1>1. IInv => RequestServed
  BY DEF IInv, TypeOK, Hosted, Stored, RequestServed
<1> QED
  BY <1>1, Invariance, PTL

\* A message is drawn with the pictures that it asked for and that have not failed,
\* in whatever order the pictures and the other messages come.
THEOREM AskersDraw == Spec => []AskerDrawsImage
<1>1. IInv => AskerDrawsImage
  BY DEF IInv
<1> QED
  BY <1>1, Invariance, PTL

=============================================================================
