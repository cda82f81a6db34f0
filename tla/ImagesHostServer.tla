-------------------------- MODULE ImagesHostServer --------------------------
(***************************************************************************)
(* The image store of the injected library (src/src/lib/paint/             *)
(* ImagesHostServer.cpp).  The GUI thread hosts the pictures that a        *)
(* paintEvent draws and gets a key, a hash of the picture's bytes; the     *)
(* browser fetches the picture of a key over HTTP from the websocket       *)
(* thread, once: m_data forgets a picture that was sent, m_cached never    *)
(* forgets its key.                                                        *)
(*                                                                         *)
(* Every operation runs under m_sem from end to end, except the encoding   *)
(* and writing of a picture that m_data has already given up.  The request *)
(* "/rm?i=k" changes nothing: readClient hands removeCache the path "/rm", *)
(* which is no picture's key, in place of k.                               *)
(***************************************************************************)
EXTENDS Naturals, FiniteSets

CONSTANTS
  Keys,         \* hashes of pictures, in the order of QMap
  Transparent,  \* hashes of the pictures all of whose pixels are transparent
  MaxData       \* number of pictures m_data holds at most (1000)

ASSUME ImagesHostServerAssumption ==
  /\ Keys \subseteq Nat
  /\ Transparent \subseteq Keys
  /\ MaxData \in Nat

VARIABLES
  cached,   \* m_cached
  data,     \* the keys of m_data
  evicted   \* history: keys removed from m_data to keep it in its limit

serverVars == <<cached, data, evicted>>

ServerTypeOK ==
  /\ cached \subseteq Keys
  /\ data \subseteq Keys
  /\ evicted \subseteq Keys

ServerInit ==
  /\ cached = {}
  /\ data = {}
  /\ evicted = {}

\* What is left of m_data when its first keys are removed until MaxData remain.
Trimmed(s) == {k \in s : Cardinality({l \in s : l > k}) < MaxData}

\* Mutant: the limit is tested before the insertion.
StoreMutant(k) ==
  /\ cached' = cached \cup {k}
  /\ data' = Trimmed(data) \cup {k}
  /\ evicted' = evicted \cup (data \ data')

\* The tail that both overloads of hostImage share.
Store(k) ==
  /\ cached' = cached \cup {k}
  /\ data' = Trimmed(data \cup {k})
  /\ evicted' = evicted \cup ((data \cup {k}) \ data')

\* hostImage(QImage) answers no key for a transparent picture it does not know yet:
\* there is nothing to draw.
Drawable(k) == k \in cached \/ k \notin Transparent

HostImage(k) ==
  IF k \notin cached /\ Drawable(k) THEN Store(k) ELSE UNCHANGED serverVars

HostPixmap(k) ==
  IF k \notin cached THEN Store(k) ELSE UNCHANGED serverVars

\* sendImage: the picture leaves m_data before it is written to the socket.
SendImage(k) ==
  /\ data' = data \ {k}
  /\ UNCHANGED <<cached, evicted>>

=============================================================================
