------------------------- MODULE EventBridgeProofs -------------------------
(* Theorems about EventBridge, for any tree of widgets and any number of   *)
(* posted events: what the event dispatcher tells the widgets that the     *)
(* mouse leaves and enters, and which events outlive the hiding of their   *)
(* widget.                                                                 *)
EXTENDS EventBridge, QueuesProofs, TLAPS

-----------------------------------------------------------------------------
(* The way outward from a widget.  There is one, since no widget is above  *)
(* itself; so the recursive Outward exists and is what it says.            *)

\* In a set of widgets there is one whose parent is not in it.
LEMMA Outermost ==
  ASSUME NEW S, S \subseteq Widgets, S # {}
  PROVE  \E w \in S : Parent[w] \notin S
BY EventBridgeAssumption

\* The next widget on the way, if there is one.
Outer(w, stop) == IF Parent[w] \in {NoWidget, stop} THEN NoWidget ELSE Parent[w]

LEMMA OuterType ==
  ASSUME NEW w \in Widgets, NEW stop
  PROVE  /\ Outer(w, stop) \in Widgets \cup {NoWidget}
         /\ Outer(w, stop) # NoWidget => Outer(w, stop) = Parent[w]
BY EventBridgeAssumption DEF Outer

\* A way is a list of widgets, each the next of the one before.
IsWay(p, w, stop) ==
  /\ p \in Seq(Widgets) /\ Len(p) \in Nat \ {0}
  /\ p[1] = w
  /\ \A i \in 1..(Len(p) - 1) : Outer(p[i], stop) = p[i + 1]
  /\ Outer(p[Len(p)], stop) = NoWidget

\* A way is one step and the way from there.
LEMMA WayOn ==
  ASSUME NEW stop, NEW w \in Widgets, NEW q,
         IF Outer(w, stop) = NoWidget THEN q = <<>> ELSE IsWay(q, Outer(w, stop), stop)
  PROVE  IsWay(<<w>> \o q, w, stop)
<1> DEFINE p == <<w>> \o q
<1>1. q \in Seq(Widgets) /\ Len(q) \in Nat /\ (Outer(w, stop) # NoWidget => Len(q) # 0)
  <2>1. CASE Outer(w, stop) = NoWidget
    <3>1. q = <<>>
      BY <2>1
    <3> QED BY <2>1, <3>1
  <2>2. CASE Outer(w, stop) # NoWidget
    <3>1. IsWay(q, Outer(w, stop), stop)
      BY <2>2
    <3> QED BY <3>1 DEF IsWay
  <2> QED BY <2>1, <2>2
<1>2. /\ p \in Seq(Widgets) /\ Len(p) = Len(q) + 1
      /\ p[1] = w /\ \A i \in 1..Len(q) : p[i + 1] = q[i]
  BY <1>1
<1>3. CASE Outer(w, stop) = NoWidget
  <2>1. q = <<>> /\ Len(q) = 0
    BY <1>3
  <2>2. Len(p) = 1 /\ p[Len(p)] = w
    BY <1>2, <2>1
  <2>3. \A i \in 1..(Len(p) - 1) : FALSE
    BY <2>2
  <2> QED BY <1>2, <1>3, <2>2, <2>3 DEF IsWay
<1>4. CASE Outer(w, stop) # NoWidget
  <2> HIDE DEF p
  <2>1. ASSUME NEW i \in 1..(Len(p) - 1) PROVE Outer(p[i], stop) = p[i + 1]
    <3>1. CASE i = 1
      <4>1. q[1] = Outer(w, stop) /\ 1 \in 1..Len(q)
        BY <1>1, <1>4 DEF IsWay
      <4> QED BY <1>2, <3>1, <4>1
    <3>2. CASE i # 1
      <4>1. i - 1 \in 1..(Len(q) - 1) /\ i - 1 \in 1..Len(q) /\ i \in 1..Len(q) /\ (i - 1) + 1 = i
        BY <1>1, <1>2, <3>2
      <4>2. p[i] = q[i - 1] /\ p[i + 1] = q[i]
        BY <1>2, <4>1
      <4>3. Outer(q[i - 1], stop) = q[i]
        BY <1>4, <4>1 DEF IsWay
      <4> QED BY <4>2, <4>3
    <3> QED BY <3>1, <3>2
  <2>2. p[Len(p)] = q[Len(q)]
    BY <1>1, <1>2, <1>4
  <2>3. Outer(p[Len(p)], stop) = NoWidget
    BY <1>4, <2>2 DEF IsWay
  <2> QED BY <1>1, <1>2, <2>1, <2>3 DEF IsWay, p
<1> QED BY <1>3, <1>4

LEMMA WayBack ==
  ASSUME NEW stop, NEW w \in Widgets, NEW p, IsWay(p, w, stop)
  PROVE  \E q : /\ p = <<w>> \o q
                /\ IF Outer(w, stop) = NoWidget THEN q = <<>> ELSE IsWay(q, Outer(w, stop), stop)
<1> DEFINE q == Tail(p)
<1>0. p \in Seq(Widgets) /\ Len(p) \in Nat \ {0} /\ p[1] = w /\ p # <<>>
  BY DEF IsWay
<1>1. /\ q \in Seq(Widgets) /\ Len(q) = Len(p) - 1 /\ Len(q) \in Nat
      /\ \A i \in 1..Len(q) : q[i] = p[i + 1]
  BY <1>0
<1>2. p = <<w>> \o q
  <2>1. /\ <<w>> \o q \in Seq(Widgets) /\ Len(<<w>> \o q) = Len(p)
        /\ (<<w>> \o q)[1] = w /\ \A i \in 1..Len(q) : (<<w>> \o q)[i + 1] = q[i]
    BY <1>0, <1>1
  <2>2. ASSUME NEW i \in 1..Len(p) PROVE p[i] = (<<w>> \o q)[i]
    <3>1. CASE i = 1
      BY <1>0, <2>1, <3>1
    <3>2. CASE i # 1
      <4>1. i - 1 \in 1..Len(q) /\ (i - 1) + 1 = i
        BY <1>0, <1>1, <3>2
      <4> HIDE DEF q
      <4> QED BY <1>1, <2>1, <4>1
    <3> QED BY <3>1, <3>2
  <2> HIDE DEF q
  <2> QED BY <1>0, <2>1, <2>2, SeqEqual
<1>3. CASE Outer(w, stop) = NoWidget
  <2>1. Len(p) = 1
    <3> SUFFICES ASSUME Len(p) # 1 PROVE FALSE
      OBVIOUS
    <3>1. 1 \in 1..(Len(p) - 1) /\ 1 + 1 = 2 /\ 2 \in 1..Len(p)
      BY <1>0
    <3>2. p[2] = NoWidget /\ p[2] \in Widgets
      BY <1>0, <1>3, <3>1 DEF IsWay
    <3> QED BY <3>2, EventBridgeAssumption
  <2>2. q = <<>>
    <3>1. Len(q) = 0
      BY <1>1, <2>1
    <3> HIDE DEF q
    <3> QED BY <1>1, <3>1, EmptySeq
  <2> QED BY <1>2, <1>3, <2>2
<1>4. CASE Outer(w, stop) # NoWidget
  <2>1. Len(p) # 1
    BY <1>0, <1>4 DEF IsWay
  <2>2. Len(q) # 0 /\ 1 \in 1..Len(q) /\ Len(q) \in 1..Len(q) /\ Len(q) + 1 = Len(p) /\ 1 \in 1..(Len(p) - 1)
    BY <1>0, <1>1, <2>1
  <2>3. q[1] = Outer(w, stop)
    BY <1>0, <1>1, <2>2 DEF IsWay
  <2>4. q[Len(q)] = p[Len(p)]
    BY <1>1, <2>2
  <2>5. ASSUME NEW i \in 1..(Len(q) - 1) PROVE Outer(q[i], stop) = q[i + 1]
    <3>1. i \in 1..Len(q) /\ i + 1 \in 1..Len(q) /\ i + 1 \in 1..(Len(p) - 1)
      BY <1>0, <1>1
    <3> HIDE DEF q
    <3> QED BY <1>1, <3>1 DEF IsWay
  <2>6. IsWay(q, Outer(w, stop), stop)
    <3> HIDE DEF q
    <3> QED BY <1>1, <2>2, <2>3, <2>4, <2>5 DEF IsWay
  <2> QED BY <1>2, <1>4, <2>6
<1> QED BY <1>3, <1>4

\* There is exactly one way.
LEMMA OneWay ==
  ASSUME NEW stop, NEW w \in Widgets
  PROVE  /\ \E p : IsWay(p, w, stop)
         /\ \A p, q : IsWay(p, w, stop) /\ IsWay(q, w, stop) => p = q
<1> DEFINE Good(v) == /\ \E p : IsWay(p, v, stop)
                      /\ \A p, q : IsWay(p, v, stop) /\ IsWay(q, v, stop) => p = q
           S == {v \in Widgets : ~ Good(v)}
<1> SUFFICES ASSUME S # {} PROVE FALSE
  OBVIOUS
<1>1. PICK v \in S : Parent[v] \notin S
  <2> HIDE DEF Good
  <2> QED BY Outermost
<1> DEFINE u == Outer(v, stop)
<1>2. v \in Widgets /\ (u = NoWidget \/ (u \in Widgets /\ Good(u)))
  <2> HIDE DEF Good
  <2> QED BY <1>1, OuterType
<1>3. \E p : IsWay(p, v, stop)
  <2>1. CASE u = NoWidget
    BY <1>2, <2>1, WayOn
  <2>2. CASE u # NoWidget
    <3>1. PICK q : IsWay(q, u, stop)
      BY <1>2, <2>2
    <3> HIDE DEF S, Good
    <3>2. IsWay(<<v>> \o q, v, stop)
      BY <1>2, <2>2, <3>1, WayOn
    <3> QED BY <3>2
  <2> QED BY <2>1, <2>2
<1>4. ASSUME NEW p, NEW q, IsWay(p, v, stop), IsWay(q, v, stop) PROVE p = q
  <2>1. PICK r : /\ p = <<v>> \o r
                 /\ IF u = NoWidget THEN r = <<>> ELSE IsWay(r, u, stop)
    BY <1>2, <1>4, WayBack
  <2>2. PICK t : /\ q = <<v>> \o t
                 /\ IF u = NoWidget THEN t = <<>> ELSE IsWay(t, u, stop)
    BY <1>2, <1>4, WayBack
  <2>3. r = t
    BY <1>2, <2>1, <2>2
  <2> QED BY <2>1, <2>2, <2>3
<1> QED BY <1>1, <1>3, <1>4

\* The equation that defines Outward.
LEMMA OutwardStep ==
  ASSUME NEW stop, NEW w \in Widgets
  PROVE  Outward(stop)[w] =
           <<w>> \o (IF Outer(w, stop) = NoWidget THEN <<>> ELSE Outward(stop)[Parent[w]])
<1> DEFINE Step(f, v) == <<v>> \o (IF Parent[v] \in {NoWidget, stop} THEN <<>> ELSE f[Parent[v]])
           way == CHOOSE f : f = [v \in Widgets |-> Step(f, v)]
           g == [v \in Widgets |-> CHOOSE p : IsWay(p, v, stop)]
<1>1. Outward(stop) = way
  BY DEF Outward
<1>2. ASSUME NEW v \in Widgets PROVE IsWay(g[v], v, stop)
  BY OneWay
<1>3. ASSUME NEW v \in Widgets PROVE g[v] = Step(g, v)
  <2>1. CASE Outer(v, stop) = NoWidget
    <3>1. IsWay(<<v>> \o <<>>, v, stop)
      BY <2>1, WayOn
    <3>2. Step(g, v) = <<v>> \o <<>>
      BY <2>1 DEF Outer
    <3> QED BY <1>2, <3>1, <3>2, OneWay
  <2>2. CASE Outer(v, stop) # NoWidget
    <3>1. Outer(v, stop) = Parent[v] /\ Parent[v] \in Widgets
      BY <2>2, OuterType
    <3>2. IsWay(g[Parent[v]], Parent[v], stop)
      BY <1>2, <3>1
    <3>3. Step(g, v) = <<v>> \o g[Parent[v]]
      BY <2>2 DEF Outer
    <3> HIDE DEF g, Step
    <3>4. IsWay(<<v>> \o g[Parent[v]], v, stop)
      BY <2>2, <3>1, <3>2, WayOn
    <3> QED BY <1>2, <3>3, <3>4, OneWay
  <2> QED BY <2>1, <2>2
<1>4. g = [v \in Widgets |-> Step(g, v)]
  <2> HIDE DEF Step
  <2>1. DOMAIN g = Widgets /\ g = [v \in Widgets |-> g[v]]
    OBVIOUS
  <2> HIDE DEF g
  <2> QED BY <1>3, <2>1
<1>5. way = [v \in Widgets |-> Step(way, v)]
  <2> HIDE DEF Step, g
  <2> QED BY <1>4
<1>6. way[w] = Step(way, w)
  <2> HIDE DEF way, Step
  <2> QED BY <1>5
<1>7. (Outer(w, stop) = NoWidget) <=> (Parent[w] \in {NoWidget, stop})
  BY DEF Outer
<1> HIDE DEF way
<1> QED BY <1>1, <1>6, <1>7

LEMMA Longer ==
  ASSUME NEW U, NEW e \in U, NEW s \in Seq(U)
  PROVE  <<e>> \o s \in Seq(U) /\ Len(<<e>> \o s) \in Nat \ {0}
OBVIOUS

\* The way is a list of widgets and not empty.
LEMMA OutwardType ==
  ASSUME NEW stop, NEW w \in Widgets
  PROVE  Outward(stop)[w] \in Seq(Widgets) /\ Len(Outward(stop)[w]) \in Nat \ {0}
<1> DEFINE Good(v) == Outward(stop)[v] \in Seq(Widgets) /\ Len(Outward(stop)[v]) \in Nat \ {0}
           S == {v \in Widgets : ~ Good(v)}
<1> SUFFICES ASSUME S # {} PROVE FALSE
  OBVIOUS
<1>1. PICK v \in S : Parent[v] \notin S
  <2> HIDE DEF Good
  <2> QED BY Outermost
<1>2. CASE Outer(v, stop) = NoWidget
  <2>1. Outward(stop)[v] = <<v>> \o <<>>
    BY <1>1, <1>2, OutwardStep
  <2>2. Good(v)
    BY <1>1, <2>1, Longer, EmptySeq
  <2> QED BY <1>1, <2>2
<1>3. CASE Outer(v, stop) # NoWidget
  <2>1. Parent[v] \in Widgets /\ Good(Parent[v])
    <3> HIDE DEF Good
    <3> QED BY <1>1, <1>3, OuterType
  <2>2. Outward(stop)[v] = <<v>> \o Outward(stop)[Parent[v]]
    BY <1>1, <1>3, OutwardStep
  <2>3. Good(v)
    BY <1>1, <2>1, <2>2, Longer
  <2> QED BY <1>1, <2>3
<1> QED BY <1>2, <1>3

LEMMA ToSetFacts ==
  ASSUME NEW U, NEW e \in U, NEW s \in Seq(U)
  PROVE  /\ ToSet(<<e>> \o s) = {e} \cup ToSet(s)
         /\ ToSet(<<>>) = {}
         /\ <<e>> \o <<>> = <<e>>
         /\ ToSet(<<e>>) = {e}
<1> DEFINE t == <<e>> \o s
<1>1. Len(s) \in Nat /\ DOMAIN s = 1..Len(s) /\ DOMAIN t = 1..(Len(s) + 1)
  OBVIOUS
<1>2. t[1] = e /\ \A i \in 1..Len(s) : t[i + 1] = s[i]
  OBVIOUS
<1> HIDE DEF t
<1>3. ASSUME NEW i \in 1..(Len(s) + 1) PROVE t[i] \in {e} \cup ToSet(s)
  <2>1. CASE i = 1
    BY <1>2, <2>1
  <2>2. CASE i # 1
    <3>1. i - 1 \in 1..Len(s) /\ (i - 1) + 1 = i
      BY <1>1, <2>2
    <3>2. t[i] = s[i - 1]
      BY <1>2, <3>1
    <3> QED BY <1>1, <3>1, <3>2 DEF ToSet
  <2> QED BY <2>1, <2>2
<1>4. e \in ToSet(t)
  <2>1. 1 \in 1..(Len(s) + 1)
    BY <1>1
  <2> QED BY <1>1, <1>2, <2>1 DEF ToSet
<1>5. ASSUME NEW i \in 1..Len(s) PROVE s[i] \in ToSet(t)
  <2>1. i + 1 \in 1..(Len(s) + 1)
    BY <1>1
  <2> QED BY <1>1, <1>2, <2>1 DEF ToSet
<1>6. ToSet(t) = {e} \cup ToSet(s)
  BY <1>1, <1>3, <1>4, <1>5 DEF ToSet
<1>7. ToSet(<<>>) = {} /\ <<e>> \o <<>> = <<e>> /\ ToSet(<<e>>) = {e}
  BY DEF ToSet
<1> QED BY <1>6, <1>7 DEF t

\* The widgets on the way, one step and the rest.
LEMMA WayElements ==
  ASSUME NEW stop, NEW w \in Widgets
  PROVE  ToSet(Outward(stop)[w]) =
           {w} \cup (IF Outer(w, stop) = NoWidget THEN {} ELSE ToSet(Outward(stop)[Parent[w]]))
<1>1. CASE Outer(w, stop) = NoWidget
  <2>1. Outward(stop)[w] = <<w>>
    BY <1>1, OutwardStep, ToSetFacts, EmptySeq
  <2> QED BY <1>1, <2>1, ToSetFacts, EmptySeq
<1>2. CASE Outer(w, stop) # NoWidget
  <2>1. Parent[w] \in Widgets
    BY <1>2, OuterType
  <2>2. Outward(stop)[Parent[w]] \in Seq(Widgets)
    BY <2>1, OutwardType
  <2>3. Outward(stop)[w] = <<w>> \o Outward(stop)[Parent[w]]
    BY <1>2, OutwardStep
  <2> QED BY <1>2, <2>2, <2>3, ToSetFacts
<1> QED BY <1>1, <1>2

LEMMA ChainStep ==
  ASSUME NEW w \in Widgets
  PROVE  Chain(w) = {w} \cup Chain(Parent[w])
<1>1. w # NoWidget /\ Chain(w) = ToSet(Outward(NoWidget)[w])
  BY EventBridgeAssumption DEF Chain
<1>2. CASE Parent[w] = NoWidget
  <2>1. Outer(w, NoWidget) = NoWidget /\ Chain(Parent[w]) = {}
    BY <1>2 DEF Outer, Chain
  <2> QED BY <1>1, <2>1, WayElements
<1>3. CASE Parent[w] # NoWidget
  <2>1. Outer(w, NoWidget) = Parent[w] /\ Chain(Parent[w]) = ToSet(Outward(NoWidget)[Parent[w]])
    BY <1>3 DEF Outer, Chain
  <2> QED BY <1>1, <1>3, <2>1, WayElements
<1> QED BY <1>2, <1>3

\* A chain is of widgets, and has the chain of each of them in it.
LEMMA ChainClosed ==
  ASSUME NEW w \in Widgets \cup {NoWidget}
  PROVE  Chain(w) \subseteq Widgets /\ \A x \in Chain(w) : Chain(x) \subseteq Chain(w)
<1> DEFINE Good(v) == Chain(v) \subseteq Widgets /\ \A x \in Chain(v) : Chain(x) \subseteq Chain(v)
           S == {v \in Widgets : ~ Good(v)}
<1>0. Good(NoWidget)
  BY DEF Chain
<1> SUFFICES ASSUME S # {} PROVE FALSE
  BY <1>0
<1>1. PICK v \in S : Parent[v] \notin S
  <2> HIDE DEF Good
  <2> QED BY Outermost
<1>2. Parent[v] \in Widgets \cup {NoWidget} /\ Good(Parent[v])
  <2> HIDE DEF Good
  <2> QED BY <1>0, <1>1, EventBridgeAssumption
<1>3. Chain(v) = {v} \cup Chain(Parent[v])
  BY <1>1, ChainStep
<1>4. Good(v)
  BY <1>1, <1>2, <1>3
<1> QED BY <1>1, <1>4

\* Of two widgets one at most is above the other.
LEMMA ChainOrder ==
  ASSUME NEW w \in Widgets, NEW x \in Chain(w), w \in Chain(x)
  PROVE  x = w
<1> DEFINE S == {y \in Chain(w) : w \in Chain(y)}
<1> SUFFICES ASSUME x # w PROVE FALSE
  OBVIOUS
<1>1. Chain(w) \subseteq Widgets /\ w \in Chain(w)
  BY ChainClosed, ChainStep
<1>2. PICK y \in S : Parent[y] \notin S
  <2>1. S \subseteq Widgets /\ x \in S
    BY <1>1
  <2> HIDE DEF S
  <2> QED BY <2>1, Outermost
<1>3. y \in Widgets /\ Chain(y) = {y} \cup Chain(Parent[y]) /\ Chain(y) \subseteq Chain(w)
  BY <1>1, <1>2, ChainStep, ChainClosed
<1>4. Parent[y] \in Widgets \cup {NoWidget} /\ Chain(NoWidget) = {}
  BY <1>3, EventBridgeAssumption DEF Chain
<1>5. w \in Chain(Parent[y])
  <2>1. CASE y # w
    BY <1>2, <1>3, <2>1
  <2>2. CASE y = w
    <3>1. x \in Chain(Parent[w])
      BY <1>3, <2>2
    <3>2. Chain(x) \subseteq Chain(Parent[w])
      BY <1>4, <2>2, <3>1, ChainClosed
    <3> QED BY <2>2, <3>2
  <2> QED BY <2>1, <2>2
<1>6. Parent[y] \in Chain(Parent[y])
  BY <1>4, <1>5, ChainStep
<1> QED BY <1>2, <1>3, <1>5, <1>6

LEMMA NotAboveItself ==
  ASSUME NEW w \in Widgets
  PROVE  Parent[w] # w /\ w \notin Chain(Parent[w])
<1>1. Parent[w] # w
  <2>1. {w} \subseteq Widgets /\ {w} # {}
    OBVIOUS
  <2> QED BY <2>1, Outermost
<1>2. ASSUME w \in Chain(Parent[w]) PROVE FALSE
  <2>1. Parent[w] \in Widgets
    BY <1>2, EventBridgeAssumption DEF Chain
  <2>2. Parent[w] \in Chain(w)
    BY <2>1, ChainStep
  <2> QED BY <1>1, <1>2, <2>2, ChainOrder
<1> QED BY <1>1, <1>2

\* The widgets on the way to stop.
LEMMA WayIsChain ==
  ASSUME NEW stop, NEW w \in Widgets, w # stop
  PROVE  ToSet(Outward(stop)[w]) = IF stop \in Chain(w) THEN Chain(w) \ Chain(stop) ELSE Chain(w)
<1> DEFINE E(v) == ToSet(Outward(stop)[v])
           Good(v) == E(v) = IF stop \in Chain(v) THEN Chain(v) \ Chain(stop) ELSE Chain(v)
           S == {v \in Widgets : v # stop /\ ~ Good(v)}
<1> SUFFICES ASSUME S # {} PROVE FALSE
  OBVIOUS
<1>1. PICK v \in S : Parent[v] \notin S
  <2> HIDE DEF Good
  <2>1. S \subseteq Widgets
    OBVIOUS
  <2> HIDE DEF S
  <2> QED BY <2>1, Outermost
<1>2. /\ E(v) = {v} \cup (IF Outer(v, stop) = NoWidget THEN {} ELSE E(Parent[v]))
      /\ Chain(v) = {v} \cup Chain(Parent[v])
      /\ v # stop
  BY <1>1, WayElements, ChainStep
<1>3. stop \in Chain(v) => v \notin Chain(stop)
  BY <1>1, <1>2, ChainOrder
<1>4. CASE Parent[v] = NoWidget
  <2>1. Outer(v, stop) = NoWidget /\ Chain(Parent[v]) = {}
    BY <1>4 DEF Outer, Chain
  <2> HIDE DEF E
  <2>2. Good(v)
    BY <1>2, <2>1
  <2> QED BY <1>1, <2>2
<1>5. CASE Parent[v] # NoWidget /\ Parent[v] = stop
  <2>1. Outer(v, stop) = NoWidget
    BY <1>5 DEF Outer
  <2>2. stop \in Chain(stop)
    BY <1>1, <1>5, ChainStep, EventBridgeAssumption
  <2> HIDE DEF E
  <2>3. Good(v)
    BY <1>2, <1>3, <1>5, <2>1, <2>2
  <2> QED BY <1>1, <2>3
<1>6. CASE Parent[v] # NoWidget /\ Parent[v] # stop
  <2>1. Outer(v, stop) = Parent[v] /\ Parent[v] \in Widgets
    BY <1>1, <1>6, EventBridgeAssumption DEF Outer
  <2>2. Good(Parent[v])
    <3> HIDE DEF Good
    <3> QED BY <1>1, <1>6, <2>1
  <2> HIDE DEF E
  <2>3. Good(v)
    BY <1>2, <1>3, <1>6, <2>1, <2>2
  <2> QED BY <1>1, <2>3
<1> QED BY <1>4, <1>5, <1>6

-----------------------------------------------------------------------------
(* The order of what is sent.                                              *)

\* A list that goes outward: no widget twice, none after its parent.
Rising(s) == \A i, j \in DOMAIN s : i < j => s[i] # s[j] /\ Parent[s[j]] # s[i]

LEMMA RisingOn ==
  ASSUME NEW e \in Widgets, NEW s \in Seq(Widgets), Rising(s),
         \A x \in ToSet(s) : x # e /\ Parent[x] # e
  PROVE  Rising(<<e>> \o s)
<1> DEFINE t == <<e>> \o s
<1>1. /\ Len(s) \in Nat /\ DOMAIN s = 1..Len(s) /\ DOMAIN t = 1..(Len(s) + 1)
      /\ t[1] = e /\ \A i \in 1..Len(s) : t[i + 1] = s[i]
  OBVIOUS
<1> HIDE DEF t
<1>2. ASSUME NEW i \in 1..(Len(s) + 1), NEW j \in 1..(Len(s) + 1), i < j
      PROVE  t[i] # t[j] /\ Parent[t[j]] # t[i]
  <2>1. j - 1 \in 1..Len(s) /\ (j - 1) + 1 = j
    BY <1>1, <1>2
  <2>2. t[j] = s[j - 1] /\ s[j - 1] \in ToSet(s)
    BY <1>1, <2>1 DEF ToSet
  <2>3. CASE i = 1
    BY <1>1, <2>2, <2>3
  <2>4. CASE i # 1
    <3>1. i - 1 \in 1..Len(s) /\ (i - 1) + 1 = i /\ i - 1 < j - 1
      BY <1>1, <1>2, <2>4
    <3>2. t[i] = s[i - 1]
      BY <1>1, <3>1
    <3> QED BY <1>1, <2>1, <2>2, <3>1, <3>2 DEF Rising
  <2> QED BY <2>3, <2>4
<1> QED BY <1>1, <1>2 DEF Rising, t

LEMMA OutwardRises ==
  ASSUME NEW stop, NEW w \in Widgets
  PROVE  Rising(Outward(stop)[w])
<1> DEFINE S == {v \in Widgets : ~ Rising(Outward(stop)[v])}
<1> SUFFICES ASSUME S # {} PROVE FALSE
  OBVIOUS
<1>1. PICK v \in S : Parent[v] \notin S
  BY Outermost
<1>2. CASE Outer(v, stop) = NoWidget
  <2>1. Outward(stop)[v] = <<v>>
    BY <1>1, <1>2, OutwardStep, ToSetFacts, EmptySeq
  <2>2. Rising(<<v>>)
    BY DEF Rising
  <2> QED BY <1>1, <2>1, <2>2
<1>3. CASE Outer(v, stop) # NoWidget
  <2> DEFINE u == Parent[v]
  <2>1. u \in Widgets /\ u # stop /\ v \in Widgets
    BY <1>1, <1>3, OuterType DEF Outer
  <2>2. Rising(Outward(stop)[u]) /\ Outward(stop)[u] \in Seq(Widgets)
    BY <1>1, <2>1, OutwardType
  <2>3. ToSet(Outward(stop)[u]) \subseteq Chain(u)
    BY <2>1, WayIsChain
  <2>4. ASSUME NEW x \in Chain(u) PROVE x # v /\ Parent[x] # v
    <3>1. v \notin Chain(u)
      BY <2>1, NotAboveItself
    <3>2. x \in Widgets /\ Chain(x) \subseteq Chain(u)
      BY <2>1, ChainClosed
    <3>3. Parent[x] = v => v \in Chain(x)
      BY <2>1, <3>2, ChainStep
    <3> QED BY <3>1, <3>2, <3>3
  <2>5. Rising(<<v>> \o Outward(stop)[u])
    BY <2>1, <2>2, <2>3, <2>4, RisingOn
  <2> QED BY <1>1, <1>3, <2>5, OutwardStep
<1> QED BY <1>2, <1>3

\* What the stacks have in common is popped, the rest keeps its order.
LEMMA ApartFacts ==
  ASSUME NEW s \in Seq(Widgets), NEW t, Rising(s)
  PROVE  /\ Apart(s, t) \in Seq(Widgets)
         /\ Rising(Apart(s, t))
         /\ ToSet(Apart(s, t)) = ToSet(s) \ ToSet(t)
<1> DEFINE r == Apart(s, t)
<1>1. r \in Seq(Widgets) /\ Len(r) \in Nat /\ DOMAIN r = 1..Len(r) /\ DOMAIN s = 1..Len(s) /\ Len(s) \in Nat
  BY WithoutKeeps DEF Apart
<1>2. PICK at : Places(s, ToSet(t), r, at)
  BY WithoutKeeps DEF Apart
<1> HIDE DEF r
<1>3. \A i \in 1..Len(r) : at[i] \in 1..Len(s) /\ r[i] = s[at[i]] /\ r[i] \notin ToSet(t)
  BY <1>2 DEF Places
<1>4. Rising(r)
  <2> SUFFICES ASSUME NEW i \in 1..Len(r), NEW j \in 1..Len(r), i < j
               PROVE  r[i] # r[j] /\ Parent[r[j]] # r[i]
    BY <1>1 DEF Rising
  <2>1. at[i] < at[j]
    BY <1>2 DEF Places
  <2> QED BY <1>1, <1>3, <2>1 DEF Rising
<1>5. ASSUME NEW x \in ToSet(s), x \notin ToSet(t) PROVE x \in ToSet(r)
  <2>1. PICK k \in 1..Len(s) : x = s[k]
    BY <1>1, <1>5 DEF ToSet
  <2>2. PICK i \in 1..Len(r) : at[i] = k
    BY <1>2, <1>5, <2>1 DEF Places
  <2> QED BY <1>1, <1>3, <2>1, <2>2 DEF ToSet
<1>6. ToSet(r) \subseteq ToSet(s) \ ToSet(t)
  BY <1>1, <1>3 DEF ToSet
<1> QED BY <1>1, <1>4, <1>5, <1>6 DEF r

\* Each widget is told once, children before their parents where the mouse leaves, after them
\* where it enters.
Ordered(c) ==
  /\ \A i, j \in DOMAIN c : c[i].w = c[j].w => i = j
  /\ \A i, j \in DOMAIN c : i < j /\ c[i].type = c[j].type =>
       IF c[i].type = "Leave" THEN Parent[c[j].w] # c[i].w ELSE Parent[c[i].w] # c[j].w

Of(type, c) == {c[i].w : i \in {j \in DOMAIN c : c[j].type = type}}

LEMMA CrossingsFacts ==
  ASSUME NEW a \in Seq(Widgets), NEW b \in Seq(Widgets), Rising(a), Rising(b),
         ToSet(a) \cap ToSet(b) = {}
  PROVE  LET c == Sends("Leave", a) \o Sends("Enter", Reverse(b)) IN
         /\ c \in Seq(Crossings)
         /\ Ordered(c)
         /\ Of("Leave", c) = ToSet(a)
         /\ Of("Enter", c) = ToSet(b)
<1> DEFINE m == Len(a)
           n == Len(b)
           l == Sends("Leave", a)
           e == Sends("Enter", Reverse(b))
           c == l \o e
<1>1. m \in Nat /\ n \in Nat /\ DOMAIN a = 1..m /\ DOMAIN b = 1..n
  OBVIOUS
<1>2. /\ l = [i \in 1..m |-> [type |-> "Leave", w |-> a[i]]]
      /\ e = [i \in 1..n |-> [type |-> "Enter", w |-> b[(n - i) + 1]]]
  <2>1. DOMAIN Reverse(b) = 1..n /\ \A i \in 1..n : Reverse(b)[i] = b[(n - i) + 1]
    BY DEF Reverse
  <2> QED BY <1>1, <2>1 DEF Sends
<1>3. \A i \in 1..m : a[i] \in Widgets
  OBVIOUS
<1>4. \A i \in 1..n : (n - i) + 1 \in 1..n /\ b[(n - i) + 1] \in Widgets
  <2>1. \A i \in 1..n : b[i] \in Widgets
    OBVIOUS
  <2> QED BY <1>1, <2>1
<1>5. l \in Seq(Crossings) /\ Len(l) = m /\ e \in Seq(Crossings) /\ Len(e) = n
  <2>1. \A i \in 1..m : [type |-> "Leave", w |-> a[i]] \in Crossings
    BY <1>3 DEF Crossings
  <2>2. \A i \in 1..n : [type |-> "Enter", w |-> b[(n - i) + 1]] \in Crossings
    BY <1>4 DEF Crossings
  <2> HIDE DEF m, n, l, e
  <2>3. l \in [1..m -> Crossings] /\ e \in [1..n -> Crossings]
    BY <1>2, <2>1, <2>2
  <2> QED BY <1>1, <2>3
<1> HIDE DEF l, e
<1>6. /\ c \in Seq(Crossings) /\ DOMAIN c = 1..(m + n)
      /\ \A i \in 1..m : c[i] = l[i]
      /\ \A i \in 1..n : c[m + i] = e[i]
  <2> HIDE DEF m, n
  <2>1. c \in Seq(Crossings)
    BY <1>5
  <2>2. Len(c) = m + n
    BY <1>1, <1>5
  <2>3. \A i \in 1..m : c[i] = l[i]
    BY <1>1, <1>5
  <2>4. \A i \in 1..n : c[m + i] = e[i]
    BY <1>1, <1>5
  <2> HIDE DEF c
  <2>5. DOMAIN c = 1..(m + n)
    BY <2>1, <2>2
  <2> QED BY <2>1, <2>3, <2>4, <2>5
<1> HIDE DEF c
<1>7. \A i \in 1..m : i \in DOMAIN c /\ c[i].type = "Leave" /\ c[i].w = a[i]
  BY <1>1, <1>2, <1>6
<1>8. \A i \in (m + 1)..(m + n) :
        /\ i \in DOMAIN c /\ n - (i - m) + 1 \in 1..n
        /\ c[i].type = "Enter" /\ c[i].w = b[n - (i - m) + 1]
  <2> SUFFICES ASSUME NEW i \in (m + 1)..(m + n)
               PROVE  /\ i \in DOMAIN c /\ n - (i - m) + 1 \in 1..n
                      /\ c[i].type = "Enter" /\ c[i].w = b[n - (i - m) + 1]
    OBVIOUS
  <2>1. i - m \in 1..n /\ i \in 1..(m + n) /\ n - (i - m) + 1 \in 1..n
    BY <1>1
  <2>2. c[i] = e[i - m]
    <3> HIDE DEF m, n
    <3>1. i = m + (i - m)
      BY <1>1
    <3> QED BY <1>6, <2>1, <3>1
  <2> HIDE DEF m, n
  <2>3. e[i - m] = [type |-> "Enter", w |-> b[n - (i - m) + 1]]
    BY <1>2, <2>1
  <2> QED BY <1>6, <2>1, <2>2, <2>3
<1> HIDE DEF m, n
<1>9. \A i \in DOMAIN c : i \in Nat /\ (i \in 1..m \/ i \in (m + 1)..(m + n))
  BY <1>1, <1>6
<1>10. \A i \in 1..m : a[i] \in ToSet(a)
  BY <1>1 DEF ToSet
<1>11. \A i \in 1..n : b[i] \in ToSet(b)
  BY <1>1 DEF ToSet
<1>12. ASSUME NEW i \in DOMAIN c, NEW j \in DOMAIN c, i < j
       PROVE  /\ c[i].w # c[j].w
              /\ c[i].type = c[j].type =>
                   IF c[i].type = "Leave" THEN Parent[c[j].w] # c[i].w ELSE Parent[c[i].w] # c[j].w
  <2>1. CASE i \in 1..m /\ j \in 1..m
    <3>1. c[i].type = "Leave" /\ c[i].w = a[i] /\ c[j].w = a[j]
      BY <1>7, <2>1
    <3>2. a[i] # a[j] /\ Parent[a[j]] # a[i]
      BY <1>1, <1>12, <2>1 DEF Rising
    <3> QED BY <3>1, <3>2
  <2>2. CASE i \in 1..m /\ j \in (m + 1)..(m + n)
    <3>1. c[i].type = "Leave" /\ c[i].w \in ToSet(a) /\ c[j].type = "Enter" /\ c[j].w \in ToSet(b)
      BY <1>7, <1>8, <1>10, <1>11, <2>2
    <3> QED BY <3>1
  <2>3. CASE i \in (m + 1)..(m + n) /\ j \in (m + 1)..(m + n)
    <3> DEFINE p == n - (i - m) + 1
               q == n - (j - m) + 1
    <3>1. p \in 1..n /\ q \in 1..n /\ q < p
      BY <1>1, <1>8, <1>12, <2>3
    <3>2. c[i].type = "Enter" /\ c[i].w = b[p] /\ c[j].w = b[q]
      BY <1>8, <2>3
    <3>3. b[q] # b[p] /\ Parent[b[p]] # b[q]
      BY <1>1, <3>1 DEF Rising
    <3> QED BY <3>2, <3>3
  <2>4. ~ (i \in (m + 1)..(m + n) /\ j \in 1..m)
    BY <1>1, <1>12
  <2> QED BY <1>9, <2>1, <2>2, <2>3, <2>4
<1>13. Ordered(c)
  <2>1. \A i, j \in DOMAIN c : i # j => i < j \/ j < i
    BY <1>6
  <2>2. \A i, j \in DOMAIN c : c[i].w = c[j].w => i = j
    BY <1>12, <2>1
  <2>3. \A i, j \in DOMAIN c : i < j /\ c[i].type = c[j].type =>
          IF c[i].type = "Leave" THEN Parent[c[j].w] # c[i].w ELSE Parent[c[i].w] # c[j].w
    BY <1>12
  <2> QED BY <2>2, <2>3 DEF Ordered
<1>14. Of("Leave", c) = ToSet(a)
  <2>1. ASSUME NEW x \in Of("Leave", c) PROVE x \in ToSet(a)
    <3>1. PICK i \in DOMAIN c : c[i].type = "Leave" /\ x = c[i].w
      BY <2>1 DEF Of
    <3>2. i \in 1..m
      BY <1>8, <1>9, <3>1
    <3> QED BY <1>7, <1>10, <3>1, <3>2
  <2>2. ASSUME NEW x \in ToSet(a) PROVE x \in Of("Leave", c)
    <3>1. PICK i \in 1..m : x = a[i]
      BY <1>1, <2>2 DEF ToSet
    <3>2. i \in DOMAIN c /\ c[i].type = "Leave" /\ c[i].w = x
      BY <1>7, <3>1
    <3> QED BY <3>2 DEF Of
  <2> QED BY <2>1, <2>2
<1>15. Of("Enter", c) = ToSet(b)
  <2>1. ASSUME NEW x \in Of("Enter", c) PROVE x \in ToSet(b)
    <3>1. PICK i \in DOMAIN c : c[i].type = "Enter" /\ x = c[i].w
      BY <2>1 DEF Of
    <3>2. i \in (m + 1)..(m + n)
      BY <1>7, <1>9, <3>1
    <3> QED BY <1>8, <1>11, <3>1, <3>2
  <2>2. ASSUME NEW x \in ToSet(b) PROVE x \in Of("Enter", c)
    <3>1. PICK k \in 1..n : x = b[k]
      BY <1>1, <2>2 DEF ToSet
    <3> DEFINE i == m + (n - k) + 1
    <3>2. i \in (m + 1)..(m + n) /\ n - (i - m) + 1 = k
      BY <1>1
    <3> HIDE DEF i
    <3>3. i \in DOMAIN c /\ c[i].type = "Enter" /\ c[i].w = x
      BY <1>8, <3>1, <3>2
    <3> QED BY <3>3 DEF Of
  <2> QED BY <2>1, <2>2
<1> QED BY <1>6, <1>13, <1>14, <1>15 DEF c, l, e

-----------------------------------------------------------------------------
(* The events posted.                                                      *)

QueueTypes ==
  /\ posting \in Events \cup {NoEvent}
  /\ inbox \in Seq(Events) /\ Len(inbox) <= MaxInbox
  /\ tracked \subseteq Widgets
  /\ \A w \in tracked : Parent[w] # NoWidget => Parent[w] \in tracked

\* parse has one event in hand: if that is stale, there is no other event of its widget.
StaleInHand == posting.stale => \A i \in DOMAIN inbox : inbox[i].w # posting.w

QInv == QueueTypes /\ OneStaleEvent /\ StaleInHand

\* Hiding takes the events of hidden widgets out of the queue and leaves the others as they are.
LEMMA HiddenDequeued ==
  ASSUME QInv, NEW hidden \in SUBSET Widgets,
         NEW q, q = Aged(hidden, Dequeue(hidden, inbox))
  PROVE  /\ q \in Seq(Events) /\ Len(q) <= Len(inbox)
         /\ \E at \in [DOMAIN q -> DOMAIN inbox] :
              /\ \A i, j \in DOMAIN q : at[i] = at[j] => i = j
              /\ \A i \in DOMAIN q : q[i] = inbox[at[i]] /\ q[i].w \notin hidden
<1> DEFINE S == {e \in ToSet(inbox) : e.w \in hidden}
           r == Without(inbox, S)
<1>1. inbox \in Seq(Events) /\ Len(inbox) \in Nat /\ DOMAIN inbox = 1..Len(inbox)
  BY DEF QInv, QueueTypes
<1>2. /\ r \in Seq(Events) /\ Len(r) \in Nat /\ DOMAIN r = 1..Len(r)
      /\ Len(r) <= Len(inbox)
  BY <1>1, WithoutKeeps, WithoutShorter
<1>3. PICK at : Places(inbox, S, r, at)
  BY <1>1, WithoutKeeps
<1>4. q = Aged(hidden, r)
  BY DEF Dequeue
<1> HIDE DEF S, r
<1>5. \A i \in DOMAIN r : at[i] \in DOMAIN inbox /\ r[i] = inbox[at[i]] /\ r[i] \notin S
  BY <1>1, <1>2, <1>3 DEF Places
<1>6. ASSUME NEW i \in DOMAIN r PROVE r[i] \in Events /\ r[i].w \notin hidden
  <2>1. r[i] \in ToSet(inbox)
    BY <1>5 DEF ToSet
  <2> QED BY <1>2, <1>5, <2>1 DEF S
<1>7. ASSUME NEW i \in DOMAIN r PROVE [r[i] EXCEPT !.stale = @ \/ r[i].w \in hidden] = r[i]
  <2>1. [r[i] EXCEPT !.stale = @ \/ r[i].w \in hidden] = [r[i] EXCEPT !.stale = r[i].stale]
    BY <1>6 DEF Events
  <2> QED BY <1>6, <2>1 DEF Events
<1>8. q = r
  <2>1. q = [i \in DOMAIN r |-> r[i]]
    BY <1>4, <1>7 DEF Aged
  <2> QED BY <1>2, <2>1
<1>9. at \in [DOMAIN q -> DOMAIN inbox]
  BY <1>1, <1>2, <1>3, <1>8 DEF Places
<1>10. ASSUME NEW i \in DOMAIN q, NEW j \in DOMAIN q, at[i] = at[j] PROVE i = j
  <2>1. i \in 1..Len(r) /\ j \in 1..Len(r) /\ at[i] \in 1..Len(inbox)
    BY <1>1, <1>2, <1>8, <1>9
  <2>2. \A k, m \in 1..Len(r) : k < m => at[k] < at[m]
    BY <1>3 DEF Places
  <2>3. i = j \/ i < j \/ j < i
    BY <1>2, <2>1
  <2> QED BY <1>1, <1>10, <2>1, <2>2, <2>3
<1> QED BY <1>2, <1>5, <1>6, <1>8, <1>9, <1>10

LEMMA HideKeepsQueue ==
  ASSUME QInv, NEW w \in Widgets, HideWidget(w)
  PROVE  QInv'
<1> DEFINE hidden == Subtree(w) \cap tracked
<1>1. /\ w \in tracked
      /\ tracked' = tracked \ hidden
      /\ inbox' = Aged(hidden, Dequeue(hidden, inbox))
      /\ posting' = [posting EXCEPT !.stale = @ \/ posting.w \in hidden]
  BY DEF HideWidget
<1>2. QueueTypes /\ OneStaleEvent /\ StaleInHand /\ hidden \subseteq Widgets
  BY DEF QInv, QueueTypes
<1>3. ASSUME NEW c \in tracked', Parent[c] # NoWidget PROVE Parent[c] \in tracked'
  <2>1. c \in Widgets /\ c \in tracked /\ w \notin Chain(c) /\ Parent[c] \in tracked /\ Parent[c] \in Widgets
    BY <1>1, <1>2, <1>3 DEF QueueTypes, Subtree
  <2>2. w \notin Chain(Parent[c])
    BY <2>1, ChainStep
  <2> QED BY <1>1, <2>1, <2>2 DEF Subtree
<1> HIDE DEF hidden
<1>4. /\ inbox' \in Seq(Events) /\ Len(inbox') <= Len(inbox)
      /\ \E at \in [DOMAIN inbox' -> DOMAIN inbox] :
           /\ \A i, j \in DOMAIN inbox' : at[i] = at[j] => i = j
           /\ \A i \in DOMAIN inbox' : inbox'[i] = inbox[at[i]] /\ inbox'[i].w \notin hidden
  BY <1>1, <1>2, HiddenDequeued
<1>5. PICK at \in [DOMAIN inbox' -> DOMAIN inbox] :
        /\ \A i, j \in DOMAIN inbox' : at[i] = at[j] => i = j
        /\ \A i \in DOMAIN inbox' : inbox'[i] = inbox[at[i]] /\ inbox'[i].w \notin hidden
  BY <1>4
<1>6. posting' \in Events \cup {NoEvent} /\ posting'.w = posting.w
      /\ (posting'.stale => posting.stale \/ posting.w \in hidden)
  <2>1. CASE posting = NoEvent
    <3>1. NoWidget \notin hidden
      BY <1>2, EventBridgeAssumption
    <3> QED BY <1>1, <2>1, <3>1 DEF NoEvent
  <2>2. CASE posting \in Events
    BY <1>1, <2>2 DEF Events
  <2> QED BY <1>2, <2>1, <2>2 DEF QueueTypes
<1>7. QueueTypes'
  <2>1. Len(inbox') \in Nat /\ Len(inbox) \in Nat /\ MaxInbox \in Nat
    BY <1>2, <1>4, EventBridgeAssumption DEF QueueTypes
  <2>2. Len(inbox') <= MaxInbox
    BY <1>2, <1>4, <2>1 DEF QueueTypes
  <2> QED BY <1>1, <1>2, <1>3, <1>4, <1>6, <2>2 DEF QueueTypes
<1>8. OneStaleEvent'
  BY <1>2, <1>5 DEF OneStaleEvent
<1>9. StaleInHand'
  BY <1>2, <1>5, <1>6 DEF StaleInHand
<1> QED BY <1>7, <1>8, <1>9 DEF QInv

LEMMA PostKeepsQueue ==
  ASSUME QInv, Post
  PROVE  QInv'
<1>1. /\ posting # NoEvent /\ Len(inbox) < MaxInbox
      /\ inbox' = Append(inbox, posting) /\ posting' = NoEvent /\ tracked' = tracked
  BY DEF Post
<1>2. posting \in Events /\ inbox \in Seq(Events) /\ Len(inbox) \in Nat /\ MaxInbox \in Nat
  BY <1>1, EventBridgeAssumption DEF QInv, QueueTypes
<1>3. /\ inbox' \in Seq(Events) /\ Len(inbox') = Len(inbox) + 1
      /\ DOMAIN inbox = 1..Len(inbox) /\ DOMAIN inbox' = 1..(Len(inbox) + 1)
      /\ \A i \in 1..Len(inbox) : inbox'[i] = inbox[i]
      /\ inbox'[Len(inbox) + 1] = posting
  BY <1>1, <1>2
<1>4. QueueTypes'
  BY <1>1, <1>2, <1>3 DEF QInv, QueueTypes
<1>5. OneStaleEvent'
  <2> SUFFICES ASSUME NEW i \in DOMAIN inbox', NEW j \in DOMAIN inbox',
                      inbox'[i].w = inbox'[j].w, inbox'[i].stale, inbox'[j].stale
               PROVE  i = j
    BY DEF OneStaleEvent
  <2>1. \A k \in DOMAIN inbox' : k = Len(inbox) + 1 \/ k \in 1..Len(inbox)
    BY <1>2, <1>3
  <2>2. CASE i \in 1..Len(inbox) /\ j \in 1..Len(inbox)
    <3>1. inbox[i].w \in Widgets
      <4>1. inbox[i] \in Events
        BY <1>2, <2>2
      <4> QED BY <4>1 DEF Events
    <3> QED BY <1>3, <2>2, <3>1 DEF QInv, OneStaleEvent
  <2>3. CASE i = Len(inbox) + 1 /\ j \in 1..Len(inbox)
    BY <1>3, <2>3 DEF QInv, StaleInHand
  <2>4. CASE j = Len(inbox) + 1 /\ i \in 1..Len(inbox)
    BY <1>3, <2>4 DEF QInv, StaleInHand
  <2> QED BY <2>1, <2>2, <2>3, <2>4
<1>6. StaleInHand'
  BY <1>1 DEF StaleInHand, NoEvent
<1> QED BY <1>4, <1>5, <1>6 DEF QInv

LEMMA TakeKeepsQueue ==
  ASSUME QInv, inbox # <<>>, inbox' = Tail(inbox), UNCHANGED <<posting, tracked>>
  PROVE  QInv'
<1>1. inbox \in Seq(Events) /\ Len(inbox) \in Nat \ {0} /\ MaxInbox \in Nat /\ Len(inbox) <= MaxInbox
  BY EmptySeq, EventBridgeAssumption DEF QInv, QueueTypes
<1>2. /\ inbox' \in Seq(Events) /\ Len(inbox') = Len(inbox) - 1
      /\ DOMAIN inbox = 1..Len(inbox) /\ DOMAIN inbox' = 1..(Len(inbox) - 1)
      /\ \A i \in 1..(Len(inbox) - 1) : i + 1 \in 1..Len(inbox) /\ inbox'[i] = inbox[i + 1]
  BY <1>1
<1>3. QueueTypes'
  BY <1>1, <1>2 DEF QInv, QueueTypes
<1>4. OneStaleEvent'
  <2> SUFFICES ASSUME NEW w \in Widgets, NEW i \in DOMAIN inbox', NEW j \in DOMAIN inbox',
                      inbox'[i].w = w, inbox'[j].w = w, inbox'[i].stale, inbox'[j].stale
               PROVE  i = j
    BY DEF OneStaleEvent
  <2>1. i + 1 = j + 1
    BY <1>2 DEF QInv, OneStaleEvent
  <2> QED BY <1>1, <1>2, <2>1
<1>5. StaleInHand'
  BY <1>2 DEF QInv, StaleInHand
<1> QED BY <1>3, <1>4, <1>5 DEF QInv

LEMMA LookupKeepsQueue ==
  ASSUME QInv, NEW type \in Types, NEW w \in Widgets, Lookup(type, w)
  PROVE  QInv'
<1>1. posting' = [type |-> type, w |-> w, stale |-> FALSE] /\ UNCHANGED <<inbox, tracked>>
  BY DEF Lookup
<1>2. posting' \in Events /\ ~ posting'.stale
  BY <1>1 DEF Events
<1> QED BY <1>1, <1>2 DEF QInv, QueueTypes, OneStaleEvent, StaleInHand

LEMMA ShowKeepsQueue ==
  ASSUME QInv, NEW w \in Widgets, ShowWidget(w)
  PROVE  QInv'
BY DEF ShowWidget, QInv, QueueTypes, OneStaleEvent, StaleInHand

-----------------------------------------------------------------------------
(* What the widgets are told.                                              *)

MouseTypes ==
  /\ grabber \in Widgets \cup {NoWidget}
  /\ target \in Widgets \cup {NoWidget}
  /\ sends \in Seq(Crossings)
  /\ entered \subseteq Widgets
  /\ lost \in BOOLEAN

InTurn == Ordered(sends) /\ (target = NoWidget => sends = <<>>)

\* The widget under the mouse, or soon.
Under == IF target = NoWidget THEN grabber ELSE target

\* It and its parents are told, or will be, also after the mouse went on from a hidden widget.
Told == Chain(Under) \subseteq (entered \ Pending("Leave")) \cup Pending("Enter")

MInv == MouseTypes /\ InTurn /\ Told /\ CrossingsMatch

LEMMA MouseKept ==
  ASSUME MInv, UNCHANGED mouse
  PROVE  MInv'
BY DEF MInv, mouse, MouseTypes, InTurn, Ordered, Under, Told, CrossingsMatch, Pending

LEMMA PendingIsOf ==
  /\ \A type : Pending(type) = Of(type, sends)
  /\ Of("Leave", <<>>) = {} /\ Of("Enter", <<>>) = {}
  /\ Ordered(<<>>)
BY DEF Pending, Of, Ordered

\* One crossing is sent, the others wait.
LEMMA TailFacts ==
  ASSUME NEW c \in Seq(Crossings), c # <<>>, Ordered(c)
  PROVE  LET h == Head(c)
             t == Tail(c) IN
         /\ h \in Crossings /\ t \in Seq(Crossings) /\ Ordered(t)
         /\ \A type \in {"Leave", "Enter"} :
              /\ Of(type, c) = Of(type, t) \cup (IF h.type = type THEN {h.w} ELSE {})
              /\ h.w \notin Of(type, t)
         /\ \A x \in Of(h.type, t) : IF h.type = "Leave" THEN Parent[x] # h.w ELSE Parent[h.w] # x
<1> DEFINE h == Head(c)
           t == Tail(c)
<1>1. Len(c) \in Nat \ {0} /\ DOMAIN c = 1..Len(c) /\ 1 \in DOMAIN c
  BY EmptySeq
<1>2. /\ t \in Seq(Crossings) /\ DOMAIN t = 1..(Len(c) - 1) /\ h = c[1]
      /\ \A i \in 1..(Len(c) - 1) : t[i] = c[i + 1]
  BY <1>1
<1> HIDE DEF h, t
<1>3. \A i \in DOMAIN t : i + 1 \in DOMAIN c /\ 1 < i + 1 /\ t[i] = c[i + 1]
  BY <1>1, <1>2
<1>4. h \in Crossings
  BY <1>1, <1>2
<1>5. Ordered(t)
  <2>1. \A i, j \in DOMAIN t : t[i].w = t[j].w => i = j
    <3> SUFFICES ASSUME NEW i \in DOMAIN t, NEW j \in DOMAIN t, t[i].w = t[j].w PROVE i = j
      OBVIOUS
    <3>1. i + 1 = j + 1
      BY <1>3 DEF Ordered
    <3> QED BY <1>1, <1>2, <3>1
  <2>2. \A i, j \in DOMAIN t : i < j /\ t[i].type = t[j].type =>
          IF t[i].type = "Leave" THEN Parent[t[j].w] # t[i].w ELSE Parent[t[i].w] # t[j].w
    <3> SUFFICES ASSUME NEW i \in DOMAIN t, NEW j \in DOMAIN t, i < j, t[i].type = t[j].type
                 PROVE  IF t[i].type = "Leave" THEN Parent[t[j].w] # t[i].w
                        ELSE Parent[t[i].w] # t[j].w
      OBVIOUS
    <3>1. i + 1 < j + 1
      BY <1>1, <1>2
    <3> QED BY <1>3, <3>1 DEF Ordered
  <2> QED BY <2>1, <2>2 DEF Ordered
<1>6. ASSUME NEW type \in {"Leave", "Enter"}
      PROVE  Of(type, c) = Of(type, t) \cup (IF h.type = type THEN {h.w} ELSE {})
  <2>1. ASSUME NEW x \in Of(type, c)
        PROVE  x \in Of(type, t) \cup (IF h.type = type THEN {h.w} ELSE {})
    <3>1. PICK i \in DOMAIN c : c[i].type = type /\ x = c[i].w
      BY <2>1 DEF Of
    <3>2. CASE i = 1
      BY <1>2, <3>1, <3>2
    <3>3. CASE i # 1
      <4>1. i - 1 \in DOMAIN t /\ (i - 1) + 1 = i
        BY <1>1, <1>2, <3>3
      <4>2. t[i - 1] = c[i]
        BY <1>3, <4>1
      <4> QED BY <3>1, <4>1, <4>2 DEF Of
    <3> QED BY <3>2, <3>3
  <2>2. ASSUME NEW x \in Of(type, t) PROVE x \in Of(type, c)
    <3>1. PICK i \in DOMAIN t : t[i].type = type /\ x = t[i].w
      BY <2>2 DEF Of
    <3> QED BY <1>3, <3>1 DEF Of
  <2>3. h.type = type => h.w \in Of(type, c)
    BY <1>1, <1>2 DEF Of
  <2> QED BY <2>1, <2>2, <2>3
<1>7. ASSUME NEW type \in {"Leave", "Enter"} PROVE h.w \notin Of(type, t)
  <2> SUFFICES ASSUME h.w \in Of(type, t) PROVE FALSE
    OBVIOUS
  <2>1. PICK i \in DOMAIN t : h.w = t[i].w
    BY DEF Of
  <2>2. i + 1 = 1
    BY <1>1, <1>2, <1>3, <2>1 DEF Ordered
  <2> QED BY <1>1, <1>3, <2>2
<1>8. ASSUME NEW x \in Of(h.type, t)
      PROVE  IF h.type = "Leave" THEN Parent[x] # h.w ELSE Parent[h.w] # x
  <2>1. PICK i \in DOMAIN t : t[i].type = h.type /\ x = t[i].w
    BY <1>8 DEF Of
  <2> QED BY <1>1, <1>2, <1>3, <2>1 DEF Ordered
<1> QED BY <1>2, <1>4, <1>5, <1>6, <1>7, <1>8 DEF h, t

LEMMA SendKeepsMouse ==
  ASSUME MInv, SendCrossing
  PROVE  MInv'
<1> DEFINE h == Head(sends)
           t == Tail(sends)
           PL == Of("Leave", sends)
           PE == Of("Enter", sends)
           QL == Of("Leave", t)
           QE == Of("Enter", t)
           C == Chain(Under)
<1>0. MouseTypes /\ InTurn /\ Told /\ CrossingsMatch
  BY DEF MInv
<1>1. /\ sends # <<>> /\ sends' = t
      /\ entered' = IF h.type = "Enter" THEN entered \cup {h.w} ELSE entered \ {h.w}
      /\ UNCHANGED <<grabber, target, lost>>
  BY DEF SendCrossing
<1>2. sends \in Seq(Crossings) /\ Ordered(sends) /\ entered \subseteq Widgets
  BY <1>0 DEF MouseTypes, InTurn
<1>3. /\ h \in Crossings /\ t \in Seq(Crossings) /\ Ordered(t)
      /\ PL = QL \cup (IF h.type = "Leave" THEN {h.w} ELSE {})
      /\ PE = QE \cup (IF h.type = "Enter" THEN {h.w} ELSE {})
      /\ h.w \notin QL /\ h.w \notin QE
      /\ \A x \in Of(h.type, t) : IF h.type = "Leave" THEN Parent[x] # h.w ELSE Parent[h.w] # x
  <2>1. /\ h \in Crossings /\ t \in Seq(Crossings) /\ Ordered(t)
        /\ \A type \in {"Leave", "Enter"} :
             /\ Of(type, sends) = Of(type, t) \cup (IF h.type = type THEN {h.w} ELSE {})
             /\ h.w \notin Of(type, t)
        /\ \A x \in Of(h.type, t) : IF h.type = "Leave" THEN Parent[x] # h.w ELSE Parent[h.w] # x
    BY <1>1, <1>2, TailFacts
  <2> HIDE DEF h, t
  <2> QED BY <2>1
<1>4. h.w \in Widgets /\ (h.type = "Leave" \/ h.type = "Enter")
  BY <1>3 DEF Crossings
<1>5. Pending("Leave") = PL /\ Pending("Enter") = PE
  BY PendingIsOf
<1>6. Pending("Leave")' = QL /\ Pending("Enter")' = QE
  BY <1>1 DEF Pending, Of
<1>7. Under' = Under /\ Chain(Under') = C /\ Under \in Widgets \cup {NoWidget}
  BY <1>0, <1>1 DEF Under, MouseTypes
<1>8. /\ PL \subseteq entered
      /\ C \subseteq (entered \ PL) \cup PE
      /\ ~ lost => /\ PE \cap entered = {}
                   /\ \A w \in entered : Parent[w] # NoWidget => Parent[w] \in entered
                   /\ (entered \ PL) \cup PE = C
  BY <1>0, <1>5 DEF CrossingsMatch, Told, Under
<1>9. \A w \in C : w \in Widgets /\ (Parent[w] # NoWidget => Parent[w] \in C)
  <2> SUFFICES ASSUME NEW w \in C, Parent[w] # NoWidget PROVE Parent[w] \in C
    BY <1>7, ChainClosed
  <2>1. w \in Widgets /\ Chain(w) \subseteq C
    BY <1>7, ChainClosed
  <2>2. Parent[w] \in Widgets
    BY <2>1, EventBridgeAssumption
  <2> QED BY <2>1, <2>2, ChainStep
<1>10. Parent[h.w] # h.w
  BY <1>4, NotAboveItself
<1> HIDE DEF h, t, PL, PE, QL, QE, C
<1>11. MouseTypes'
  BY <1>0, <1>1, <1>3, <1>4 DEF MouseTypes
<1>12. InTurn'
  <2>1. target # NoWidget
    BY <1>0, <1>1 DEF InTurn
  <2> QED BY <1>1, <1>3, <2>1 DEF InTurn, t
<1>13. QL \subseteq entered'
  BY <1>1, <1>3, <1>4, <1>8
<1>14. C \subseteq (entered' \ QL) \cup QE
  <2>1. CASE h.type = "Leave"
    BY <1>1, <1>3, <1>8, <2>1
  <2>2. CASE h.type = "Enter"
    BY <1>1, <1>3, <1>8, <2>2
  <2> QED BY <1>4, <2>1, <2>2
<1>15. ASSUME ~ lost
       PROVE  /\ QE \cap entered' = {}
              /\ \A w \in entered' : Parent[w] # NoWidget => Parent[w] \in entered'
              /\ (entered' \ QL) \cup QE = C
  <2>1. CASE h.type = "Leave"
    <3>1. /\ entered' = entered \ {h.w} /\ PE = QE /\ PL = QL \cup {h.w}
          /\ \A x \in QL : Parent[x] # h.w
      BY <1>1, <1>3, <2>1 DEF QL
    <3>2. h.w \notin C
      BY <1>3, <1>8, <1>15, <3>1
    <3>3. ASSUME NEW w \in entered', Parent[w] # NoWidget PROVE Parent[w] \in entered'
      <4>1. Parent[w] \in entered
        BY <1>8, <1>15, <3>1, <3>3
      <4>2. CASE w \in QL
        BY <3>1, <4>1, <4>2
      <4>3. CASE w \notin QL
        <5>1. w \in C
          BY <1>8, <1>15, <3>1, <3>3, <4>3
        <5> QED BY <1>9, <3>1, <3>2, <3>3, <4>1, <5>1
      <4> QED BY <4>2, <4>3
    <3>4. QE \cap entered' = {} /\ (entered' \ QL) \cup QE = C
      BY <1>3, <1>8, <1>15, <3>1
    <3> QED BY <3>3, <3>4
  <2>2. CASE h.type = "Enter"
    <3>1. /\ entered' = entered \cup {h.w} /\ PE = QE \cup {h.w} /\ PL = QL
          /\ \A x \in QE : Parent[h.w] # x
      BY <1>1, <1>3, <2>2 DEF QE
    <3>2. h.w \in C
      BY <1>8, <1>15, <3>1
    <3>3. ASSUME NEW w \in entered', Parent[w] # NoWidget PROVE Parent[w] \in entered'
      <4>1. CASE w \in entered
        BY <1>8, <1>15, <3>1, <3>3, <4>1
      <4>2. CASE w = h.w
        <5>1. Parent[w] \in C /\ Parent[w] \notin QE /\ Parent[w] # h.w
          BY <1>9, <1>10, <3>1, <3>2, <3>3, <4>2
        <5> QED BY <1>8, <1>15, <3>1, <5>1
      <4> QED BY <3>1, <4>1, <4>2
    <3>4. QE \cap entered' = {} /\ (entered' \ QL) \cup QE = C
      BY <1>3, <1>8, <1>15, <3>1
    <3> QED BY <3>3, <3>4
  <2> QED BY <1>4, <2>1, <2>2
<1>16. Told'
  BY <1>6, <1>7, <1>14 DEF Told
<1>17. CrossingsMatch'
  BY <1>1, <1>6, <1>7, <1>13, <1>15 DEF CrossingsMatch, Under
<1> QED BY <1>11, <1>12, <1>16, <1>17 DEF MInv

LEMMA EndKeepsMouse ==
  ASSUME MInv, EndEnterEvents
  PROVE  MInv'
<1>1. /\ target # NoWidget /\ sends = <<>> /\ grabber' = target /\ target' = NoWidget
      /\ UNCHANGED <<sends, entered, lost>>
  BY DEF EndEnterEvents
<1>2. Under' = Under /\ \A type : Pending(type)' = Pending(type)
  BY <1>1 DEF Under, Pending
<1>3. (IF target = NoWidget THEN grabber ELSE target)' = (IF target = NoWidget THEN grabber ELSE target)
  BY <1>1
<1> QED BY <1>1, <1>2, <1>3 DEF MInv, MouseTypes, InTurn, Told, CrossingsMatch

\* The mouse goes from grabber to w: what is sent takes the chain of the one to that of the other.
LEMMA EnterKeepsMouse ==
  ASSUME MInv, QInv, ProcessEnterEvents
  PROVE  MInv'
<1> DEFINE w == Head(inbox).w
           es == EnterStack(w)
           ls == LeaveStack(w)
           a == Apart(ls, es)
           b == Apart(es, ls)
           L == Chain(w) 
           G == Chain(grabber)
<1>0. MouseTypes /\ InTurn /\ Told /\ CrossingsMatch
  BY DEF MInv
<1>1. /\ target = NoWidget /\ w \in tracked \ {grabber}
      /\ target' = w
      /\ sends' = CrossingsTo(w)
      /\ lost' = (lost \/ grabber \notin tracked \cup {NoWidget})
      /\ UNCHANGED <<grabber, entered>>
  BY DEF ProcessEnterEvents, InLoop
<1>2. w \in Widgets /\ w # grabber /\ w # NoWidget /\ tracked \subseteq Widgets
      /\ grabber \in Widgets \cup {NoWidget}
  BY <1>0, <1>1, EventBridgeAssumption DEF MouseTypes, QInv, QueueTypes
<1>3. CrossingsTo(w) = Sends("Leave", a) \o Sends("Enter", Reverse(b))
  BY DEF CrossingsTo
<1> HIDE DEF w
<1>4. /\ es \in Seq(Widgets) /\ Rising(es)
      /\ ToSet(es) = IF grabber \in L THEN L \ G ELSE L
  BY <1>2, OutwardType, OutwardRises, WayIsChain DEF EnterStack
<1>5. /\ ls \in Seq(Widgets) /\ Rising(ls)
      /\ ToSet(ls) = IF grabber \in tracked /\ grabber \notin L THEN G ELSE {}
  <2>1. CASE grabber \in tracked /\ grabber \notin L
    <3>1. ls = Outward(NoWidget)[grabber] /\ grabber \in Widgets /\ grabber # NoWidget
      BY <1>2, <2>1, EventBridgeAssumption DEF LeaveStack
    <3>2. ToSet(ls) = G
      BY <3>1 DEF Chain
    <3>3. ls \in Seq(Widgets) /\ Rising(ls)
      BY <3>1, OutwardType, OutwardRises
    <3> QED BY <2>1, <3>2, <3>3
  <2>2. CASE ~ (grabber \in tracked /\ grabber \notin L)
    <3>1. ls = <<>>
      BY <2>2 DEF LeaveStack
    <3>2. Rising(<<>>) /\ ToSet(<<>>) = {} /\ <<>> \in Seq(Widgets)
      BY EmptySeq DEF Rising, ToSet
    <3> QED BY <2>2, <3>1, <3>2
  <2> QED BY <2>1, <2>2
<1> HIDE DEF es, ls
<1>6. /\ a \in Seq(Widgets) /\ Rising(a) /\ ToSet(a) = ToSet(ls) \ ToSet(es)
      /\ b \in Seq(Widgets) /\ Rising(b) /\ ToSet(b) = ToSet(es) \ ToSet(ls)
  BY <1>4, <1>5, ApartFacts
<1> HIDE DEF a, b
<1>7. /\ sends' \in Seq(Crossings) /\ Ordered(sends')
      /\ Of("Leave", sends') = ToSet(a) /\ Of("Enter", sends') = ToSet(b)
  <2>1. ToSet(a) \cap ToSet(b) = {}
    BY <1>6
  <2>2. LET c == Sends("Leave", a) \o Sends("Enter", Reverse(b)) IN
        /\ c \in Seq(Crossings) /\ Ordered(c)
        /\ Of("Leave", c) = ToSet(a) /\ Of("Enter", c) = ToSet(b)
    BY <1>6, <2>1, CrossingsFacts
  <2> QED BY <1>1, <1>3, <2>2
<1>8. Pending("Leave")' = ToSet(a) /\ Pending("Enter")' = ToSet(b)
  BY <1>7 DEF Pending, Of
<1>9. /\ G \subseteq entered
      /\ ~ lost => entered = G
      /\ \A x \in entered : ~ lost /\ Parent[x] # NoWidget => Parent[x] \in entered
  <2>1. Under = grabber /\ Pending("Leave") = {} /\ Pending("Enter") = {}
    BY <1>0, <1>1, PendingIsOf DEF InTurn, Under
  <2> QED BY <1>0, <1>1, <2>1 DEF Told, CrossingsMatch, Under
<1>10. Under' = w /\ Chain(Under)' = L
  BY <1>1, <1>2 DEF Under
<1>11. /\ grabber \in L => G \subseteq L
       /\ grabber = NoWidget => G = {}
  BY <1>2, ChainClosed DEF Chain
<1> HIDE DEF L, G
<1>12. ToSet(a) \subseteq entered
  BY <1>5, <1>6, <1>9
<1>13. L \subseteq (entered \ ToSet(a)) \cup ToSet(b)
  BY <1>4, <1>5, <1>6, <1>9
<1>14. ASSUME ~ lost'
       PROVE  /\ ToSet(b) \cap entered = {}
              /\ (entered \ ToSet(a)) \cup ToSet(b) = L
  <2>1. ~ lost /\ grabber \in tracked \cup {NoWidget} /\ entered = G
    BY <1>1, <1>9, <1>14
  <2> QED BY <1>2, <1>4, <1>5, <1>6, <1>11, <2>1
<1>15. MouseTypes'
  BY <1>0, <1>1, <1>2, <1>7 DEF MouseTypes
<1>16. InTurn'
  BY <1>1, <1>2, <1>7 DEF InTurn
<1>17. Told'
  BY <1>1, <1>8, <1>10, <1>13 DEF Told
<1>18. CrossingsMatch'
  <2>1. ~ lost' => ~ lost
    BY <1>1
  <2>2. Chain(IF target = NoWidget THEN grabber ELSE target)' = L
    BY <1>1, <1>2 DEF L
  <2> QED BY <1>1, <1>8, <1>9, <1>12, <1>14, <2>1, <2>2 DEF CrossingsMatch
<1> QED BY <1>15, <1>16, <1>17, <1>18 DEF MInv

-----------------------------------------------------------------------------
(* The theorems.                                                           *)

LEMMA InitBInv == Init => QInv /\ MInv
<1> SUFFICES ASSUME Init PROVE QInv /\ MInv
  OBVIOUS
<1>1. QueueTypes
  BY EventBridgeAssumption DEF Init, QueueTypes
<1>2. OneStaleEvent /\ StaleInHand
  BY DEF Init, OneStaleEvent, StaleInHand, NoEvent
<1>3. MouseTypes
  <2>1. sends \in Seq(Crossings)
    BY EmptySeq DEF Init
  <2> QED BY <2>1 DEF Init, MouseTypes
<1>4. Pending("Leave") = {} /\ Pending("Enter") = {} /\ Ordered(sends)
  BY PendingIsOf DEF Init
<1>5. Chain(NoWidget) = {}
  BY DEF Chain
<1>6. InTurn /\ Told /\ CrossingsMatch
  BY <1>4, <1>5 DEF Init, InTurn, Told, Under, CrossingsMatch
<1> QED BY <1>1, <1>2, <1>3, <1>6 DEF QInv, MInv

LEMMA StepBInv == QInv /\ MInv /\ [Next]_vars => (QInv /\ MInv)'
<1> SUFFICES ASSUME QInv, MInv, [Next]_vars PROVE QInv' /\ MInv'
  OBVIOUS
<1>1. ASSUME NEW type \in Types, NEW w \in Widgets, Lookup(type, w) PROVE QInv' /\ MInv'
  BY <1>1, LookupKeepsQueue, MouseKept DEF Lookup
<1>2. CASE Post
  BY <1>2, PostKeepsQueue, MouseKept DEF Post
<1>3. ASSUME NEW w \in Widgets, HideWidget(w) PROVE QInv' /\ MInv'
  BY <1>3, HideKeepsQueue, MouseKept DEF HideWidget
<1>4. ASSUME NEW w \in Widgets, ShowWidget(w) PROVE QInv' /\ MInv'
  BY <1>4, ShowKeepsQueue, MouseKept DEF ShowWidget
<1>5. CASE Serve
  BY <1>5, TakeKeepsQueue, MouseKept DEF Serve
<1>6. CASE ProcessEnterEvents
  BY <1>6, TakeKeepsQueue, EnterKeepsMouse DEF ProcessEnterEvents
<1>7. CASE SendCrossing
  <2>1. QInv'
    BY <1>7 DEF SendCrossing, QInv, QueueTypes, OneStaleEvent, StaleInHand
  <2> QED BY <1>7, <2>1, SendKeepsMouse
<1>8. CASE EndEnterEvents
  <2>1. QInv'
    BY <1>8 DEF EndEnterEvents, QInv, QueueTypes, OneStaleEvent, StaleInHand
  <2> QED BY <1>8, <2>1, EndKeepsMouse
<1>9. CASE UNCHANGED vars
  <2>1. QInv'
    BY <1>9 DEF vars, QInv, QueueTypes, OneStaleEvent, StaleInHand
  <2> QED BY <1>9, <2>1, MouseKept DEF vars
<1> QED BY <1>1, <1>2, <1>3, <1>4, <1>5, <1>6, <1>7, <1>8, <1>9 DEF Next

LEMMA BridgeInvariant == Spec => [](QInv /\ MInv)
BY InitBInv, StepBInv, PTL DEF Spec

\* The variables keep their types: the queue its bound, and a widget is in the collection only
\* with its parents.
THEOREM BridgeTypes == Spec => []TypeOK
<1>1. QInv /\ MInv => TypeOK
  BY DEF QInv, MInv, QueueTypes, MouseTypes, TypeOK
<1> QED BY <1>1, BridgeInvariant, PTL

\* A widget is told that the mouse left only if it was told that it came; and as long as the
\* mouse never went on from a widget hidden under it, those told are the widget under the mouse
\* and its parents (EventDispatcher.cpp processEnterEvents()).
THEOREM CrossingsAlwaysMatch == Spec => []CrossingsMatch
<1>1. QInv /\ MInv => CrossingsMatch
  BY DEF MInv
<1> QED BY <1>1, BridgeInvariant, PTL

\* One event of a widget at most outlives the hiding of the widget (EventConverter.cpp parse(),
\* WebRenderer.cpp dequeue()).
THEOREM StaleOnce == Spec => []OneStaleEvent
<1>1. QInv /\ MInv => OneStaleEvent
  BY DEF QInv
<1> QED BY <1>1, BridgeInvariant, PTL

=============================================================================
