----------------------------- MODULE DisplayProofs -----------------------------
(***************************************************************************)
(* The page never handles a show or a hide of a widget that it has not     *)
(* heard of, for any widgets, calls of the application and lag of the page.*)
(*                                                                         *)
(* The argument follows a widget from its construction: its constructor's  *)
(* events end in Create, and nothing else is called before they are        *)
(* delivered; the filter tells the page of it then; and the commands that  *)
(* show or hide it are issued after that, on the same stream.              *)
(*                                                                         *)
(* And a plain widget ends up where the application has put it, unless it  *)
(* came back to an earlier parent: each of its parents is executed, on the *)
(* wire or in an event still to come, in the order of the application.     *)
(*                                                                         *)
(* And the page displays what the application shows: the events of a call  *)
(* that are still to come say what is so when it ends, and the last show   *)
(* or hide of a widget on the stream, or else what the page has executed,  *)
(* says the same as the application or an event corrects it.               *)
(***************************************************************************)
EXTENDS Display, QueuesProofs, FiniteSetTheorems, TLAPS

Optional == Widgets \cup {NoWidget}
Commands == [c : CommandNames, id : Optional, child : Optional]
EventTypes == {"Create", "ChildAdded", "ChildRemoved", "Destroy", "Close", "Hide",
               "HideToParent", "Show", "ShowToParent", "WindowActivate", "WindowDeactivate"}
QtEvents == [type : EventTypes, w : Optional, child : Optional]

\* The widgets the page enters in this.widgets when it executes a command.
Tells(cmd) == IF cmd.c = "addChild" THEN {cmd.id, cmd.child}
              ELSE IF cmd.c \in {"create", "activate"} THEN {cmd.id} ELSE {}

\* The widgets the page knows or is about to hear of.
Told == {w \in Widgets : w \in known \/ \E i \in 1..Len(wire) : w \in Tells(wire[i])}

\* The events of which those that issue a show or a hide are for widgets of T.
About(T) == {e \in QtEvents : e.type \in {"Show", "Hide", "HideToParent"} => e.w \in T}

\* Of these, the events that give no widget a parent.
Quiet(T) == {e \in About(T) : e.type # "ChildAdded"}

Types ==
    /\ born \subseteq Widgets
    /\ tracked \subseteq Optional
    /\ active \in Optional
    /\ parents \in [Widgets -> Seq(Widgets)]
    /\ wire \in Seq(Commands)

\* A widget that was constructed has been told of, or its Create is to come.
BornTold ==
    \A w \in born \ Told : \E i \in 1..Len(events) : events[i].type = "Create" /\ events[i].w = w

\* Shows and hides follow what tells of their widget.
ToldBefore ==
    \A i \in 1..Len(wire) :
      wire[i].c \in {"show", "hide"} =>
        wire[i].id \in known \/ \E j \in 1..(i - 1) : wire[i].id \in Tells(wire[j])

TInv ==
    /\ Types
    /\ events \in Seq(About(Told))
    /\ BornTold
    /\ ToldBefore

-----------------------------------------------------------------------------
(* The events that a call of Qt sends.                                     *)

LEMMA AboutMore ==
  ASSUME NEW T, NEW U, T \subseteq U, NEW s \in Seq(About(T))
  PROVE  s \in Seq(About(U))
<1>1. About(T) \subseteq About(U)
  BY DEF About
<1> QED BY <1>1, SeqMonotonic

LEMMA QuietIsAbout ==
  ASSUME NEW T, NEW s \in Seq(Quiet(T))
  PROVE  s \in Seq(About(T))
<1>1. Quiet(T) \subseteq About(T)
  BY DEF Quiet
<1> QED BY <1>1, SeqMonotonic

LEMMA OneEvent ==
  ASSUME NEW T, NEW kind \in EventTypes \ {"ChildAdded"}, NEW w \in Optional,
         kind \in {"Show", "Hide", "HideToParent"} => w \in T
  PROVE  <<Event(kind, w)>> \in Seq(Quiet(T))
<1>1. Event(kind, w) \in Quiet(T)
  BY DEF Event, Quiet, About, QtEvents, Optional
<1> QED BY <1>1

LEMMA OneChildEvent ==
  ASSUME NEW T, NEW kind \in {"ChildAdded", "ChildRemoved"}, NEW w \in Optional,
         NEW child \in Optional
  PROVE  <<ChildEvent(kind, w, child)>> \in Seq(About(T))
<1>1. ChildEvent(kind, w, child) \in About(T)
  BY DEF ChildEvent, About, QtEvents, EventTypes
<1> QED BY <1>1

\* A finite set can be put in a sequence.
LEMMA SetToSeqType ==
  ASSUME NEW S, IsFiniteSet(S)
  PROVE  SetToSeq(S) \in [1..Cardinality(S) -> S] /\ Cardinality(S) \in Nat
<1>1. Cardinality(S) \in Nat /\ ExistsBijection(1..Cardinality(S), S)
  BY FS_CardinalityType
<1>2. \E f \in [1..Cardinality(S) -> S] : IsInjective(f)
  BY <1>1 DEF ExistsBijection, Bijection, Injection
<1> QED BY <1>1, <1>2 DEF SetToSeq

LEMMA EventsForType ==
  ASSUME NEW T, NEW kind \in EventTypes \ {"ChildAdded"}, NEW ws \in SUBSET Widgets, ws \subseteq T
  PROVE  EventsFor(kind, ws) \in Seq(Quiet(T))
<1>1. IsFiniteSet(ws)
  BY KindAssumption, FS_Subset
<1> DEFINE s == SetToSeq(ws)
           n == Cardinality(ws)
<1>2. s \in [1..n -> ws] /\ n \in Nat
  BY <1>1, SetToSeqType
<1>3. Len(s) = n
  BY <1>2
<1>4. EventsFor(kind, ws) = [i \in 1..n |-> Event(kind, s[i])]
  BY <1>3 DEF EventsFor
<1>5. \A i \in 1..n : Event(kind, s[i]) \in Quiet(T)
  <2> SUFFICES ASSUME NEW i \in 1..n PROVE Event(kind, s[i]) \in Quiet(T)
    OBVIOUS
  <2>1. s[i] \in ws
    BY <1>2
  <2> QED BY <2>1 DEF Event, Quiet, About, QtEvents, Optional
<1>6. [i \in 1..n |-> Event(kind, s[i])] \in [1..n -> Quiet(T)]
  BY <1>5
<1> QED BY <1>2, <1>4, <1>6, SeqDef

LEMMA HideEventsType ==
  ASSUME NEW T, NEW w \in Widgets, w \in T, born \subseteq Widgets, born \subseteq T
  PROVE  HideEvents(w) \in Seq(Quiet(T))
<1> DEFINE deactivate == IF w = active THEN <<Event("WindowDeactivate", w)>> ELSE <<>>
           children == EventsFor("Hide", ShownWith(w) \cap visible)
           first == IF w \notin visible THEN <<>>
                    ELSE deactivate \o <<Event("Hide", w)>> \o children
<1>1. deactivate \in Seq(Quiet(T))
  BY OneEvent, EmptySeq DEF EventTypes, Optional
<1>2. <<Event("Hide", w)>> \in Seq(Quiet(T)) /\ <<Event("HideToParent", w)>> \in Seq(Quiet(T))
  BY OneEvent DEF EventTypes, Optional
<1>3. children \in Seq(Quiet(T))
  BY EventsForType DEF ShownWith, Alive, EventTypes
<1> HIDE DEF deactivate, children
<1>4. first \in Seq(Quiet(T))
  BY <1>1, <1>2, <1>3, ConcatProperties, EmptySeq
<1>5. HideEvents(w) = first \o <<Event("HideToParent", w)>>
  BY DEF HideEvents, deactivate, children
<1> HIDE DEF first
<1> QED BY <1>2, <1>4, <1>5, ConcatProperties

LEMMA ActivationEventsType ==
  ASSUME NEW T, NEW w \in Optional, active \in Optional
  PROVE  ActivationEvents(w) \in Seq(Quiet(T))
<1>1. <<Event("WindowActivate", w)>> \in Seq(Quiet(T))
      /\ <<Event("WindowDeactivate", active)>> \in Seq(Quiet(T))
  BY OneEvent DEF EventTypes
<1> QED BY <1>1, ConcatProperties, EmptySeq DEF ActivationEvents

LEMMA ParentType ==
  ASSUME Types, NEW w \in Widgets
  PROVE  Parent(w) \in Optional
<1>1. parents[w] \in Seq(Widgets)
  BY DEF Types
<1>2. CASE parents[w] # <<>>
  <2>1. Len(parents[w]) \in 1..Len(parents[w])
    BY <1>1, <1>2, EmptySeq
  <2>2. Last(parents[w]) \in Widgets
    BY <1>1, <2>1, ElementOfSeq DEF Last
  <2> QED BY <1>2, <2>2 DEF Parent, Optional
<1> QED BY <1>2 DEF Parent, Optional

-----------------------------------------------------------------------------
(* The application's calls.                                                *)

\* A call of Qt, made when all events have been delivered.
LEMMA CallStep ==
  ASSUME TInv, events = <<>>, UNCHANGED <<known, wire, born>>, Types',
         events' \in Seq(About(Told))
  PROVE  TInv'
<1>1. Told' = Told /\ ToldBefore'
  BY DEF Told, TInv, ToldBefore
<1>2. born \subseteq Told
  BY DEF TInv, BornTold
<1> QED BY <1>1, <1>2 DEF TInv, BornTold

\* What the widgets of the model's sets have in common when the application runs.
LEMMA AtRest ==
  ASSUME TInv, events = <<>>
  PROVE  born \subseteq Told /\ born \subseteq Widgets /\ Alive \subseteq Told
<1>1. born \subseteq Told
  BY DEF TInv, BornTold
<1> QED BY <1>1 DEF TInv, Types, Alive

LEMMA ConstructKeeps ==
  ASSUME TInv, NEW w \in Widgets, NEW p \in Widgets \cup {NoWidget}, Construct(w, p),
         UNCHANGED pageVars
  PROVE  TInv'
<1> USE DEF Idle
<1>1. UNCHANGED <<known, wire, tracked, active>>
  BY DEF Construct, filterVars, pageVars
<1>2. Told' = Told /\ ToldBefore'
  BY <1>1 DEF Told, TInv, ToldBefore
<1>3. Types'
  <2>1. parents' \in [Widgets -> Seq(Widgets)]
    BY EmptySeq DEF Construct, TInv, Types
  <2> QED BY <1>1, <2>1 DEF Construct, TInv, Types
<1> DEFINE first == IF p = NoWidget THEN <<>> ELSE <<ChildEvent("ChildAdded", p, w)>>
<1>4. first \in Seq(About(Told)) /\ <<Event("Create", w)>> \in Seq(About(Told))
  BY OneChildEvent, OneEvent, QuietIsAbout, EmptySeq DEF Optional, EventTypes
<1>5. events' = first \o <<Event("Create", w)>>
  BY DEF Construct
<1> HIDE DEF first
<1>6. events' \in Seq(About(Told)) /\ Len(events') = Len(first) + 1
      /\ events'[Len(events')] = Event("Create", w) /\ Len(events') \in 1..Len(events')
  <2>1. Len(first) \in Nat
    BY <1>4, LenProperties
  <2> QED BY <1>4, <1>5, <2>1, ConcatProperties
<1>7. BornTold'
  <2> SUFFICES ASSUME NEW v \in born' \ Told'
               PROVE  \E i \in 1..Len(events') : events'[i].type = "Create" /\ events'[i].w = v
    BY DEF BornTold
  <2>1. v = w
    BY <1>2, AtRest DEF Construct
  <2> QED BY <1>6, <2>1 DEF Event
<1> QED BY <1>2, <1>3, <1>6, <1>7 DEF TInv

LEMMA ShowWidgetKeeps ==
  ASSUME TInv, NEW w \in Widgets, ShowWidget(w), UNCHANGED pageVars
  PROVE  TInv' /\ events' \in Seq(Quiet(Told))
<1>1. events = <<>> /\ UNCHANGED <<known, wire, born, tracked, active, parents>>
  BY DEF ShowWidget, Idle, filterVars, pageVars
<1>2. Types'
  BY <1>1 DEF TInv, Types
<1>3. w \in Told /\ ShownWith(w) \subseteq Told /\ ShownWith(w) \subseteq Widgets
  BY <1>1, AtRest DEF ShowWidget, ShownWith, Alive
<1>4. Event("Show", w) \in Quiet(Told) /\ Event("ShowToParent", w) \in Quiet(Told)
  BY <1>3 DEF Event, Quiet, About, QtEvents, EventTypes, Optional
<1>5. EventsFor("Show", ShownWith(w)) \in Seq(Quiet(Told))
  BY <1>3, EventsForType DEF EventTypes
<1>6. <<Event("Show", w), Event("ShowToParent", w)>> \in Seq(Quiet(Told))
      /\ <<Event("ShowToParent", w)>> \in Seq(Quiet(Told))
  BY <1>4
<1>7. events' \in Seq(Quiet(Told))
  BY <1>5, <1>6, ConcatProperties DEF ShowWidget
<1> QED BY <1>1, <1>2, <1>7, QuietIsAbout, CallStep

LEMMA HideWidgetKeeps ==
  ASSUME TInv, NEW w \in Widgets, HideWidget(w), UNCHANGED pageVars
  PROVE  TInv' /\ events' \in Seq(Quiet(Told))
<1>1. events = <<>> /\ UNCHANGED <<known, wire, born, tracked, parents>>
  BY DEF HideWidget, Idle, filterVars, pageVars
<1>2. Types'
  BY <1>1 DEF TInv, Types, HideWidget, Unshow, Optional
<1>3. events' \in Seq(Quiet(Told))
  BY <1>1, AtRest, HideEventsType DEF HideWidget
<1> QED BY <1>1, <1>2, <1>3, QuietIsAbout, CallStep

LEMMA CloseWindowKeeps ==
  ASSUME TInv, NEW w \in Optional, NEW accepts \in BOOLEAN, events = <<>>,
         CloseWindow(w, accepts), UNCHANGED pageVars
  PROVE  TInv' /\ events' \in Seq(Quiet(Told))
<1>1. UNCHANGED <<known, wire, born, tracked, parents>>
  BY DEF CloseWindow, filterVars, pageVars
<1>2. Types'
  BY <1>1 DEF TInv, Types, CloseWindow, Unshow, Optional
<1>3. w \in Told /\ w \in Widgets
  BY AtRest DEF CloseWindow, Alive
<1>4. <<Event("Close", w)>> \in Seq(Quiet(Told))
  BY OneEvent DEF EventTypes
<1>5. HideEvents(w) \in Seq(Quiet(Told))
  BY <1>3, AtRest, HideEventsType
<1>6. events' \in Seq(Quiet(Told))
  BY <1>4, <1>5, ConcatProperties DEF CloseWindow
<1> QED BY <1>1, <1>2, <1>6, QuietIsAbout, CallStep

LEMMA SetParentKeeps ==
  ASSUME TInv, NEW w \in Widgets, NEW p \in Widgets, SetParent(w, p), UNCHANGED pageVars
  PROVE  TInv'
<1>1. events = <<>> /\ UNCHANGED <<known, wire, born, tracked, active>>
  BY DEF SetParent, Idle, filterVars, pageVars
<1>2. Types'
  <2>1. parents' \in [Widgets -> Seq(Widgets)]
    BY DEF SetParent, TInv, Types
  <2> QED BY <1>1, <2>1 DEF TInv, Types
<1> DEFINE first == IF w \in wanted THEN HideEvents(w) ELSE <<>>
           removed == ChildEvent("ChildRemoved", Parent(w), w)
           added == ChildEvent("ChildAdded", p, w)
<1>3. first \in Seq(About(Told))
  BY <1>1, AtRest, HideEventsType, QuietIsAbout, EmptySeq DEF SetParent
<1>4. removed \in About(Told) /\ added \in About(Told)
  BY ParentType DEF TInv, ChildEvent, About, QtEvents, EventTypes, Optional
<1>5. events' = first \o <<removed, added>>
  BY DEF SetParent
<1> HIDE DEF first, removed, added
<1>6. <<removed, added>> \in Seq(About(Told))
  BY <1>4
<1>7. events' \in Seq(About(Told))
  BY <1>3, <1>5, <1>6, ConcatProperties
<1> QED BY <1>1, <1>2, <1>7, CallStep

LEMMA DestroyKeeps ==
  ASSUME TInv, NEW w \in Widgets, Destroy(w), UNCHANGED pageVars
  PROVE  TInv' /\ events' \in Seq(Quiet(Told))
<1>1. events = <<>> /\ UNCHANGED <<known, wire, born, tracked, parents>>
  BY DEF Destroy, Idle, filterVars, pageVars
<1>2. Types'
  BY <1>1 DEF TInv, Types, Destroy, Optional
<1> DEFINE first == IF IsWindow(w) /\ w \in visible THEN HideEvents(w) ELSE <<>>
           dead == {w} \cup {c \in Alive : Parent(c) = w}
           children == EventsFor("Destroy", dead \ {w})
<1>3. first \in Seq(Quiet(Told))
  <2>1. w \in Told /\ born \subseteq Told /\ born \subseteq Widgets
    BY <1>1, AtRest DEF Destroy
  <2>2. HideEvents(w) \in Seq(Quiet(Told))
    BY <2>1, HideEventsType
  <2> QED BY <2>2, EmptySeq
<1>4. children \in Seq(Quiet(Told))
  <2>1. dead \ {w} \subseteq Told /\ dead \ {w} \subseteq Widgets
    BY <1>1, AtRest DEF Alive
  <2> QED BY <2>1, EventsForType DEF EventTypes
<1>5. <<Event("Destroy", w)>> \in Seq(Quiet(Told))
  BY OneEvent DEF EventTypes, Optional
<1>6. events' = first \o children \o <<Event("Destroy", w)>>
  BY DEF Destroy
<1> HIDE DEF first, children
<1>7. events' \in Seq(Quiet(Told))
  BY <1>3, <1>4, <1>5, <1>6, ConcatProperties
<1> QED BY <1>1, <1>2, <1>7, QuietIsAbout, CallStep

LEMMA ActivateWindowKeeps ==
  ASSUME TInv, NEW w \in Widgets, ActivateWindow(w), UNCHANGED pageVars
  PROVE  TInv' /\ events' \in Seq(Quiet(Told))
<1>1. events = <<>> /\ UNCHANGED <<known, wire, born, tracked, parents>>
  BY DEF ActivateWindow, Idle, filterVars, pageVars
<1>2. Types'
  BY <1>1 DEF TInv, Types, ActivateWindow, Optional
<1>3. events' \in Seq(Quiet(Told))
  BY ActivationEventsType DEF ActivateWindow, TInv, Types, Optional
<1> QED BY <1>1, <1>2, <1>3, QuietIsAbout, CallStep

LEMMA ApplicationKeeps ==
  ASSUME TInv, Application
  PROVE  TInv'
<1>1. UNCHANGED pageVars
  BY DEF Application
<1>2. ASSUME NEW w \in Widgets, NEW p \in Widgets \cup {NoWidget}, Construct(w, p)
      PROVE  TInv'
  BY <1>1, <1>2, ConstructKeeps
<1>3. ASSUME NEW w \in Widgets,
             ShowWidget(w) \/ HideWidget(w) \/ Destroy(w) \/ ActivateWindow(w)
      PROVE  TInv'
  BY <1>1, <1>3, ShowWidgetKeeps, HideWidgetKeeps, DestroyKeeps, ActivateWindowKeeps
<1>4. ASSUME NEW w \in Widgets, NEW accepts \in BOOLEAN, CloseCall(w, accepts)
      PROVE  TInv'
  BY <1>1, <1>4, CloseWindowKeeps DEF CloseCall, Idle, Optional
<1>5. ASSUME NEW w \in Widgets, NEW p \in Widgets, SetParent(w, p)
      PROVE  TInv'
  BY <1>1, <1>5, SetParentKeeps
<1> QED BY <1>2, <1>3, <1>4, <1>5 DEF Application, Build, Call

-----------------------------------------------------------------------------
(* The filter's cases.                                                     *)

\* A command is added to the stream.
LEMMA IssueTells ==
  ASSUME Types, NEW cmd \in Commands, Issue(cmd), UNCHANGED known
  PROVE  /\ wire' \in Seq(Commands)
         /\ Told \subseteq Told'
         /\ Tells(cmd) \cap Widgets \subseteq Told'
         /\ ToldBefore /\ (cmd.c \in {"show", "hide"} => cmd.id \in Told) => ToldBefore'
<1>1. /\ wire' \in Seq(Commands)
      /\ Len(wire) \in Nat /\ Len(wire') = Len(wire) + 1
      /\ wire'[Len(wire) + 1] = cmd
      /\ \A i \in 1..Len(wire) : wire'[i] = wire[i]
  BY DEF Types, Issue
<1>2. Told \subseteq Told'
  BY <1>1 DEF Told
<1>3. Tells(cmd) \cap Widgets \subseteq Told'
  BY <1>1 DEF Told
<1>4. ASSUME ToldBefore, cmd.c \in {"show", "hide"} => cmd.id \in Told
      PROVE  ToldBefore'
  <2> SUFFICES ASSUME NEW i \in 1..Len(wire'), wire'[i].c \in {"show", "hide"}
               PROVE  wire'[i].id \in known
                      \/ \E j \in 1..(i - 1) : wire'[i].id \in Tells(wire'[j])
    BY DEF ToldBefore
  <2>1. CASE i \in 1..Len(wire)
    <3>1. \A j \in 1..(i - 1) : wire'[j] = wire[j]
      BY <1>1, <2>1
    <3>2. wire[i].id \in known \/ \E j \in 1..(i - 1) : wire[i].id \in Tells(wire[j])
      BY <1>1, <1>4, <2>1 DEF ToldBefore
    <3> QED BY <1>1, <2>1, <3>1, <3>2
  <2>2. CASE i = Len(wire) + 1
    <3>1. wire'[i].id \in Told
      BY <1>1, <1>4, <2>2
    <3> QED BY <1>1, <2>2, <3>1 DEF Told
  <2> QED BY <1>1, <2>1, <2>2
<1> QED BY <1>1, <1>2, <1>3, <1>4

\* The delivery of an event other than Create, whatever command it issues.
LEMMA DeliverStep ==
  ASSUME TInv, NEW types, Delivering(types), "Create" \notin types,
         Types', Told \subseteq Told', ToldBefore'
  PROVE  TInv'
<1>1. /\ Tail(events) \in Seq(About(Told))
      /\ Len(Tail(events)) = Len(events) - 1 /\ Len(events) \in Nat
      /\ \A i \in 1..Len(Tail(events)) : Tail(events)[i] = events[i + 1]
  BY HeadTailProperties, LenProperties DEF TInv, Delivering
<1>2. events' \in Seq(About(Told'))
  BY <1>1, AboutMore DEF Delivering
<1>3. BornTold'
  <2> SUFFICES ASSUME NEW v \in born' \ Told'
               PROVE  \E i \in 1..Len(events') : events'[i].type = "Create" /\ events'[i].w = v
    BY DEF BornTold
  <2>1. v \in born \ Told
    BY DEF Delivering, qtVars
  <2>2. PICK i \in 1..Len(events) : events[i].type = "Create" /\ events[i].w = v
    BY <2>1 DEF TInv, BornTold
  <2>3. i # 1
    BY <2>2 DEF Delivering
  <2>4. (i - 1) \in 1..Len(Tail(events)) /\ Tail(events)[i - 1] = events[i]
    BY <1>1, <2>3
  <2> QED BY <2>2, <2>4 DEF Delivering
<1> QED BY <1>2, <1>3 DEF TInv

LEMMA HeadType ==
  ASSUME TInv, NEW types, Delivering(types)
  PROVE  /\ Receiver \in Optional /\ Head(events).child \in Optional
         /\ Head(events).type \in {"Show", "Hide", "HideToParent"} => Receiver \in Told
         /\ Dequeued \in Optional
<1>1. Head(events) \in About(Told)
  BY HeadTailProperties DEF TInv, Delivering
<1> QED BY <1>1 DEF About, QtEvents, Receiver, Dequeued, Optional

LEMMA FilterKeeps ==
  ASSUME TInv, Filter, UNCHANGED pageVars
  PROVE  TInv'
<1> USE DEF pageVars
<1>0. UNCHANGED known
  OBVIOUS
<1>1. CASE FilterCreate
  <2>1. Receiver \in Optional
    BY <1>1, HeadType DEF FilterCreate
  <2> DEFINE cmd == Command("create", Receiver)
  <2>2. cmd \in Commands /\ Tells(cmd) = {Receiver} /\ Issue(cmd)
    BY <1>1, <2>1 DEF Command, Commands, CommandNames, Optional, Tells, FilterCreate
  <2>3. cmd.c = "create"
    BY DEF Command
  <2> HIDE DEF cmd
  <2>4. /\ wire' \in Seq(Commands) /\ Told \subseteq Told'
        /\ {Receiver} \cap Widgets \subseteq Told' /\ ToldBefore'
    BY <1>0, <2>2, <2>3, IssueTells DEF TInv
  <2>5. UNCHANGED <<born, active, parents>> /\ events' = Tail(events) /\ events # <<>>
    BY <1>1 DEF FilterCreate, Delivering, qtVars
  <2>6. tracked' \subseteq Optional
    BY <1>1, <2>1 DEF FilterCreate, TInv, Types
  <2>7. Types'
    BY <2>4, <2>5, <2>6 DEF TInv, Types
  <2>8. /\ Tail(events) \in Seq(About(Told))
        /\ Len(Tail(events)) = Len(events) - 1 /\ Len(events) \in Nat
        /\ \A i \in 1..Len(Tail(events)) : Tail(events)[i] = events[i + 1]
    BY <2>5, HeadTailProperties, LenProperties DEF TInv
  <2>9. events' \in Seq(About(Told'))
    BY <2>4, <2>5, <2>8, AboutMore
  <2>10. BornTold'
    <3> SUFFICES ASSUME NEW v \in born' \ Told'
                 PROVE  \E i \in 1..Len(events') : events'[i].type = "Create" /\ events'[i].w = v
      BY DEF BornTold
    <3>1. v \in born \ Told /\ v \in Widgets /\ v # Receiver
      BY <2>4, <2>5 DEF TInv, Types
    <3>2. PICK i \in 1..Len(events) : events[i].type = "Create" /\ events[i].w = v
      BY <3>1 DEF TInv, BornTold
    <3>3. i # 1
      BY <3>1, <3>2 DEF Receiver
    <3>4. (i - 1) \in 1..Len(Tail(events)) /\ Tail(events)[i - 1] = events[i]
      BY <2>8, <3>3
    <3> QED BY <2>5, <3>2, <3>4
  <2> QED BY <2>4, <2>7, <2>9, <2>10 DEF TInv
<1>2. CASE FilterChildAdded
  <2>1. Delivering({"ChildAdded"}) /\ UNCHANGED <<born, active, parents>>
    BY <1>2 DEF FilterChildAdded, Delivering, qtVars
  <2>2. Receiver \in Optional /\ Head(events).child \in Optional
    BY <2>1, HeadType
  <2> DEFINE cmd == [c |-> "addChild", id |-> Receiver, child |-> Head(events).child]
  <2>3. cmd \in Commands /\ Issue(cmd) /\ cmd.c = "addChild"
    BY <1>2, <2>2 DEF Commands, CommandNames, FilterChildAdded
  <2> HIDE DEF cmd
  <2>4. wire' \in Seq(Commands) /\ Told \subseteq Told' /\ ToldBefore'
    BY <1>0, <2>3, IssueTells DEF TInv
  <2>5. Types'
    BY <1>2, <2>1, <2>2, <2>4 DEF TInv, Types, FilterChildAdded
  <2> QED BY <2>1, <2>4, <2>5, DeliverStep
<1>3. CASE FilterGone
  <2>1. Delivering({"Destroy", "Close", "ChildRemoved"})
        /\ UNCHANGED <<born, active, parents, wire>>
    BY <1>3 DEF FilterGone, Delivering, qtVars
  <2>2. Types' /\ Told' = Told /\ ToldBefore'
    BY <1>3, <2>1 DEF FilterGone, TInv, Types, Told, ToldBefore
  <2> QED BY <2>1, <2>2, DeliverStep
<1>4. CASE FilterHide
  <2>1. Delivering({"Hide", "HideToParent"}) /\ UNCHANGED <<born, active, parents>>
    BY <1>4 DEF FilterHide, Delivering, qtVars
  <2>2. Receiver \in Optional /\ Receiver \in Told
    BY <2>1, HeadType DEF Delivering
  <2> DEFINE cmd == Command("hide", Receiver)
  <2>3. cmd \in Commands /\ Issue(cmd) /\ cmd.id = Receiver
    BY <1>4, <2>2 DEF Command, Commands, CommandNames, Optional, FilterHide
  <2> HIDE DEF cmd
  <2>4. wire' \in Seq(Commands) /\ Told \subseteq Told' /\ ToldBefore'
    BY <1>0, <2>2, <2>3, IssueTells DEF TInv
  <2>5. Types'
    BY <1>4, <2>1, <2>4 DEF TInv, Types, FilterHide
  <2> QED BY <2>1, <2>4, <2>5, DeliverStep
<1>5. CASE FilterShow
  <2>1. Delivering({"Show"}) /\ UNCHANGED <<born, active, parents>>
    BY <1>5 DEF FilterShow, Delivering, qtVars
  <2>2. Receiver \in Optional /\ Receiver \in Told
    BY <2>1, HeadType DEF Delivering
  <2> DEFINE cmd == Command("show", Receiver)
  <2>3. cmd \in Commands /\ Issue(cmd) /\ cmd.id = Receiver
    BY <1>5, <2>2 DEF Command, Commands, CommandNames, Optional, FilterShow
  <2> HIDE DEF cmd
  <2>4. wire' \in Seq(Commands) /\ Told \subseteq Told' /\ ToldBefore'
    BY <1>0, <2>2, <2>3, IssueTells DEF TInv
  <2>5. Types'
    BY <1>5, <2>1, <2>2, <2>4 DEF TInv, Types, FilterShow
  <2> QED BY <2>1, <2>4, <2>5, DeliverStep
<1>6. CASE FilterShowToParent
  <2>1. Delivering({"ShowToParent"}) /\ UNCHANGED <<born, active, parents, wire>>
    BY <1>6 DEF FilterShowToParent, Delivering, qtVars
  <2>2. Receiver \in Optional
    BY <2>1, HeadType
  <2>3. Types' /\ Told' = Told /\ ToldBefore'
    BY <1>6, <2>1, <2>2 DEF FilterShowToParent, TInv, Types, Told, ToldBefore
  <2> QED BY <2>1, <2>3, DeliverStep
<1>7. CASE FilterActivation
  <2>1. Delivering({"WindowActivate", "WindowDeactivate"})
        /\ UNCHANGED <<born, active, parents, tracked>>
    BY <1>7 DEF FilterActivation, Delivering, qtVars
  <2>2. Receiver \in Optional
    BY <2>1, HeadType
  <2>3. CASE Reported(Receiver)
    <3>1. PICK name \in {"activate", "deactivate"} : Issue(Command(name, Receiver))
      BY <1>7, <2>3 DEF FilterActivation
    <3> DEFINE cmd == Command(name, Receiver)
    <3>2. cmd \in Commands /\ cmd.c = name
      BY <2>2 DEF Command, Commands, CommandNames, Optional
    <3> HIDE DEF cmd
    <3>3. Issue(cmd)
      BY <3>1 DEF cmd
    <3>4. wire' \in Seq(Commands) /\ Told \subseteq Told' /\ ToldBefore'
      BY <1>0, <3>2, <3>3, IssueTells DEF TInv
    <3>5. Types'
      BY <2>1, <3>4 DEF TInv, Types
    <3> QED BY <2>1, <3>4, <3>5, DeliverStep
  <2>4. CASE ~Reported(Receiver)
    <3>1. UNCHANGED wire
      BY <1>7, <2>4 DEF FilterActivation
    <3>2. Types' /\ Told' = Told /\ ToldBefore'
      BY <2>1, <3>1 DEF TInv, Types, Told, ToldBefore
    <3> QED BY <2>1, <3>2, DeliverStep
  <2> QED BY <2>3, <2>4
<1> QED BY <1>1, <1>2, <1>3, <1>4, <1>5, <1>6, <1>7 DEF Filter

-----------------------------------------------------------------------------
(* The dispatcher and the page.                                            *)

LEMMA DispatchKeeps ==
  ASSUME TInv, Dispatch, UNCHANGED pageVars
  PROVE  TInv'
<1>1. CASE DispatchActivate
  <2>1. events = <<>> /\ UNCHANGED <<known, wire, born, tracked, parents>>
    BY <1>1 DEF DispatchActivate, Idle, filterVars, pageVars
  <2>2. Head(inbox).id \in Optional
    BY <1>1 DEF DispatchActivate, TInv, Types
  <2>3. Types'
    BY <1>1, <2>1, <2>2 DEF DispatchActivate, TInv, Types
  <2>4. events' \in Seq(About(Told))
    BY <1>1, <2>2, ActivationEventsType, QuietIsAbout DEF DispatchActivate, TInv, Types
  <2> QED BY <2>1, <2>3, <2>4, CallStep
<1>2. CASE EndActivate \/ DispatchNothing
  <2>1. UNCHANGED <<known, wire, born, tracked, parents, active, events>>
    BY <1>2 DEF EndActivate, DispatchNothing, qtVars, filterVars, pageVars
  <2> QED BY <2>1 DEF TInv, Types, Told, BornTold, ToldBefore
<1>3. ASSUME NEW accepts \in BOOLEAN, DispatchClose(accepts)
      PROVE  TInv'
  <2>1. Head(inbox).id \in Optional
    BY <1>3 DEF DispatchClose, TInv, Types
  <2> QED BY <1>3, <2>1, CloseWindowKeeps DEF DispatchClose, Idle
<1> QED BY <1>1, <1>2, <1>3 DEF Dispatch

\* The page comes to know of widgets and the application does nothing.
LEMMA PageStep ==
  ASSUME TInv, known \subseteq known',
         UNCHANGED <<wire, born, tracked, parents, active, events>>
  PROVE  TInv'
<1>1. Told \subseteq Told'
  BY DEF Told
<1>2. events' \in Seq(About(Told'))
  BY <1>1, AboutMore DEF TInv
<1>3. BornTold' /\ Types'
  BY <1>1 DEF TInv, BornTold, Types
<1>4. ToldBefore'
  BY DEF TInv, ToldBefore
<1> QED BY <1>2, <1>3, <1>4 DEF TInv

LEMMA ExecuteTells ==
  ASSUME NEW cmd, Execute(cmd)
  PROVE  known \subseteq known' /\ Tells(cmd) \subseteq known'
BY DEF Execute, Create, AddChild, Show, Hide, Activate, Deactivate, Tells

LEMMA PageExecuteKeeps ==
  ASSUME TInv, PageExecute
  PROVE  TInv'
<1>1. UNCHANGED <<born, tracked, parents, active, events>>
  BY DEF PageExecute, qtVars
<1>2. /\ wire' \in Seq(Commands) /\ Len(wire') = Len(wire) - 1 /\ Len(wire) \in Nat \ {0}
      /\ \A i \in 1..Len(wire') : wire'[i] = wire[i + 1]
  BY HeadTailProperties, EmptySeq DEF PageExecute, TInv, Types
<1>3. known \subseteq known' /\ Tells(wire[1]) \subseteq known'
  BY ExecuteTells DEF PageExecute
<1>4. \A i \in 1..Len(wire) : \A w : w \in Tells(wire[i]) =>
         w \in known' \/ (i - 1 \in 1..Len(wire') /\ w \in Tells(wire'[i - 1]))
  <2> SUFFICES ASSUME NEW i \in 1..Len(wire), NEW w, w \in Tells(wire[i]), i # 1
               PROVE  i - 1 \in 1..Len(wire') /\ w \in Tells(wire'[i - 1])
    BY <1>3
  <2>1. i - 1 \in 1..Len(wire') /\ wire'[i - 1] = wire[i]
    BY <1>2
  <2> QED BY <2>1
<1>5. Told \subseteq Told'
  BY <1>3, <1>4 DEF Told
<1>6. events' \in Seq(About(Told'))
  BY <1>1, <1>5, AboutMore DEF TInv
<1>7. BornTold' /\ Types'
  BY <1>1, <1>2, <1>5 DEF TInv, BornTold, Types
<1>8. ToldBefore'
  <2> SUFFICES ASSUME NEW i \in 1..Len(wire'), wire'[i].c \in {"show", "hide"}
               PROVE  wire'[i].id \in known'
                      \/ \E j \in 1..(i - 1) : wire'[i].id \in Tells(wire'[j])
    BY DEF ToldBefore
  <2>1. i + 1 \in 1..Len(wire) /\ wire'[i] = wire[i + 1]
    BY <1>2
  <2>2. CASE wire[i + 1].id \in known
    BY <1>3, <2>1, <2>2
  <2>3. CASE wire[i + 1].id \notin known
    <3>1. PICK j \in 1..i : wire[i + 1].id \in Tells(wire[j])
      BY <2>1, <2>3 DEF TInv, ToldBefore
    <3>2. j \in 1..Len(wire) /\ (j - 1 \in 1..Len(wire') => j - 1 \in 1..(i - 1))
      BY <1>2
    <3> QED BY <1>4, <2>1, <3>1, <3>2
  <2> QED BY <2>2, <2>3
<1> QED BY <1>6, <1>7, <1>8 DEF TInv

LEMMA TInvInit == Init => TInv
<1> SUFFICES ASSUME Init PROVE TInv
  OBVIOUS
<1>1. born = {} /\ tracked = {} /\ active = NoWidget /\ wire = <<>> /\ events = <<>>
      /\ parents = [w \in Widgets |-> <<>>]
  BY DEF Init, InitApp
<1>2. Types
  BY <1>1, EmptySeq DEF Types, Optional
<1>3. events \in Seq(About(Told))
  BY <1>1, EmptySeq
<1>4. BornTold /\ ToldBefore
  BY <1>1 DEF BornTold, ToldBefore
<1> QED BY <1>2, <1>3, <1>4 DEF TInv

LEMMA TInvStep == TInv /\ [Next]_vars => TInv'
<1> SUFFICES ASSUME TInv, [Next]_vars PROVE TInv'
  OBVIOUS
<1>1. CASE Application
  BY <1>1, ApplicationKeeps
<1>2. CASE Deliver
  BY <1>2, FilterKeeps DEF Deliver
<1>3. CASE Render
  <2>1. UNCHANGED <<wire, born, tracked, parents, active, events, known>>
    BY <1>3 DEF Render, RenderWidget, qtVars, filterVars, pageVars
  <2> QED BY <2>1, PageStep
<1>4. CASE Serve
  BY <1>4, DispatchKeeps DEF Serve
<1>5. CASE Parse
  <2>1. UNCHANGED <<wire, born, tracked, parents, active, events, known>>
    BY <1>5 DEF Parse, appVars, qtVars, filterVars
  <2> QED BY <2>1, PageStep
<1>6. CASE Post
  <2>1. UNCHANGED <<wire, born, tracked, parents, active, events, known>>
    BY <1>6 DEF Post, qtVars, filterVars, pageVars
  <2> QED BY <2>1, PageStep
<1>7. CASE PageExecute
  BY <1>7, PageExecuteKeeps
<1>8. ASSUME NEW w \in Widgets, PageDraw(w) PROVE TInv'
  <2>1. UNCHANGED <<wire, born, tracked, parents, active, events>> /\ known \subseteq known'
    BY <1>8 DEF PageDraw, Draw, qtVars, filterVars
  <2> QED BY <2>1, PageStep
<1>9. CASE User
  <2>1. UNCHANGED <<wire, born, tracked, parents, active, events, known>>
    BY <1>9 DEF User, Click, ClickClose, appVars, qtVars, filterVars
  <2> QED BY <2>1, PageStep
<1>10. CASE UNCHANGED vars
  <2>1. UNCHANGED <<wire, born, tracked, parents, active, events, known>>
    BY <1>10 DEF vars, appVars, qtVars, filterVars, pageVars
  <2> QED BY <2>1, PageStep
<1> QED BY <1>1, <1>2, <1>3, <1>4, <1>5, <1>6, <1>7, <1>8, <1>9, <1>10 DEF Next

LEMMA HeadIsKnown == TInv => ShownIsKnown
<1> SUFFICES ASSUME TInv, wire # <<>>, Head(wire).c \in {"show", "hide"}
             PROVE  Head(wire).id \in known
  BY DEF ShownIsKnown
<1>1. Len(wire) \in Nat \ {0}
  BY EmptySeq DEF TInv, Types
<1>2. 1 \in 1..Len(wire) /\ Head(wire) = wire[1]
  BY <1>1
<1> QED BY <1>2 DEF TInv, ToldBefore

\* showElement and hideElement never read this.widgets of a widget that the page has
\* not heard of, whatever windows the application makes and however far the page is
\* behind.
THEOREM PageKnowsWhatItShows == Spec => []ShownIsKnown
<1>1. Spec => []TInv
  BY TInvInit, TInvStep, PTL DEF Spec
<1> QED BY <1>1, HeadIsKnown, PTL

-----------------------------------------------------------------------------
(* The moves of a plain widget.  Each of its parents is, from the oldest to the *)
(* latest, one that the page has moved it to, one that a command on its way     *)
(* moves it to, or one that an event is still to tell of.  As long as no parent  *)
(* comes back, a parent stands for its move, and the page takes every command    *)
(* for a move.                                                                  *)

PlainKind == {w \in Widgets : ~IsWindow(w)}

Adding(cmd, w) == cmd.c = "addChild" /\ cmd.child = w
Announcing(e, w) == e.type = "ChildAdded" /\ e.child = w

\* One of the first n commands of s adds w to p.
Adds(s, n, w, p) == \E x \in 1..n : Adding(s[x], w) /\ s[x].id = p

\* The page has w as a child of parents of w only, of the oldest ones, and the
\* container of w stands in the latest of them.
OnlyParents(w) ==
    \A p \in Widgets : w \in kids[p] => \E i \in 1..Len(parents[w]) : parents[w][i] = p
OldestFirst(w) ==
    \A i, j \in 1..Len(parents[w]) :
      i < j /\ w \in kids[parents[w][j]] => w \in kids[parents[w][i]]
InLatest(w) ==
    \A i \in 1..Len(parents[w]) :
      /\ w \in kids[parents[w][i]]
      /\ \A j \in 1..Len(parents[w]) : i < j => w \notin kids[parents[w][j]]
      => box[w] = parents[w][i]

\* The commands on their way add w to later parents, in their order and once each.
WireInTurn(w) ==
    \A x \in 1..Len(wire) : Adding(wire[x], w) =>
      /\ w \notin kids[wire[x].id]
      /\ \E i \in 1..Len(parents[w]) :
           /\ parents[w][i] = wire[x].id
           /\ \A j \in 1..Len(parents[w]) :
                j < i => w \in kids[parents[w][j]] \/ Adds(wire, x - 1, w, parents[w][j])
WireOnce(w) ==
    \A x, y \in 1..Len(wire) :
      Adding(wire[x], w) /\ Adding(wire[y], w) /\ wire[x].id = wire[y].id => x = y

\* An event to come tells of the present parent, and the others have been told of.
EventLast(w) ==
    \A x \in 1..Len(events) : Announcing(events[x], w) =>
      /\ Len(parents[w]) > 0 /\ events[x].w = parents[w][Len(parents[w])]
      /\ w \notin kids[events[x].w] /\ ~Adds(wire, Len(wire), w, events[x].w)
      /\ \A j \in 1..Len(parents[w]) : j < Len(parents[w]) =>
           w \in kids[parents[w][j]] \/ Adds(wire, Len(wire), w, parents[w][j])
EventOnce(w) ==
    \A x, y \in 1..Len(events) : Announcing(events[x], w) /\ Announcing(events[y], w) => x = y

\* No parent is forgotten.
NoneForgotten(w) ==
    \A i \in 1..Len(parents[w]) :
      \/ w \in kids[parents[w][i]]
      \/ Adds(wire, Len(wire), w, parents[w][i])
      \/ \E x \in 1..Len(events) : Announcing(events[x], w) /\ events[x].w = parents[w][i]

Follows(w) ==
    /\ OnlyParents(w) /\ OldestFirst(w) /\ InLatest(w)
    /\ WireInTurn(w) /\ WireOnce(w)
    /\ EventLast(w) /\ EventOnce(w)
    /\ NoneForgotten(w)

\* Only windows have children.
Adoptions ==
    /\ kids \in [Widgets -> SUBSET Widgets]
    /\ \A x \in 1..Len(wire) : wire[x].c = "addChild" =>
         wire[x].id \in Widgets \ PlainKind /\ wire[x].child \in Widgets
    /\ \A x \in 1..Len(events) : events[x].type = "ChildAdded" =>
         events[x].w \in Widgets \ PlainKind /\ events[x].child \in Widgets

\* A plain widget has had parents since it was constructed.
Parenthood ==
    /\ \A w \in Widgets \ born : parents[w] = <<>>
    /\ \A w \in PlainKind \cap born : parents[w] # <<>>

MInv ==
    /\ TInv
    /\ Adoptions /\ Parenthood
    /\ \A w \in PlainKind : IsInjective(parents[w]) => Follows(w)

\* A call of Qt after which no event tells of a new parent of w.
LEMMA CallFollows ==
  ASSUME NEW w \in PlainKind, Follows(w), events = <<>>,
         \A x \in 1..Len(events') : ~Announcing(events'[x], w),
         parents'[w] = parents[w], UNCHANGED <<wire, kids, box>>
  PROVE  Follows(w)'
<1>1. /\ OnlyParents(w)' /\ OldestFirst(w)' /\ InLatest(w)'
      /\ WireInTurn(w)' /\ WireOnce(w)'
  BY DEF Follows, OnlyParents, OldestFirst, InLatest, WireInTurn, WireOnce, Adds
<1>2. EventLast(w)' /\ EventOnce(w)'
  BY DEF EventLast, EventOnce
<1>3. NoneForgotten(w)'
  <2>1. \A x \in 1..Len(events) : FALSE
    BY EmptySeq
  <2> QED BY <2>1 DEF Follows, NoneForgotten, Adds
<1> QED BY <1>1, <1>2, <1>3 DEF Follows

\* One event of a call tells of a new parent p of v; no other tells of a parent.
Moving(v, p) ==
    \E k \in 1..Len(events') :
      /\ Announcing(events'[k], v) /\ events'[k].w = p
      /\ \A x \in 1..Len(events') : x # k => events'[x].type # "ChildAdded"

LEMMA MoveFollows ==
  ASSUME NEW w \in PlainKind, NEW p \in Widgets, parents[w] \in Seq(Widgets),
         parents'[w] = Append(parents[w], p), IsInjective(parents'[w]),
         IsInjective(parents[w]) => Follows(w),
         events = <<>>, Moving(w, p), UNCHANGED <<wire, kids, box>>
  PROVE  Follows(w)'
<1> DEFINE ps == parents[w]
           n == Len(ps)
<1>1. /\ n \in Nat /\ Len(parents'[w]) = n + 1 /\ parents'[w][n + 1] = p
      /\ \A i \in 1..n : parents'[w][i] = ps[i]
      /\ DOMAIN parents'[w] = 1..(n + 1) /\ DOMAIN ps = 1..n
  OBVIOUS
<1>2. IsInjective(ps)
  BY <1>1 DEF IsInjective
<1>3. \A i \in 1..n : ps[i] # p
  BY <1>1 DEF IsInjective
<1>4. Follows(w)
  BY <1>2
<1>5. \A x \in 1..Len(events) : FALSE
  BY EmptySeq
<1>6. w \notin kids[p] /\ ~Adds(wire, Len(wire), w, p)
  BY <1>3, <1>4 DEF Follows, OnlyParents, WireInTurn, Adds
<1>7. \A i \in 1..n : w \in kids[ps[i]] \/ Adds(wire, Len(wire), w, ps[i])
  BY <1>4, <1>5 DEF Follows, NoneForgotten
<1> HIDE DEF ps, n
<1>8. OnlyParents(w)' /\ OldestFirst(w)' /\ InLatest(w)'
  <2>1. OnlyParents(w)'
    BY <1>1, <1>4 DEF Follows, OnlyParents, ps, n
  <2>2. OldestFirst(w)'
    BY <1>1, <1>4, <1>6 DEF Follows, OldestFirst, ps, n
  <2>3. InLatest(w)'
    BY <1>1, <1>4, <1>6 DEF Follows, InLatest, ps, n
  <2> QED BY <2>1, <2>2, <2>3
<1>9. WireInTurn(w)' /\ WireOnce(w)'
  <2>1. WireOnce(w)'
    BY <1>4 DEF Follows, WireOnce
  <2>2. ASSUME NEW x \in 1..Len(wire), Adding(wire[x], w)
        PROVE  /\ w \notin kids[wire[x].id]
               /\ \E i \in 1..(n + 1) :
                    /\ parents'[w][i] = wire[x].id
                    /\ \A j \in 1..(n + 1) :
                         j < i => \/ w \in kids[parents'[w][j]]
                                  \/ Adds(wire, x - 1, w, parents'[w][j])
    <3>1. w \notin kids[wire[x].id]
      BY <1>4, <2>2 DEF Follows, WireInTurn
    <3>2. PICK i \in 1..n :
            /\ ps[i] = wire[x].id
            /\ \A j \in 1..n : j < i => w \in kids[ps[j]] \/ Adds(wire, x - 1, w, ps[j])
      BY <1>4, <2>2 DEF Follows, WireInTurn, ps, n
    <3>3. i \in 1..(n + 1) /\ \A j \in 1..(n + 1) : j < i => j \in 1..n
      BY <1>1
    <3>4. parents'[w][i] = wire[x].id
      BY <1>1, <3>2
    <3>5. ASSUME NEW j \in 1..(n + 1), j < i
          PROVE  w \in kids[parents'[w][j]] \/ Adds(wire, x - 1, w, parents'[w][j])
      <4>1. j \in 1..n /\ parents'[w][j] = ps[j]
        BY <1>1, <3>3, <3>5
      <4> QED BY <3>2, <3>5, <4>1
    <3> QED BY <3>1, <3>3, <3>4, <3>5
  <2>3. Len(parents'[w]) = n + 1
    BY <1>1
  <2> QED BY <2>1, <2>2, <2>3 DEF WireInTurn
<1>10. PICK k \in 1..Len(events') :
         /\ Announcing(events'[k], w) /\ events'[k].w = p
         /\ \A x \in 1..Len(events') : x # k => events'[x].type # "ChildAdded"
  BY DEF Moving
<1>11. EventLast(w)' /\ EventOnce(w)'
  <2>1. EventOnce(w)'
    BY <1>10 DEF EventOnce, Announcing
  <2>2. EventLast(w)'
    BY <1>1, <1>6, <1>7, <1>10 DEF EventLast, Announcing, Adds, ps, n
  <2> QED BY <2>1, <2>2
<1>12. NoneForgotten(w)'
  BY <1>1, <1>7, <1>10 DEF NoneForgotten, Adds
<1> QED BY <1>8, <1>9, <1>11, <1>12 DEF Follows

LEMMA TailElements ==
  ASSUME NEW S, NEW s \in Seq(S), s # <<>>
  PROVE  /\ Len(s) \in Nat \ {0} /\ Len(Tail(s)) = Len(s) - 1
         /\ \A i \in 1..Len(Tail(s)) : i + 1 \in 1..Len(s) /\ Tail(s)[i] = s[i + 1]
         /\ \A i \in 1..Len(s) : i # 1 => i - 1 \in 1..Len(Tail(s)) /\ Tail(s)[i - 1] = s[i]
         /\ 1 \in 1..Len(s) /\ Head(s) = s[1]
<1>1. /\ Len(s) \in Nat \ {0} /\ Len(Tail(s)) = Len(s) - 1
      /\ \A i \in 1..Len(Tail(s)) : Tail(s)[i] = s[i + 1]
      /\ Head(s) = s[1]
  BY HeadTailProperties, EmptySeq
<1> QED BY <1>1

\* An event that tells of no new parent of w is delivered, and the filter tells the page
\* of none.
LEMMA DeliverFollows ==
  ASSUME NEW w \in PlainKind, Follows(w), NEW S, events \in Seq(S), events # <<>>,
         ~Announcing(Head(events), w), events' = Tail(events),
         wire \in Seq(Commands),
         \/ UNCHANGED wire
         \/ \E cmd \in Commands : wire' = Append(wire, cmd) /\ ~Adding(cmd, w),
         UNCHANGED <<parents, kids, box>>
  PROVE  Follows(w)'
<1> DEFINE n == Len(wire)
<1>1. /\ n \in Nat /\ Len(wire') \in Nat /\ n <= Len(wire')
      /\ \A x \in 1..n : x \in 1..Len(wire') /\ wire'[x] = wire[x]
      /\ \A x \in 1..Len(wire') : Adding(wire'[x], w) => x \in 1..n
  <2>1. CASE UNCHANGED wire
    BY <2>1
  <2>2. ASSUME NEW cmd \in Commands, wire' = Append(wire, cmd), ~Adding(cmd, w)
        PROVE  <1>1!:
    BY <2>2
  <2> QED BY <2>1, <2>2
<1> HIDE DEF n
<1>2. ASSUME NEW p PROVE Adds(wire', Len(wire'), w, p) <=> Adds(wire, Len(wire), w, p)
  BY <1>1 DEF Adds, n
<1>3. ASSUME NEW p, NEW x \in 1..n PROVE Adds(wire', x - 1, w, p) <=> Adds(wire, x - 1, w, p)
  <2>1. \A y \in 1..(x - 1) : y \in 1..n /\ wire'[y] = wire[y]
    BY <1>1
  <2> QED BY <2>1 DEF Adds
<1>4. /\ Len(events) \in Nat \ {0} /\ Len(events') = Len(events) - 1
      /\ \A i \in 1..Len(events') : i + 1 \in 1..Len(events) /\ events'[i] = events[i + 1]
      /\ \A i \in 1..Len(events) : i # 1 => i - 1 \in 1..Len(events') /\ events'[i - 1] = events[i]
      /\ ~Announcing(events[1], w)
  BY TailElements
<1>5. OnlyParents(w)' /\ OldestFirst(w)' /\ InLatest(w)'
  BY DEF Follows, OnlyParents, OldestFirst, InLatest
<1>6. WireInTurn(w)'
  <2> SUFFICES ASSUME NEW x \in 1..Len(wire'), Adding(wire'[x], w)
               PROVE  /\ w \notin kids[wire[x].id] /\ wire'[x] = wire[x]
                      /\ \E i \in 1..Len(parents[w]) :
                           /\ parents[w][i] = wire[x].id
                           /\ \A j \in 1..Len(parents[w]) :
                                j < i => \/ w \in kids[parents[w][j]]
                                         \/ Adds(wire', x - 1, w, parents[w][j])
    BY DEF WireInTurn
  <2>1. x \in 1..n /\ wire'[x] = wire[x]
    BY <1>1
  <2> QED BY <1>3, <2>1 DEF Follows, WireInTurn, n
<1>7. WireOnce(w)'
  BY <1>1 DEF Follows, WireOnce, n
<1>8. EventLast(w)'
  BY <1>2, <1>4 DEF Follows, EventLast
<1>9. EventOnce(w)'
  <2> SUFFICES ASSUME NEW x \in 1..Len(events'), NEW y \in 1..Len(events'),
                      Announcing(events'[x], w), Announcing(events'[y], w)
               PROVE  x = y
    BY DEF EventOnce
  <2>1. x + 1 = y + 1
    BY <1>4 DEF Follows, EventOnce
  <2> QED BY <2>1
<1>10. NoneForgotten(w)'
  <2> SUFFICES ASSUME NEW i \in 1..Len(parents[w]), w \notin kids[parents[w][i]],
                      ~Adds(wire, Len(wire), w, parents[w][i])
               PROVE  \E x \in 1..Len(events') :
                        Announcing(events'[x], w) /\ events'[x].w = parents[w][i]
    BY <1>2 DEF NoneForgotten
  <2>1. PICK x \in 1..Len(events) : Announcing(events[x], w) /\ events[x].w = parents[w][i]
    BY DEF Follows, NoneForgotten
  <2>2. x # 1
    BY <1>4, <2>1
  <2> QED BY <1>4, <2>1, <2>2
<1> QED BY <1>5, <1>6, <1>7, <1>8, <1>9, <1>10 DEF Follows

\* The event of a new parent is delivered, and the filter tells the page.
LEMMA TellFollows ==
  ASSUME NEW w \in PlainKind, Follows(w), NEW S, events \in Seq(S), events # <<>>,
         Announcing(Head(events), w), events' = Tail(events),
         wire \in Seq(Commands), NEW cmd \in Commands, wire' = Append(wire, cmd),
         Adding(cmd, w), cmd.id = Head(events).w,
         parents[w] \in Seq(Widgets), UNCHANGED <<parents, kids, box>>
  PROVE  Follows(w)'
<1> DEFINE n == Len(wire)
           ps == parents[w]
           m == Len(ps)
           p == Head(events).w
<1>1. /\ n \in Nat /\ Len(wire') = n + 1 /\ wire'[n + 1] = cmd
      /\ \A x \in 1..n : wire'[x] = wire[x]
  OBVIOUS
<1>2. /\ Len(events) \in Nat \ {0} /\ Len(events') = Len(events) - 1
      /\ \A i \in 1..Len(events') : i + 1 \in 1..Len(events) /\ events'[i] = events[i + 1]
      /\ 1 \in 1..Len(events) /\ Head(events) = events[1]
  BY TailElements
<1>3. /\ m > 0 /\ p = ps[m] /\ w \notin kids[p] /\ ~Adds(wire, n, w, p)
      /\ \A j \in 1..m : j < m => w \in kids[ps[j]] \/ Adds(wire, n, w, ps[j])
  BY <1>2 DEF Follows, EventLast
<1>4. m \in Nat /\ m \in 1..m
  BY <1>3
<1>5. \A x \in 1..Len(events') : ~Announcing(events'[x], w)
  <2> SUFFICES ASSUME NEW x \in 1..Len(events'), Announcing(events'[x], w) PROVE FALSE
    OBVIOUS
  <2>1. x + 1 = 1
    BY <1>2 DEF Follows, EventOnce
  <2> QED BY <2>1
<1> HIDE DEF n, ps, m, p
<1>6. \A q, x : x \in 0..n => (Adds(wire', x, w, q) <=> Adds(wire, x, w, q))
  <2> SUFFICES ASSUME NEW q, NEW x \in 0..n PROVE Adds(wire', x, w, q) <=> Adds(wire, x, w, q)
    OBVIOUS
  <2>1. \A y \in 1..x : y \in 1..n /\ wire'[y] = wire[y]
    BY <1>1
  <2> QED BY <2>1 DEF Adds
<1>7. OnlyParents(w)' /\ OldestFirst(w)' /\ InLatest(w)'
  BY DEF Follows, OnlyParents, OldestFirst, InLatest
<1>8. WireInTurn(w)'
  <2> SUFFICES ASSUME NEW x \in 1..(n + 1), Adding(wire'[x], w)
               PROVE  /\ w \notin kids[wire'[x].id]
                      /\ \E i \in 1..m :
                           /\ ps[i] = wire'[x].id
                           /\ \A j \in 1..m :
                                j < i => w \in kids[ps[j]] \/ Adds(wire', x - 1, w, ps[j])
    BY <1>1 DEF WireInTurn, ps, m
  <2>1. CASE x \in 1..n
    <3>1. x - 1 \in 0..n /\ wire'[x] = wire[x]
      BY <1>1, <2>1
    <3> QED BY <1>6, <2>1, <3>1 DEF Follows, WireInTurn, ps, m, n
  <2>2. CASE x = n + 1
    <3>1. x - 1 = n /\ n \in 0..n /\ wire'[x].id = p
      BY <1>1, <2>2 DEF p
    <3> QED BY <1>3, <1>4, <1>6, <3>1
  <2> QED BY <1>1, <2>1, <2>2
<1>9. WireOnce(w)'
  <2> SUFFICES ASSUME NEW x \in 1..(n + 1), NEW y \in 1..(n + 1), Adding(wire'[x], w),
                      Adding(wire'[y], w), wire'[x].id = wire'[y].id
               PROVE  x = y
    BY <1>1 DEF WireOnce
  <2>1. CASE x \in 1..n /\ y \in 1..n
    BY <1>1, <2>1 DEF Follows, WireOnce, n
  <2>2. ASSUME NEW z \in 1..n, Adding(wire'[z], w), wire'[z].id = wire'[n + 1].id PROVE FALSE
    BY <1>1, <1>3, <2>2 DEF Adds, p
  <2> QED BY <1>1, <2>1, <2>2
<1>10. EventLast(w)' /\ EventOnce(w)'
  BY <1>5 DEF EventLast, EventOnce
<1>11. NoneForgotten(w)'
  <2> SUFFICES ASSUME NEW i \in 1..m
               PROVE  w \in kids[ps[i]] \/ Adds(wire', n + 1, w, ps[i])
    BY <1>1 DEF NoneForgotten, ps, m
  <2>1. CASE i = m
    <3>1. n + 1 \in 1..(n + 1) /\ Adding(wire'[n + 1], w) /\ wire'[n + 1].id = ps[i]
      BY <1>1, <1>3, <2>1 DEF p
    <3> QED BY <3>1 DEF Adds
  <2>2. CASE i # m
    <3>0. i < m /\ n \in 0..n
      BY <1>1, <1>4, <2>2
    <3>1. w \in kids[ps[i]] \/ Adds(wire', n, w, ps[i])
      BY <1>3, <1>6, <3>0
    <3>2. \A y \in 1..n : y \in 1..(n + 1)
      BY <1>1
    <3> QED BY <3>1, <3>2 DEF Adds
  <2> QED BY <2>1, <2>2
<1> QED BY <1>7, <1>8, <1>9, <1>10, <1>11 DEF Follows

\* The page executes a command that does not concern w.
LEMMA PageFollows ==
  ASSUME NEW w \in PlainKind, Follows(w), wire \in Seq(Commands), wire # <<>>,
         ~Adding(Head(wire), w), wire' = Tail(wire),
         \A x \in 1..Len(wire) : Adding(wire[x], w) => wire[x].id \in Widgets,
         \A x \in 1..Len(events) : Announcing(events[x], w) => events[x].w \in Widgets,
         parents[w] \in Seq(Widgets),
         \A p \in Widgets : w \in kids'[p] <=> w \in kids[p],
         box'[w] = box[w], UNCHANGED <<parents, events>>
  PROVE  Follows(w)'
<1>1. /\ Len(wire) \in Nat \ {0} /\ Len(wire') = Len(wire) - 1
      /\ \A i \in 1..Len(wire') : i + 1 \in 1..Len(wire) /\ wire'[i] = wire[i + 1]
      /\ \A i \in 1..Len(wire) : i # 1 => i - 1 \in 1..Len(wire') /\ wire'[i - 1] = wire[i]
      /\ ~Adding(wire[1], w)
  BY TailElements
<1>2. \A i \in 1..Len(parents[w]) : parents[w][i] \in Widgets
  OBVIOUS
<1>3. \A q : \A x \in 0..Len(wire') : Adds(wire', x, w, q) <=> Adds(wire, x + 1, w, q)
  <2> SUFFICES ASSUME NEW q, NEW x \in 0..Len(wire')
               PROVE  Adds(wire', x, w, q) <=> Adds(wire, x + 1, w, q)
    OBVIOUS
  <2>1. ASSUME NEW y \in 1..x PROVE wire'[y] = wire[y + 1] /\ y + 1 \in 1..(x + 1)
    BY <1>1
  <2>2. ASSUME NEW y \in 1..(x + 1), y # 1 PROVE wire'[y - 1] = wire[y] /\ y - 1 \in 1..x
    BY <1>1, <2>2
  <2>3. ASSUME Adds(wire', x, w, q) PROVE Adds(wire, x + 1, w, q)
    <3>1. PICK y \in 1..x : Adding(wire'[y], w) /\ wire'[y].id = q
      BY <2>3 DEF Adds
    <3> QED BY <2>1, <3>1 DEF Adds
  <2>4. ASSUME Adds(wire, x + 1, w, q) PROVE Adds(wire', x, w, q)
    <3>1. PICK y \in 1..(x + 1) : Adding(wire[y], w) /\ wire[y].id = q
      BY <2>4 DEF Adds
    <3>2. y # 1
      BY <1>1, <3>1
    <3> QED BY <2>2, <3>1, <3>2 DEF Adds
  <2> QED BY <2>3, <2>4
<1>4. \A q : Adds(wire', Len(wire'), w, q) <=> Adds(wire, Len(wire), w, q)
  BY <1>1, <1>3
<1>5. OnlyParents(w)' /\ OldestFirst(w)' /\ InLatest(w)'
  BY <1>2 DEF Follows, OnlyParents, OldestFirst, InLatest
<1>6. WireInTurn(w)'
  <2> SUFFICES ASSUME NEW x \in 1..Len(wire'), Adding(wire'[x], w)
               PROVE  /\ w \notin kids'[wire'[x].id]
                      /\ \E i \in 1..Len(parents[w]) :
                           /\ parents[w][i] = wire'[x].id
                           /\ \A j \in 1..Len(parents[w]) :
                                j < i => \/ w \in kids'[parents[w][j]]
                                         \/ Adds(wire', x - 1, w, parents[w][j])
    BY DEF WireInTurn
  <2>1. x + 1 \in 1..Len(wire) /\ wire'[x] = wire[x + 1] /\ x - 1 \in 0..Len(wire')
        /\ (x - 1) + 1 = (x + 1) - 1
    BY <1>1
  <2>2. w \notin kids[wire[x + 1].id] /\ wire[x + 1].id \in Widgets
    BY <2>1 DEF Follows, WireInTurn
  <2>3. PICK i \in 1..Len(parents[w]) :
          /\ parents[w][i] = wire[x + 1].id
          /\ \A j \in 1..Len(parents[w]) :
               j < i => w \in kids[parents[w][j]] \/ Adds(wire, (x + 1) - 1, w, parents[w][j])
    BY <2>1 DEF Follows, WireInTurn
  <2> QED BY <1>2, <1>3, <2>1, <2>2, <2>3
<1>7. WireOnce(w)'
  <2> SUFFICES ASSUME NEW x \in 1..Len(wire'), NEW y \in 1..Len(wire'), Adding(wire'[x], w),
                      Adding(wire'[y], w), wire'[x].id = wire'[y].id
               PROVE  x = y
    BY DEF WireOnce
  <2>1. x + 1 = y + 1
    BY <1>1 DEF Follows, WireOnce
  <2> QED BY <2>1
<1>8. EventOnce(w)'
  BY DEF Follows, EventOnce
<1>9. EventLast(w)'
  <2> SUFFICES ASSUME NEW x \in 1..Len(events), Announcing(events[x], w)
               PROVE  /\ Len(parents[w]) > 0 /\ events[x].w = parents[w][Len(parents[w])]
                      /\ w \notin kids'[events[x].w]
                      /\ ~Adds(wire', Len(wire'), w, events[x].w)
                      /\ \A j \in 1..Len(parents[w]) : j < Len(parents[w]) =>
                           \/ w \in kids'[parents[w][j]]
                           \/ Adds(wire', Len(wire'), w, parents[w][j])
    BY DEF EventLast
  <2> QED BY <1>2, <1>4 DEF Follows, EventLast
<1>10. NoneForgotten(w)'
  <2> SUFFICES ASSUME NEW i \in 1..Len(parents[w])
               PROVE  \/ w \in kids'[parents[w][i]] \/ Adds(wire', Len(wire'), w, parents[w][i])
                      \/ \E x \in 1..Len(events) :
                           Announcing(events[x], w) /\ events[x].w = parents[w][i]
    BY DEF NoneForgotten
  <2> QED BY <1>2, <1>4 DEF Follows, NoneForgotten
<1> QED BY <1>5, <1>6, <1>7, <1>8, <1>9, <1>10 DEF Follows

\* The page executes a command that adds w to a parent, which is new to it.
LEMMA MovedFollows ==
  ASSUME NEW w \in PlainKind, Follows(w), wire \in Seq(Commands), wire # <<>>,
         NEW p \in Widgets, p = Head(wire).id, Adding(Head(wire), w), wire' = Tail(wire),
         \A x \in 1..Len(wire) : Adding(wire[x], w) => wire[x].id \in Widgets,
         \A x \in 1..Len(events) : Announcing(events[x], w) => events[x].w \in Widgets,
         parents[w] \in Seq(Widgets), IsInjective(parents[w]),
         \A q \in Widgets : w \in kids'[q] <=> w \in kids[q] \/ q = p,
         w \notin kids[p] => box'[w] = p, UNCHANGED <<parents, events>>
  PROVE  Follows(w)'
<1> DEFINE ps == parents[w]
           m == Len(ps)
<1>1. /\ Len(wire) \in Nat \ {0} /\ Len(wire') = Len(wire) - 1
      /\ \A i \in 1..Len(wire') : i + 1 \in 1..Len(wire) /\ wire'[i] = wire[i + 1]
      /\ \A i \in 1..Len(wire) : i # 1 => i - 1 \in 1..Len(wire') /\ wire'[i - 1] = wire[i]
      /\ 1 \in 1..Len(wire) /\ Adding(wire[1], w) /\ wire[1].id = p
  BY TailElements
<1>2. /\ \A i \in 1..m : ps[i] \in Widgets
      /\ \A i, j \in 1..m : ps[i] = ps[j] => i = j
      /\ m \in Nat
  BY DEF IsInjective
<1> HIDE DEF ps, m
<1>3. \A q, x : x \in 0..Len(wire') /\ q # p => (Adds(wire', x, w, q) <=> Adds(wire, x + 1, w, q))
  <2> SUFFICES ASSUME NEW q, NEW x \in 0..Len(wire'), q # p
               PROVE  Adds(wire', x, w, q) <=> Adds(wire, x + 1, w, q)
    OBVIOUS
  <2>1. ASSUME NEW y \in 1..x PROVE wire'[y] = wire[y + 1] /\ y + 1 \in 1..(x + 1)
    BY <1>1
  <2>2. ASSUME NEW y \in 1..(x + 1), y # 1 PROVE wire'[y - 1] = wire[y] /\ y - 1 \in 1..x
    BY <1>1, <2>2
  <2>3. ASSUME Adds(wire', x, w, q) PROVE Adds(wire, x + 1, w, q)
    <3>1. PICK y \in 1..x : Adding(wire'[y], w) /\ wire'[y].id = q
      BY <2>3 DEF Adds
    <3> QED BY <2>1, <3>1 DEF Adds
  <2>4. ASSUME Adds(wire, x + 1, w, q) PROVE Adds(wire', x, w, q)
    <3>1. PICK y \in 1..(x + 1) : Adding(wire[y], w) /\ wire[y].id = q
      BY <2>4 DEF Adds
    <3>2. y # 1
      BY <1>1, <3>1
    <3> QED BY <2>2, <3>1, <3>2 DEF Adds
  <2> QED BY <2>3, <2>4
<1>4. \A q : q # p => (Adds(wire', Len(wire'), w, q) <=> Adds(wire, Len(wire), w, q))
  BY <1>1, <1>3
<1>5. PICK k \in 1..m : ps[k] = p /\ \A j \in 1..m : j < k => w \in kids[ps[j]]
  <2>1. \A q : ~Adds(wire, 1 - 1, w, q)
    BY DEF Adds
  <2> QED BY <1>1, <2>1 DEF Follows, WireInTurn, ps, m
<1>6. w \notin kids[p] /\ \A j \in 1..m : k <= j => w \notin kids[ps[j]]
  <2>1. w \notin kids[p]
    BY <1>1 DEF Follows, WireInTurn
  <2>2. ASSUME NEW j \in 1..m, k <= j, w \in kids[ps[j]] PROVE FALSE
    <3>1. k < j
      BY <1>5, <2>1, <2>2
    <3>2. w \in kids[ps[k]]
      BY <2>2, <3>1 DEF Follows, OldestFirst, ps, m
    <3> QED BY <1>5, <2>1, <3>2
  <2> QED BY <2>1, <2>2
<1>7. \A j \in 1..m : w \in kids'[ps[j]] <=> j <= k
  BY <1>2, <1>5, <1>6
<1>8. OnlyParents(w)'
  BY <1>5 DEF Follows, OnlyParents, ps, m
<1>9. OldestFirst(w)'
  <2> SUFFICES ASSUME NEW i \in 1..m, NEW j \in 1..m, i < j, w \in kids'[ps[j]]
               PROVE  w \in kids'[ps[i]]
    BY DEF OldestFirst, ps, m
  <2> QED BY <1>7
<1>10. InLatest(w)'
  <2> SUFFICES ASSUME NEW i \in 1..m, w \in kids'[ps[i]],
                      \A j \in 1..m : i < j => w \notin kids'[ps[j]]
               PROVE  box'[w] = ps[i]
    BY DEF InLatest, ps, m
  <2>1. i = k
    BY <1>7
  <2> QED BY <1>5, <1>6, <2>1
<1>11. WireInTurn(w)'
  <2> SUFFICES ASSUME NEW x \in 1..Len(wire'), Adding(wire'[x], w)
               PROVE  /\ w \notin kids'[wire'[x].id]
                      /\ \E i \in 1..m :
                           /\ ps[i] = wire'[x].id
                           /\ \A j \in 1..m :
                                j < i => w \in kids'[ps[j]] \/ Adds(wire', x - 1, w, ps[j])
    BY DEF WireInTurn, ps, m
  <2>1. x + 1 \in 1..Len(wire) /\ wire'[x] = wire[x + 1] /\ x - 1 \in 0..Len(wire')
        /\ (x - 1) + 1 = (x + 1) - 1 /\ x + 1 # 1
    BY <1>1
  <2>2. w \notin kids[wire[x + 1].id] /\ wire[x + 1].id \in Widgets /\ wire[x + 1].id # p
    BY <1>1, <2>1 DEF Follows, WireInTurn, WireOnce
  <2>3. PICK i \in 1..m :
          /\ ps[i] = wire[x + 1].id
          /\ \A j \in 1..m : j < i => w \in kids[ps[j]] \/ Adds(wire, (x + 1) - 1, w, ps[j])
    BY <2>1 DEF Follows, WireInTurn, ps, m
  <2>4. ASSUME NEW j \in 1..m, j < i
        PROVE  w \in kids'[ps[j]] \/ Adds(wire', x - 1, w, ps[j])
    BY <1>2, <1>3, <2>1, <2>3, <2>4
  <2> QED BY <2>1, <2>2, <2>3, <2>4
<1>12. WireOnce(w)'
  <2> SUFFICES ASSUME NEW x \in 1..Len(wire'), NEW y \in 1..Len(wire'), Adding(wire'[x], w),
                      Adding(wire'[y], w), wire'[x].id = wire'[y].id
               PROVE  x = y
    BY DEF WireOnce
  <2>1. x + 1 = y + 1
    BY <1>1 DEF Follows, WireOnce
  <2> QED BY <2>1
<1>13. EventLast(w)'
  <2> SUFFICES ASSUME NEW x \in 1..Len(events), Announcing(events[x], w)
               PROVE  /\ m > 0 /\ events[x].w = ps[m]
                      /\ w \notin kids'[events[x].w]
                      /\ ~Adds(wire', Len(wire'), w, events[x].w)
                      /\ \A j \in 1..m : j < m =>
                           w \in kids'[ps[j]] \/ Adds(wire', Len(wire'), w, ps[j])
    BY DEF EventLast, ps, m
  <2>1. /\ m > 0 /\ events[x].w = ps[m]
        /\ w \notin kids[events[x].w] /\ ~Adds(wire, Len(wire), w, events[x].w)
        /\ \A j \in 1..m : j < m => w \in kids[ps[j]] \/ Adds(wire, Len(wire), w, ps[j])
    BY DEF Follows, EventLast, ps, m
  <2>2. events[x].w # p
    BY <1>1, <2>1 DEF Adds
  <2> QED BY <1>2, <1>4, <2>1, <2>2
<1>14. EventOnce(w)'
  BY DEF Follows, EventOnce
<1>15. NoneForgotten(w)'
  <2> SUFFICES ASSUME NEW i \in 1..m
               PROVE  \/ w \in kids'[ps[i]] \/ Adds(wire', Len(wire'), w, ps[i])
                      \/ \E x \in 1..Len(events) : Announcing(events[x], w) /\ events[x].w = ps[i]
    BY DEF NoneForgotten, ps, m
  <2>1. \/ w \in kids[ps[i]] \/ Adds(wire, Len(wire), w, ps[i])
        \/ \E x \in 1..Len(events) : Announcing(events[x], w) /\ events[x].w = ps[i]
    BY DEF Follows, NoneForgotten, ps, m
  <2> QED BY <1>2, <1>4, <2>1
<1> QED
  BY <1>8, <1>9, <1>10, <1>11, <1>12, <1>13, <1>14, <1>15 DEF Follows

-----------------------------------------------------------------------------
(* The steps.                                                               *)

LEMMA MInvInit == Init => MInv
<1> SUFFICES ASSUME Init PROVE MInv
  OBVIOUS
<1>1. TInv
  BY TInvInit
<1>2. /\ parents = [w \in Widgets |-> <<>>] /\ kids = [w \in Widgets |-> {}]
      /\ wire = <<>> /\ events = <<>> /\ born = {}
  BY DEF Init, InitApp, InitPage
<1>3. Len(wire) = 0 /\ Len(events) = 0
  BY <1>2
<1>4. Adoptions /\ Parenthood
  BY <1>2, <1>3 DEF Adoptions, Parenthood
<1>5. ASSUME NEW w \in PlainKind PROVE Follows(w)
  <2>1. Len(parents[w]) = 0 /\ \A p \in Widgets : w \notin kids[p]
    BY <1>2 DEF PlainKind
  <2> QED
    BY <1>3, <2>1 DEF Follows, OnlyParents, OldestFirst, InLatest, WireInTurn, WireOnce,
                      EventLast, EventOnce, NoneForgotten
<1> QED BY <1>1, <1>4, <1>5 DEF MInv

\* Steps that have nothing to do with parents.
LEMMA StillMoves ==
  ASSUME MInv, TInv', UNCHANGED <<born, parents, wire, events, kids, box>>
  PROVE  MInv'
<1>1. \A w : Follows(w) => Follows(w)'
  BY DEF Follows, OnlyParents, OldestFirst, InLatest, WireInTurn, WireOnce,
         EventLast, EventOnce, NoneForgotten
<1> QED BY <1>1 DEF MInv, Adoptions, Parenthood

\* A call of Qt that gives no widget a parent; a window may be constructed.
LEMMA QuietCall ==
  ASSUME MInv, TInv', events = <<>>, events' \in Seq(Quiet(Told)),
         born \subseteq born', born' \cap PlainKind \subseteq born,
         UNCHANGED <<parents, wire, kids, box>>
  PROVE  MInv'
<1>1. \A x \in 1..Len(events') : events'[x].type # "ChildAdded"
  BY DEF Quiet
<1>2. Adoptions'
  BY <1>1 DEF MInv, Adoptions
<1>3. Parenthood'
  BY DEF MInv, Parenthood
<1>4. ASSUME NEW w \in PlainKind, IsInjective(parents[w]) PROVE Follows(w)'
  <2>1. Follows(w) /\ \A x \in 1..Len(events') : ~Announcing(events'[x], w)
    BY <1>1, <1>4 DEF MInv, Announcing
  <2> QED BY <2>1, CallFollows
<1> QED BY <1>2, <1>3, <1>4 DEF MInv

\* A call of Qt that gives the widget v the parent p.
LEMMA MoveCall ==
  ASSUME MInv, TInv', events = <<>>, NEW v \in Widgets, NEW p \in Widgets \ PlainKind,
         Moving(v, p),
         \A w \in Widgets : w # v => parents'[w] = parents[w],
         parents'[v] = Append(parents[v], p),
         v \in born', born \subseteq born', born' \subseteq born \cup {v},
         UNCHANGED <<wire, kids, box>>
  PROVE  MInv'
<1>1. PICK k \in 1..Len(events') :
        /\ Announcing(events'[k], v) /\ events'[k].w = p
        /\ \A x \in 1..Len(events') : x # k => events'[x].type # "ChildAdded"
  BY DEF Moving
<1>2. Adoptions'
  BY <1>1 DEF MInv, Adoptions, Announcing
<1>3. Parenthood'
  <2>1. parents[v] \in Seq(Widgets)
    BY DEF MInv, TInv, Types
  <2>2. parents'[v] # <<>>
    BY <2>1, AppendProperties
  <2> QED BY <2>2 DEF MInv, Parenthood, PlainKind
<1>4. ASSUME NEW w \in PlainKind, IsInjective(parents'[w]) PROVE Follows(w)'
  <2>1. w \in Widgets /\ parents[w] \in Seq(Widgets)
    BY DEF PlainKind, MInv, TInv, Types
  <2>2. IsInjective(parents[w]) => Follows(w)
    BY DEF MInv
  <2>3. CASE w = v
    BY <1>4, <2>1, <2>2, <2>3, MoveFollows
  <2>4. CASE w # v
    <3>1. \A x \in 1..Len(events') : ~Announcing(events'[x], w)
      BY <1>1, <2>4 DEF Announcing
    <3>2. parents'[w] = parents[w] /\ Follows(w)
      BY <1>4, <2>1, <2>2, <2>4
    <3> QED BY <3>1, <3>2, CallFollows
  <2> QED BY <2>3, <2>4
<1> QED BY <1>2, <1>3, <1>4 DEF MInv

LEMMA ConstructMoves ==
  ASSUME MInv, TInv', NEW w \in Widgets, NEW p \in Widgets \cup {NoWidget}, Construct(w, p),
         UNCHANGED pageVars
  PROVE  MInv'
<1>1. /\ events = <<>> /\ UNCHANGED <<wire, kids, box>>
      /\ born' = born \cup {w} /\ w \notin born /\ parents[w] = <<>>
      /\ parents' = [parents EXCEPT ![w] = IF p = NoWidget THEN <<>> ELSE <<p>>]
      /\ parents \in [Widgets -> Seq(Widgets)]
  BY DEF Construct, Idle, filterVars, pageVars, MInv, Parenthood, TInv, Types
<1>2. CASE p = NoWidget
  <2>1. events' = <<>> \o <<Event("Create", w)>>
    BY <1>2 DEF Construct
  <2>2. <<Event("Create", w)>> \in Seq(Quiet(Told))
    BY OneEvent DEF EventTypes, Optional
  <2>3. events' \in Seq(Quiet(Told))
    BY <2>1, <2>2, ConcatProperties, EmptySeq
  <2>4. parents' = parents
    BY <1>1, <1>2
  <2>5. w \notin PlainKind
    BY <1>2 DEF Construct, PlainKind, IsWindow
  <2> QED BY <1>1, <2>3, <2>4, <2>5, QuietCall
<1>3. CASE p # NoWidget
  <2>1. p \in Widgets \ PlainKind
    BY <1>3 DEF Construct, PlainKind
  <2>2. events' = <<ChildEvent("ChildAdded", p, w)>> \o <<Event("Create", w)>>
    BY <1>3 DEF Construct
  <2>3. Moving(w, p)
    <3>1. Len(events') = 2 /\ events'[1] = ChildEvent("ChildAdded", p, w)
          /\ events'[2] = Event("Create", w)
      BY <2>2
    <3> QED BY <3>1 DEF Moving, Announcing, Event, ChildEvent
  <2>4. parents'[w] = Append(parents[w], p)
    BY <1>1, <1>3
  <2> QED BY <1>1, <2>1, <2>3, <2>4, MoveCall
<1> QED BY <1>2, <1>3

LEMMA SetParentMoves ==
  ASSUME MInv, TInv', NEW w \in Widgets, NEW p \in Widgets, SetParent(w, p), UNCHANGED pageVars
  PROVE  MInv'
<1>1. /\ events = <<>> /\ UNCHANGED <<born, wire, kids, box>>
      /\ w \in born /\ p \in Widgets \ PlainKind
      /\ parents' = [parents EXCEPT ![w] = Append(@, p)]
      /\ parents \in [Widgets -> Seq(Widgets)]
  BY DEF SetParent, Alive, Idle, filterVars, pageVars, PlainKind, MInv, TInv, Types
<1> DEFINE first == IF w \in wanted THEN HideEvents(w) ELSE <<>>
           removed == ChildEvent("ChildRemoved", Parent(w), w)
           added == ChildEvent("ChildAdded", p, w)
<1>2. first \in Seq(Quiet(Told))
  BY <1>1, AtRest, HideEventsType, EmptySeq DEF MInv
<1>3. events' = first \o <<removed, added>>
  BY DEF SetParent
<1>4. removed.type # "ChildAdded" /\ Announcing(added, w) /\ added.w = p
  BY DEF ChildEvent, Announcing
<1> HIDE DEF first, removed, added
<1>5. /\ Len(first) \in Nat /\ Len(events') = Len(first) + 2
      /\ \A i \in 1..Len(first) : events'[i] = first[i] /\ first[i].type # "ChildAdded"
      /\ events'[Len(first) + 1] = removed /\ events'[Len(first) + 2] = added
  BY <1>2, <1>3 DEF Quiet
<1>6. Moving(w, p)
  <2>1. Len(first) + 2 \in 1..Len(events')
    BY <1>5
  <2>2. ASSUME NEW x \in 1..Len(events'), x # Len(first) + 2 PROVE events'[x].type # "ChildAdded"
    <3>1. x \in 1..Len(first) \/ x = Len(first) + 1
      BY <1>5, <2>2
    <3> QED BY <1>4, <1>5, <3>1
  <2> QED BY <1>4, <1>5, <2>1, <2>2 DEF Moving
<1>7. parents'[w] = Append(parents[w], p) /\ \A v \in Widgets : v # w => parents'[v] = parents[v]
  BY <1>1
<1> QED BY <1>1, <1>6, <1>7, MoveCall

LEMMA ApplicationMoves ==
  ASSUME MInv, TInv', Application
  PROVE  MInv'
<1>1. TInv /\ UNCHANGED pageVars /\ UNCHANGED <<kids, box>>
  BY DEF MInv, Application, pageVars
<1>2. ASSUME NEW w \in Widgets, NEW p \in Widgets \cup {NoWidget}, Construct(w, p)
      PROVE  MInv'
  BY <1>1, <1>2, ConstructMoves
<1>3. ASSUME NEW w \in Widgets,
             ShowWidget(w) \/ HideWidget(w) \/ Destroy(w) \/ ActivateWindow(w)
      PROVE  MInv'
  <2>1. events' \in Seq(Quiet(Told))
    BY <1>1, <1>3, ShowWidgetKeeps, HideWidgetKeeps, DestroyKeeps, ActivateWindowKeeps
  <2>2. events = <<>> /\ UNCHANGED <<born, parents, wire>>
    BY <1>3 DEF ShowWidget, HideWidget, Destroy, ActivateWindow, Idle, filterVars
  <2> QED BY <1>1, <2>1, <2>2, QuietCall
<1>4. ASSUME NEW w \in Widgets, NEW accepts \in BOOLEAN, CloseCall(w, accepts)
      PROVE  MInv'
  <2>1. events = <<>> /\ UNCHANGED <<born, parents, wire>>
    BY <1>4 DEF CloseCall, CloseWindow, Idle, filterVars
  <2>2. events' \in Seq(Quiet(Told))
    BY <1>1, <1>4, <2>1, CloseWindowKeeps DEF CloseCall, Optional
  <2> QED BY <1>1, <2>1, <2>2, QuietCall
<1>5. ASSUME NEW w \in Widgets, NEW p \in Widgets, SetParent(w, p)
      PROVE  MInv'
  BY <1>1, <1>5, SetParentMoves
<1> QED BY <1>2, <1>3, <1>4, <1>5 DEF Application, Build, Call

LEMMA DispatchMoves ==
  ASSUME MInv, TInv', Dispatch, UNCHANGED pageVars
  PROVE  MInv'
<1>1. TInv /\ UNCHANGED <<kids, box>>
  BY DEF MInv, pageVars
<1>2. CASE DispatchActivate
  <2>1. events = <<>> /\ UNCHANGED <<born, parents, wire>>
    BY <1>2 DEF DispatchActivate, Idle, filterVars
  <2>2. Head(inbox).id \in Optional /\ active \in Optional
    BY <1>1, <1>2 DEF DispatchActivate, TInv, Types
  <2>3. events' \in Seq(Quiet(Told))
    BY <1>2, <2>2, ActivationEventsType DEF DispatchActivate
  <2> QED BY <1>1, <2>1, <2>3, QuietCall
<1>3. CASE EndActivate \/ DispatchNothing
  <2>1. UNCHANGED <<born, parents, wire, events>>
    BY <1>3 DEF EndActivate, DispatchNothing, qtVars, filterVars
  <2> QED BY <1>1, <2>1, StillMoves
<1>4. ASSUME NEW accepts \in BOOLEAN, DispatchClose(accepts)
      PROVE  MInv'
  <2>1. events = <<>> /\ UNCHANGED <<born, parents, wire>>
    BY <1>4 DEF DispatchClose, CloseWindow, Idle, filterVars
  <2>2. Head(inbox).id \in Optional
    BY <1>1, <1>4 DEF DispatchClose, TInv, Types
  <2>3. events' \in Seq(Quiet(Told))
    BY <1>1, <1>4, <2>1, <2>2, CloseWindowKeeps DEF DispatchClose
  <2> QED BY <1>1, <2>1, <2>3, QuietCall
<1> QED BY <1>2, <1>3, <1>4 DEF Dispatch

-----------------------------------------------------------------------------

\* An event that tells of no new parent is delivered.
LEMMA QuietDelivery ==
  ASSUME MInv, TInv', NEW types, Delivering(types), "ChildAdded" \notin types,
         \/ UNCHANGED wire
         \/ \E cmd \in Commands : wire' = Append(wire, cmd) /\ cmd.c # "addChild",
         UNCHANGED pageVars
  PROVE  MInv'
<1>1. /\ events # <<>> /\ Head(events).type # "ChildAdded" /\ events' = Tail(events)
      /\ UNCHANGED <<born, parents, kids, box>>
  BY DEF Delivering, qtVars, pageVars
<1>2. events \in Seq(About(Told)) /\ wire \in Seq(Commands)
  BY DEF MInv, TInv, Types
<1>3. \A i \in 1..Len(events') : i + 1 \in 1..Len(events) /\ events'[i] = events[i + 1]
  BY <1>1, <1>2, TailElements
<1>4. \A x \in 1..Len(wire') : wire'[x].c = "addChild" =>
        x \in 1..Len(wire) /\ wire'[x] = wire[x]
  <2>1. ASSUME NEW cmd \in Commands, wire' = Append(wire, cmd), cmd.c # "addChild"
        PROVE  <1>4!:
    BY <1>2, <2>1
  <2> QED BY <2>1
<1>5. Adoptions'
  BY <1>1, <1>3, <1>4 DEF MInv, Adoptions
<1>6. Parenthood'
  BY <1>1 DEF MInv, Parenthood
<1>7. ASSUME NEW w \in PlainKind, IsInjective(parents[w]) PROVE Follows(w)'
  <2>1. Follows(w)
    BY <1>7 DEF MInv
  <2>2. ~Announcing(Head(events), w)
    BY <1>1 DEF Announcing
  <2>3. \/ UNCHANGED wire
        \/ \E cmd \in Commands : wire' = Append(wire, cmd) /\ ~Adding(cmd, w)
    BY DEF Adding
  <2> QED BY <1>1, <1>2, <2>1, <2>2, <2>3, DeliverFollows
<1> QED BY <1>1, <1>5, <1>6, <1>7 DEF MInv

LEMMA FilterMoves ==
  ASSUME MInv, TInv', Filter, UNCHANGED pageVars
  PROVE  MInv'
<1>1. TInv
  BY DEF MInv
<1>2. CASE FilterChildAdded
  <2> DEFINE c == Head(events).child
             cmd == [c |-> "addChild", id |-> Receiver, child |-> c]
  <2>1. /\ Delivering({"ChildAdded"}) /\ wire' = Append(wire, cmd)
        /\ events # <<>> /\ Head(events).type = "ChildAdded" /\ events' = Tail(events)
        /\ UNCHANGED <<born, parents, kids, box>>
    BY <1>2 DEF FilterChildAdded, Delivering, Issue, qtVars, pageVars
  <2>2. events \in Seq(About(Told)) /\ wire \in Seq(Commands)
    BY <1>1 DEF TInv, Types
  <2>3. cmd \in Commands /\ cmd.c = "addChild" /\ cmd.child = c /\ cmd.id = Head(events).w
    BY <1>1, <2>1, HeadType DEF Commands, CommandNames, Receiver
  <2>4. /\ \A i \in 1..Len(events') : i + 1 \in 1..Len(events) /\ events'[i] = events[i + 1]
        /\ 1 \in 1..Len(events) /\ Head(events) = events[1]
    BY <2>1, <2>2, TailElements
  <2> HIDE DEF cmd, c
  <2>5. /\ \A x \in 1..Len(wire') : (x \in 1..Len(wire) /\ wire'[x] = wire[x]) \/ wire'[x] = cmd
    BY <2>1, <2>2, <2>3
  <2>6. Head(events).w \in Widgets \ PlainKind /\ c \in Widgets
    BY <2>1, <2>4 DEF MInv, Adoptions, c
  <2>7. Adoptions'
    BY <2>1, <2>3, <2>4, <2>5, <2>6 DEF MInv, Adoptions
  <2>8. Parenthood'
    BY <2>1 DEF MInv, Parenthood
  <2>9. ASSUME NEW w \in PlainKind, IsInjective(parents[w]) PROVE Follows(w)'
    <3>1. Follows(w) /\ parents[w] \in Seq(Widgets)
      BY <1>1, <2>9 DEF MInv, PlainKind, TInv, Types
    <3>2. CASE w = c
      <4>1. Announcing(Head(events), w) /\ Adding(cmd, w)
        BY <2>1, <2>3, <3>2 DEF Announcing, Adding, c
      <4> QED BY <2>1, <2>2, <2>3, <3>1, <4>1, TellFollows
    <3>3. CASE w # c
      <4>1. ~Announcing(Head(events), w) /\ ~Adding(cmd, w)
        BY <2>3, <3>3 DEF Announcing, Adding, c
      <4> QED BY <2>1, <2>2, <2>3, <3>1, <4>1, DeliverFollows
    <3> QED BY <3>2, <3>3
  <2> QED BY <2>1, <2>7, <2>8, <2>9 DEF MInv
<1>3. CASE FilterCreate \/ FilterHide \/ FilterShow \/ FilterActivation
  <2>1. PICK types : Delivering(types) /\ "ChildAdded" \notin types
    BY <1>3 DEF FilterCreate, FilterHide, FilterShow, FilterActivation
  <2>2. Receiver \in Optional
    BY <1>1, <2>1, HeadType
  <2>3. \A name \in {"create", "hide", "show", "activate", "deactivate"} :
          Command(name, Receiver) \in Commands /\ Command(name, Receiver).c # "addChild"
    BY <2>2 DEF Command, Commands, CommandNames, Optional
  <2>4. \/ UNCHANGED wire
        \/ \E name \in {"create", "hide", "show", "activate", "deactivate"} :
             wire' = Append(wire, Command(name, Receiver))
    BY <1>3 DEF FilterCreate, FilterHide, FilterShow, FilterActivation, Issue
  <2> QED BY <2>1, <2>3, <2>4, QuietDelivery
<1>4. CASE FilterGone \/ FilterShowToParent
  <2>1. PICK types : Delivering(types) /\ "ChildAdded" \notin types
    BY <1>4 DEF FilterGone, FilterShowToParent
  <2>2. UNCHANGED wire
    BY <1>4 DEF FilterGone, FilterShowToParent
  <2> QED BY <2>1, <2>2, QuietDelivery
<1> QED BY <1>2, <1>3, <1>4 DEF Filter

\* What a command does to the containers and the children of the page.
LEMMA ExecuteMoves ==
  ASSUME NEW cmd, Execute(cmd), kids \in [Widgets -> SUBSET Widgets],
         cmd.c = "addChild" => cmd.id \in Widgets \ PlainKind /\ cmd.child \in Widgets
  PROVE  /\ kids' \in [Widgets -> SUBSET Widgets]
         /\ \A w \in PlainKind, p \in Widgets :
              w \in kids'[p] <=> w \in kids[p] \/ (Adding(cmd, w) /\ p = cmd.id)
         /\ \A w \in PlainKind : ~Adding(cmd, w) => box'[w] = box[w]
         /\ \A w \in PlainKind : Adding(cmd, w) /\ w \notin kids[cmd.id] => box'[w] = cmd.id
<1>1. ASSUME cmd.c # "addChild"
      PROVE  /\ kids' = kids
             /\ \A w \in PlainKind : box'[w] = box[w]
  BY <1>1 DEF Execute, Create, Show, Hide, Activate, Deactivate, PlainKind, IsDialog, IsWindow
<1>2. CASE cmd.c = "addChild"
  <2> DEFINE p == cmd.id
             c == cmd.child
             new == c \notin kids[p]
             dialogs == (IF root = NoWidget THEN {p} ELSE {})
                        \cup (IF new /\ type[c] = "none" /\ IsDialog(c) THEN {c} ELSE {})
  <2>1. /\ kids' = [kids EXCEPT ![p] = @ \cup {c}]
        /\ box' = [w \in Widgets |-> IF w \in dialogs THEN "frame"
                                     ELSE IF w = c /\ new THEN p ELSE box[w]]
    BY <1>2 DEF Execute, AddChild, NewTo
  <2>2. p \in Widgets \ PlainKind /\ c \in Widgets
    BY <1>2
  <2>3. \A w \in PlainKind : w \in Widgets /\ w \notin dialogs
    BY <2>2 DEF PlainKind, IsDialog, IsWindow
  <2>4. \A w : Adding(cmd, w) <=> w = c
    BY <1>2 DEF Adding
  <2> HIDE DEF dialogs
  <2> QED BY <2>1, <2>2, <2>3, <2>4
<1>3. CASE cmd.c # "addChild"
  BY <1>1, <1>3 DEF Adding
<1> QED BY <1>2, <1>3

LEMMA PageExecuteMoves ==
  ASSUME MInv, TInv', PageExecute
  PROVE  MInv'
<1> DEFINE cmd == Head(wire)
<1>1. /\ wire # <<>> /\ Execute(cmd) /\ wire' = Tail(wire)
      /\ UNCHANGED <<born, parents, events>>
  BY DEF PageExecute, qtVars
<1>2. wire \in Seq(Commands) /\ parents \in [Widgets -> Seq(Widgets)]
  BY DEF MInv, TInv, Types
<1>3. /\ \A i \in 1..Len(wire') : i + 1 \in 1..Len(wire) /\ wire'[i] = wire[i + 1]
      /\ 1 \in 1..Len(wire) /\ cmd = wire[1]
  BY <1>1, <1>2, TailElements
<1> HIDE DEF cmd
<1>4. cmd.c = "addChild" => cmd.id \in Widgets \ PlainKind /\ cmd.child \in Widgets
  BY <1>3 DEF MInv, Adoptions
<1>5. /\ kids' \in [Widgets -> SUBSET Widgets]
      /\ \A w \in PlainKind, p \in Widgets :
           w \in kids'[p] <=> w \in kids[p] \/ (Adding(cmd, w) /\ p = cmd.id)
      /\ \A w \in PlainKind : ~Adding(cmd, w) => box'[w] = box[w]
      /\ \A w \in PlainKind : Adding(cmd, w) /\ w \notin kids[cmd.id] => box'[w] = cmd.id
  BY <1>1, <1>4, ExecuteMoves DEF MInv, Adoptions
<1>6. Adoptions'
  BY <1>1, <1>3, <1>5 DEF MInv, Adoptions
<1>7. Parenthood'
  BY <1>1 DEF MInv, Parenthood
<1>8. ASSUME NEW w \in PlainKind, IsInjective(parents[w]) PROVE Follows(w)'
  <2>1. Follows(w) /\ parents[w] \in Seq(Widgets)
    BY <1>2, <1>8 DEF MInv, PlainKind
  <2>2. /\ \A x \in 1..Len(wire) : Adding(wire[x], w) => wire[x].id \in Widgets
        /\ \A x \in 1..Len(events) : Announcing(events[x], w) => events[x].w \in Widgets
    BY DEF MInv, Adoptions, Adding, Announcing
  <2>3. CASE Adding(cmd, w)
    <3>1. cmd.id \in Widgets
      BY <1>4, <2>3 DEF Adding
    <3>2. \A q \in Widgets : w \in kids'[q] <=> w \in kids[q] \/ q = cmd.id
      BY <1>5, <2>3
    <3>3. w \notin kids[cmd.id] => box'[w] = cmd.id
      BY <1>5, <2>3
    <3> QED BY <1>1, <1>2, <1>8, <2>1, <2>2, <2>3, <3>1, <3>2, <3>3, MovedFollows DEF cmd
  <2>4. CASE ~Adding(cmd, w)
    <3>1. box'[w] = box[w] /\ \A q \in Widgets : w \in kids'[q] <=> w \in kids[q]
      BY <1>5, <2>4
    <3> QED BY <1>1, <1>2, <2>1, <2>2, <2>4, <3>1, PageFollows DEF cmd
  <2> QED BY <2>3, <2>4
<1> QED BY <1>1, <1>6, <1>7, <1>8 DEF MInv

LEMMA MInvStep == MInv /\ [Next]_vars => MInv'
<1> SUFFICES ASSUME MInv, [Next]_vars PROVE MInv'
  OBVIOUS
<1>0. TInv'
  BY TInvStep DEF MInv
<1>1. CASE Application
  BY <1>0, <1>1, ApplicationMoves
<1>2. CASE Deliver
  BY <1>0, <1>2, FilterMoves DEF Deliver
<1>3. CASE Serve
  BY <1>0, <1>3, DispatchMoves DEF Serve
<1>4. CASE PageExecute
  BY <1>0, <1>4, PageExecuteMoves
<1>5. CASE Render \/ Parse \/ Post
  <2>1. UNCHANGED <<born, parents, wire, events, kids, box>>
    BY <1>5 DEF Render, RenderWidget, Parse, Post, appVars, qtVars, filterVars, pageVars
  <2> QED BY <1>0, <2>1, StillMoves
<1>6. ASSUME NEW w \in Widgets, PageDraw(w) PROVE MInv'
  <2>1. UNCHANGED <<born, parents, wire, events, kids, box>>
    BY <1>6 DEF PageDraw, Draw, qtVars, filterVars
  <2> QED BY <1>0, <2>1, StillMoves
<1>7. CASE User \/ UNCHANGED vars
  <2>1. UNCHANGED <<born, parents, wire, events, kids, box>>
    BY <1>7 DEF User, Click, ClickClose, vars, appVars, qtVars, filterVars, pageVars
  <2> QED BY <1>0, <2>1, StillMoves
<1> QED BY <1>1, <1>2, <1>3, <1>4, <1>5, <1>6, <1>7 DEF Next

LEMMA MovesAreSeen == MInv => FirstMovesFollowed
<1> SUFFICES ASSUME MInv, Settled, NEW w \in Plain, IsInjective(parents[w])
             PROVE  InPlace(w)
  BY DEF FirstMovesFollowed
<1>1. w \in PlainKind /\ w \in Widgets /\ parents[w] \in Seq(Widgets) /\ parents[w] # <<>>
  BY DEF Plain, Alive, PlainKind, MInv, TInv, Types, Parenthood
<1>2. Follows(w)
  BY <1>1 DEF MInv
<1>3. Len(wire) = 0 /\ Len(events) = 0
  BY DEF Settled
<1>4. \A i \in 1..Len(parents[w]) : w \in kids[parents[w][i]]
  BY <1>2, <1>3 DEF Follows, NoneForgotten, Adds
<1>5. /\ Len(parents[w]) \in 1..Len(parents[w])
      /\ \A j \in 1..Len(parents[w]) : ~(Len(parents[w]) < j)
  BY <1>1, EmptySeq
<1>6. box[w] = parents[w][Len(parents[w])]
  BY <1>2, <1>4, <1>5 DEF Follows, InLatest
<1> QED BY <1>1, <1>6 DEF InPlace, Parent, Last

\* Once the page has executed every command, a plain widget stands where the
\* application has put it, unless it has come back to a parent it had before: whatever the
\* application does in between, and however far the page is behind.
THEOREM MovesAreFollowed == Spec => []FirstMovesFollowed
<1>1. Spec => []MInv
  BY MInvInit, MInvStep, PTL DEF Spec
<1> QED BY <1>1, MovesAreSeen, PTL

-----------------------------------------------------------------------------
(* What the page shows.  The filter reports the shows and hides of a widget    *)
(* in their order and the page executes them in this order, so what counts is  *)
(* the last of them that is still to come: an event, or else a command on its  *)
(* way, or else what the page has executed.                                    *)

IsCmd(cmd, name, w) == cmd.c = name /\ cmd.id = w
Pends(name, w) == \E i \in 1..Len(wire) : IsCmd(wire[i], name, w)

\* Each command a for w on the wire has a command b for w behind it.
Followed(a, b, w) ==
    \A i \in 1..Len(wire) :
      IsCmd(wire[i], a, w) => \E j \in 1..Len(wire) : i < j /\ IsCmd(wire[j], b, w)

\* The commands that make the frame of a dialog, and the events that issue them.
Framing(cmd, d) == \/ cmd.c = "create" /\ cmd.id = d
                   \/ cmd.c = "addChild" /\ cmd.child = d
Coming(e, d) == \/ e.type = "Create" /\ e.w = d
                \/ e.type = "ChildAdded" /\ e.child = d
FramePends(d) == \E i \in 1..Len(wire) : Framing(wire[i], d)
Appearing(d) == \E i \in 1..Len(events) : Coming(events[i], d)

IsShow(e, w) == e.type = "Show" /\ e.w = w
IsHide(e, w) == e.type \in {"Hide", "HideToParent"} /\ e.w = w
Showing(w) == \E i \in 1..Len(events) : IsShow(events[i], w)
Hiding(w) == \E i \in 1..Len(events) : IsHide(events[i], w)

-----------------------------------------------------------------------------
(* The stream, as it grows at its end and shrinks at its head.                 *)

LEMMA AppendWire ==
  ASSUME NEW cmd \in Commands, wire \in Seq(Commands), wire' = Append(wire, cmd)
  PROVE  /\ Len(wire) \in Nat /\ Len(wire') = Len(wire) + 1
         /\ \A i \in 1..Len(wire) : i \in 1..Len(wire') /\ wire'[i] = wire[i]
         /\ \A i \in 1..Len(wire') : i \in 1..Len(wire) \/ i = Len(wire) + 1
         /\ Len(wire) + 1 \in 1..Len(wire') /\ wire'[Len(wire) + 1] = cmd
OBVIOUS

LEMMA AppendPends ==
  ASSUME NEW cmd \in Commands, wire \in Seq(Commands), wire' = Append(wire, cmd),
         NEW name, NEW w
  PROVE  Pends(name, w)' <=> Pends(name, w) \/ IsCmd(cmd, name, w)
BY AppendWire DEF Pends, IsCmd

LEMMA AppendFramePends ==
  ASSUME NEW cmd \in Commands, wire \in Seq(Commands), wire' = Append(wire, cmd), NEW d
  PROVE  FramePends(d)' <=> FramePends(d) \/ Framing(cmd, d)
BY AppendWire DEF FramePends, Framing

\* What is followed stays so, and everything is followed by the command b that is added.
LEMMA AppendFollowed ==
  ASSUME NEW cmd \in Commands, wire \in Seq(Commands), wire' = Append(wire, cmd),
         NEW a, NEW b, NEW w, a # b
  PROVE  /\ Followed(a, b, w) /\ ~IsCmd(cmd, a, w) => Followed(a, b, w)'
         /\ IsCmd(cmd, b, w) => Followed(a, b, w)'
<1>1. ASSUME Followed(a, b, w), ~IsCmd(cmd, a, w) PROVE Followed(a, b, w)'
  BY <1>1, AppendWire DEF Followed, IsCmd
<1>2. ASSUME IsCmd(cmd, b, w) PROVE Followed(a, b, w)'
  BY <1>2, AppendWire DEF Followed, IsCmd
<1> QED BY <1>1, <1>2

LEMMA TailWire ==
  ASSUME wire \in Seq(Commands), wire # <<>>, wire' = Tail(wire)
  PROVE  /\ Len(wire) \in Nat \ {0} /\ Len(wire') = Len(wire) - 1
         /\ \A i \in 1..Len(wire') : i + 1 \in 1..Len(wire) /\ wire'[i] = wire[i + 1]
         /\ \A i \in 1..Len(wire) : i # 1 => i - 1 \in 1..Len(wire') /\ wire'[i - 1] = wire[i]
         /\ 1 \in 1..Len(wire) /\ Head(wire) = wire[1] /\ wire[1] \in Commands
         /\ wire' \in Seq(Commands)
<1>1. wire[1] \in Commands /\ wire' \in Seq(Commands)
  BY HeadTailProperties, EmptySeq
<1> QED BY <1>1, TailElements

LEMMA TailPends ==
  ASSUME wire \in Seq(Commands), wire # <<>>, wire' = Tail(wire), NEW name, NEW w
  PROVE  Pends(name, w) <=> Pends(name, w)' \/ IsCmd(wire[1], name, w)
BY TailWire DEF Pends, IsCmd

LEMMA TailFramePends ==
  ASSUME wire \in Seq(Commands), wire # <<>>, wire' = Tail(wire), NEW d
  PROVE  FramePends(d) <=> FramePends(d)' \/ Framing(wire[1], d)
BY TailWire DEF FramePends, Framing

LEMMA TailFollowed ==
  ASSUME wire \in Seq(Commands), wire # <<>>, wire' = Tail(wire), NEW a, NEW b, NEW w, a # b,
         Followed(a, b, w)
  PROVE  /\ Followed(a, b, w)'
         /\ IsCmd(wire[1], a, w) => Pends(b, w)'
<1>1. Followed(a, b, w)'
  <2> SUFFICES ASSUME NEW i \in 1..Len(wire'), IsCmd(wire'[i], a, w)
               PROVE  \E j \in 1..Len(wire') : i < j /\ IsCmd(wire'[j], b, w)
    BY DEF Followed, IsCmd
  <2>1. i + 1 \in 1..Len(wire) /\ wire'[i] = wire[i + 1]
    BY TailWire
  <2>2. PICK j \in 1..Len(wire) : i + 1 < j /\ IsCmd(wire[j], b, w)
    BY <2>1 DEF Followed
  <2>3. j - 1 \in 1..Len(wire') /\ wire'[j - 1] = wire[j] /\ i < j - 1
    BY <2>2, TailWire
  <2> QED BY <2>2, <2>3
<1>2. ASSUME IsCmd(wire[1], a, w) PROVE Pends(b, w)'
  <2>1. PICK j \in 1..Len(wire) : 1 < j /\ IsCmd(wire[j], b, w)
    BY <1>2, TailWire DEF Followed
  <2>2. j - 1 \in 1..Len(wire') /\ wire'[j - 1] = wire[j]
    BY <2>1, TailWire
  <2> QED BY <2>1, <2>2 DEF Pends, IsCmd
<1> QED BY <1>1, <1>2

-----------------------------------------------------------------------------
(* The invariant.                                                              *)

\* A widget has windows for parents, so a plain widget has no children.
ParentsAreWindows ==
    \A w \in Widgets : \A i \in 1..Len(parents[w]) : IsWindow(parents[w][i])

\* The events still to come say what is so at the end of the call.
EventsAgree ==
    \A w \in Widgets : IF w \in visible THEN ~Hiding(w) ELSE ~Showing(w)

\* The canvas of a widget on the screen is not hidden, or a show is on its way.
CanvasShown(w) ==
    w \in visible /\ ~Showing(w) =>
      Followed("hide", "show", w) /\ (w \in off => Pends("show", w))

OffInv == ParentsAreWindows /\ EventsAgree /\ (\A w \in Widgets : CanvasShown(w))

DialogKind == {d \in Widgets : IsDialog(d)}

\* The application has not shown the dialog yet, nor the page.
Fresh(d) ==
    /\ ~Pends("show", d) /\ ~Pends("hide", d)
    /\ d \notin visible \cup draws \cup hidden \cup shown /\ curtains[d] = 0
    /\ ~Showing(d) /\ ~Hiding(d)
Unborn(d) == Fresh(d) /\ ~FramePends(d) /\ ~Appearing(d) /\ type[d] = "none"

\* The frame is made (twice: by addChild and by create) before it is shown.
FramedFirst(d) ==
    \A i, j \in 1..Len(wire) :
      Framing(wire[i], d) /\ (IsCmd(wire[j], "show", d) \/ IsCmd(wire[j], "hide", d)) => i < j
FramingBare(d) == FramePends(d) => d \notin hidden /\ curtains[d] = 0
\* addChild comes first of the two and makes a frame, as the page has no type for
\* the dialog yet.
AddedFirst(d) ==
    /\ \A i \in 1..Len(wire) : wire[i].c = "addChild" /\ wire[i].child = d =>
         type[d] = "none" /\ \A j \in 1..Len(wire) : j < i => ~Framing(wire[j], d)
    /\ \A i \in 1..Len(events) : events[i].type = "ChildAdded" /\ events[i].child = d =>
         /\ type[d] = "none" /\ ~FramePends(d)
         /\ \A j \in 1..Len(events) : j < i => ~Coming(events[j], d)
CreateComes(d) == \E i \in 1..Len(events) : events[i].type = "Create" /\ events[i].w = d
CreatedFramed(d) == d \in born /\ ~Pends("create", d) /\ ~CreateComes(d) => d \in framed

\* Two shows have a hide between them, and so have a curtain and the next show.
ShowsApart(d) ==
    \A i, j \in 1..Len(wire) :
      i < j /\ IsCmd(wire[i], "show", d) /\ IsCmd(wire[j], "show", d) =>
        \E k \in 1..Len(wire) : i < k /\ k < j /\ IsCmd(wire[k], "hide", d)
CurtainFalls(d) ==
    curtains[d] = 1 =>
      \A j \in 1..Len(wire) : IsCmd(wire[j], "show", d) =>
        \E k \in 1..Len(wire) : k < j /\ IsCmd(wire[k], "hide", d)
OneCurtain(d) == curtains[d] \in (IF d \in Modal THEN {0, 1} ELSE {0})

\* Once the page has caught up the dialog's curtain is gone ...
Down(d) ==
    /\ Followed("show", "hide", d)
    /\ curtains[d] = 1 => Pends("hide", d)
\* ... with it the frame, which no late draw command can bring back ...
Gone(d) == Down(d) /\ (d \in shown \cup draws => d \in hidden \/ Pends("hide", d))
\* ... or both are there.
Up(d) ==
    /\ Followed("hide", "show", d)
    /\ Pends("show", d) \/ (d \in shown /\ ~FramePends(d))
    /\ d \in Modal /\ ~Pends("show", d) => curtains[d] = 1
InStep(d) ==
    /\ d \notin visible /\ ~Hiding(d) => Gone(d)
    /\ d \in visible /\ ~Showing(d) => Up(d)
    /\ Showing(d) => Down(d)
ShownOnce(d) ==
    \A i, j \in 1..Len(events) : IsShow(events[i], d) /\ IsShow(events[j], d) => i = j

DialogInv(d) ==
    /\ d \notin born => Unborn(d)
    /\ Appearing(d) => Fresh(d)
    /\ FramedFirst(d) /\ FramingBare(d) /\ AddedFirst(d) /\ CreatedFramed(d)
    /\ ShowsApart(d) /\ CurtainFalls(d) /\ OneCurtain(d) /\ InStep(d) /\ ShownOnce(d)

\* The first addChild of all, which makes its parent the main window, has a window
\* that is no dialog for a parent.
RootFirst ==
    /\ \A i \in 1..Len(wire) : wire[i].c = "addChild" /\ KindOf[wire[i].id] # "Window" =>
         root # NoWidget \/ \E j \in 1..Len(wire) : j < i /\ wire[j].c = "addChild"
    /\ \A i \in 1..Len(events) : events[i].type = "ChildAdded" /\ KindOf[events[i].w] # "Window" =>
         root # NoWidget \/ \E j \in 1..Len(wire) : wire[j].c = "addChild"
    /\ \A w \in born : KindOf[w] # "Window" =>
         \/ root # NoWidget \/ \E j \in 1..Len(wire) : wire[j].c = "addChild"
         \/ \E i \in 1..Len(events) : events[i].type = "ChildAdded"
Kids ==
    /\ \A i \in 1..Len(wire) : wire[i].c = "addChild" => KindOf[wire[i].child] # "Window"
    /\ \A i \in 1..Len(events) : events[i].type = "ChildAdded" => KindOf[events[i].child] # "Window"
Frames ==
    /\ shown \cap hidden = {}
    /\ shown \subseteq framed
    /\ \A w \in framed : box[w] = "frame" /\ KindOf[w] \in {"Window", "Dialog"}
PageTypes ==
    /\ type \in [Widgets -> {"none", "Dialog", "Popup"}]
    /\ curtains \in [Widgets -> Nat]
    /\ framed \subseteq Widgets
\* Commands and events are about widgets.
Named ==
    /\ \A i \in 1..Len(wire) : wire[i].id \in Widgets
    /\ \A i \in 1..Len(events) : events[i].w \in Widgets
    /\ tracked \subseteq Widgets

SInv == Named /\ RootFirst /\ Kids /\ Frames /\ PageTypes /\ \A d \in DialogKind : DialogInv(d)

-----------------------------------------------------------------------------
\* A container that is a frame is in no other.
LEMMA FrameOfItself ==
  ASSUME NEW w \in Widgets, box[w] = "frame"
  PROVE  FrameAround(w) = w
<1> DEFINE N == Cardinality(Widgets)
           Step(f, n) == IF n = 0 THEN w
                         ELSE IF box[f[n - 1]] \in Widgets THEN box[f[n - 1]] ELSE f[n - 1]
           outer == CHOOSE f : f = [n \in 0..N |-> Step(f, n)]
           still == [n \in 0..N |-> w]
<1>1. N \in Nat
  BY KindAssumption, FS_CardinalityType
<1>2. still = [n \in 0..N |-> Step(still, n)]
  <2>1. \A n \in 0..N : Step(still, n) = w
    BY <1>1, PlacesAssumption
  <2> QED BY <2>1
<1>3. outer = [n \in 0..N |-> Step(outer, n)]
  BY <1>2
<1>4. FrameAround(w) = IF box[outer[N]] = "frame" THEN outer[N] ELSE NoWidget
  BY DEF FrameAround
<1> HIDE DEF outer, still
<1>5. \A n \in 0..N : outer[n] = w
  <2> DEFINE T == {n \in 0..N : outer[n] # w}
  <2> SUFFICES ASSUME T # {} PROVE FALSE
    OBVIOUS
  <2>0. T \subseteq Nat
    BY <1>1
  <2> HIDE DEF T
  <2>1. PICK n \in T : \A m \in T : n <= m
    BY <2>0, Smallest
  <2> USE DEF T
  <2>2. outer[n] = Step(outer, n)
    BY <1>3
  <2>3. n # 0 
    BY <2>1, <2>2
  <2>4. n - 1 \in 0..N /\ n - 1 \notin T
    BY <1>1, <2>1, <2>3
  <2> QED BY <2>1, <2>2, <2>3, <2>4, PlacesAssumption
<1>6. outer[N] = w
  BY <1>1, <1>5
<1> QED BY <1>4, <1>6

-----------------------------------------------------------------------------
(* The filter delivers an event.                                               *)

LEMMA TailEvents ==
  ASSUME NEW S, events \in Seq(S), events # <<>>, events' = Tail(events), NEW d
  PROVE  /\ Showing(d) <=> Showing(d)' \/ IsShow(events[1], d)
         /\ Hiding(d) <=> Hiding(d)' \/ IsHide(events[1], d)
         /\ Appearing(d) <=> Appearing(d)' \/ Coming(events[1], d)
         /\ CreateComes(d) <=> CreateComes(d)' \/ (events[1].type = "Create" /\ events[1].w = d)
         /\ ShownOnce(d) /\ IsShow(events[1], d) => ~Showing(d)'
         /\ ShownOnce(d) => ShownOnce(d)'
<1>1. /\ \A i \in 1..Len(events') : i + 1 \in 1..Len(events) /\ events'[i] = events[i + 1]
      /\ \A i \in 1..Len(events) : i # 1 => i - 1 \in 1..Len(events') /\ events'[i - 1] = events[i]
      /\ Len(events) \in Nat \ {0} /\ 1 \in 1..Len(events) /\ Len(events') \in Nat
  BY TailElements
<1>2. Showing(d) <=> Showing(d)' \/ IsShow(events[1], d)
  <2>1. ASSUME Showing(d)' PROVE Showing(d)
    BY <1>1, <2>1 DEF Showing, IsShow
  <2>2. ASSUME Showing(d), ~IsShow(events[1], d) PROVE Showing(d)'
    BY <1>1, <2>2 DEF Showing, IsShow
  <2> QED BY <1>1, <2>1, <2>2 DEF Showing, IsShow
<1>3. Hiding(d) <=> Hiding(d)' \/ IsHide(events[1], d)
  BY <1>1 DEF Hiding, IsHide
<1>4. Appearing(d) <=> Appearing(d)' \/ Coming(events[1], d)
  <2>1. ASSUME Appearing(d)' PROVE Appearing(d)
    BY <1>1, <2>1 DEF Appearing, Coming
  <2>2. ASSUME Appearing(d), ~Coming(events[1], d) PROVE Appearing(d)'
    BY <1>1, <2>2 DEF Appearing, Coming
  <2> QED BY <1>1, <2>1, <2>2 DEF Appearing, Coming
<1>5. CreateComes(d) <=> CreateComes(d)' \/ (events[1].type = "Create" /\ events[1].w = d)
  <2>1. ASSUME CreateComes(d)' PROVE CreateComes(d)
    BY <1>1, <2>1 DEF CreateComes
  <2>2. ASSUME CreateComes(d), ~(events[1].type = "Create" /\ events[1].w = d) PROVE CreateComes(d)'
    BY <1>1, <2>2 DEF CreateComes
  <2> QED BY <1>1, <2>1, <2>2 DEF CreateComes
<1>6. ASSUME ShownOnce(d), IsShow(events[1], d), Showing(d)' PROVE FALSE
  <2>1. PICK i \in 1..Len(events') : IsShow(events'[i], d)
    BY <1>6 DEF Showing, IsShow
  <2>2. i + 1 = 1
    BY <1>1, <1>6, <2>1 DEF ShownOnce
  <2> QED BY <1>1, <2>2
<1>7. ASSUME ShownOnce(d) PROVE ShownOnce(d)'
  <2> SUFFICES ASSUME NEW i \in 1..Len(events'), NEW j \in 1..Len(events'),
                      IsShow(events'[i], d), IsShow(events'[j], d)
               PROVE  i = j
    BY DEF ShownOnce, IsShow
  <2>1. i + 1 = j + 1
    BY <1>1, <1>7 DEF ShownOnce
  <2> QED BY <1>1, <2>1
<1> QED BY <1>2, <1>3, <1>4, <1>5, <1>6, <1>7

\* What the filter tells the page of an event.
Reports(e, cmd) ==
    /\ cmd.id = e.w
    /\ \/ e.type = "Create" /\ cmd.c = "create"
       \/ e.type = "ChildAdded" /\ cmd.c = "addChild" /\ cmd.child = e.child
       \/ e.type \in {"Hide", "HideToParent"} /\ cmd.c = "hide"
       \/ e.type = "Show" /\ cmd.c = "show"
       \/ /\ e.type \in {"WindowActivate", "WindowDeactivate"}
          /\ cmd.c \in {"activate", "deactivate"}
Silent(e) == e.type \notin {"Create", "ChildAdded", "Hide", "HideToParent", "Show"}

LEMMA ReportsWhat ==
  ASSUME NEW e, NEW cmd, Reports(e, cmd), NEW d
  PROVE  /\ IsCmd(cmd, "show", d) <=> IsShow(e, d)
         /\ IsCmd(cmd, "hide", d) <=> IsHide(e, d)
         /\ IsCmd(cmd, "create", d) <=> e.type = "Create" /\ e.w = d
         /\ cmd.c = "addChild" /\ cmd.child = d <=> e.type = "ChildAdded" /\ e.child = d
         /\ Framing(cmd, d) <=> Coming(e, d)
BY DEF Reports, IsCmd, IsShow, IsHide, Framing, Coming

\* Everything but the events and the wire.
unsent == <<born, parents, visible, draws, type, box, off, framed, hidden, shown, curtains, root>>

LEMMA TellCanvas ==
  ASSUME wire \in Seq(Commands), NEW cmd \in Commands, wire' = Append(wire, cmd),
         NEW S, events \in Seq(S), events # <<>>, events' = Tail(events),
         Reports(events[1], cmd), UNCHANGED unsent, NEW w \in Widgets,
         EventsAgree, CanvasShown(w)
  PROVE  CanvasShown(w)'
<1> SUFFICES ASSUME w \in visible, ~Showing(w)'
             PROVE  Followed("hide", "show", w)' /\ (w \in off => Pends("show", w)')
  BY DEF CanvasShown, unsent
<1>1. ~IsCmd(cmd, "hide", w)
  BY TailEvents, ReportsWhat DEF EventsAgree
<1>2. CASE IsCmd(cmd, "show", w)
  BY <1>2, AppendFollowed, AppendPends
<1>3. CASE ~IsCmd(cmd, "show", w)
  <2>1. ~Showing(w)
    BY <1>3, TailEvents, ReportsWhat
  <2> QED BY <1>1, <2>1, AppendFollowed, AppendPends DEF CanvasShown
<1> QED BY <1>2, <1>3

LEMMA TellDialog ==
  ASSUME wire \in Seq(Commands), NEW cmd \in Commands, wire' = Append(wire, cmd),
         NEW S, events \in Seq(S), events # <<>>, events' = Tail(events),
         Reports(events[1], cmd), UNCHANGED unsent, NEW d \in Widgets,
         EventsAgree, DialogInv(d)
  PROVE  DialogInv(d)'
<1> DEFINE e == events[1]
           n == Len(wire)
<1>1. /\ IsCmd(cmd, "show", d) <=> IsShow(e, d)
      /\ IsCmd(cmd, "hide", d) <=> IsHide(e, d)
      /\ IsCmd(cmd, "create", d) <=> e.type = "Create" /\ e.w = d
      /\ cmd.c = "addChild" /\ cmd.child = d <=> e.type = "ChildAdded" /\ e.child = d
      /\ Framing(cmd, d) <=> Coming(e, d)
  BY ReportsWhat
<1>2. /\ Showing(d) <=> Showing(d)' \/ IsShow(e, d)
      /\ Hiding(d) <=> Hiding(d)' \/ IsHide(e, d)
      /\ Appearing(d) <=> Appearing(d)' \/ Coming(e, d)
      /\ CreateComes(d) <=> CreateComes(d)' \/ (e.type = "Create" /\ e.w = d)
      /\ IsShow(e, d) => ~Showing(d)'
      /\ ShownOnce(d)'
  BY TailEvents DEF DialogInv
<1>3. /\ Pends("show", d)' <=> Pends("show", d) \/ IsCmd(cmd, "show", d)
      /\ Pends("hide", d)' <=> Pends("hide", d) \/ IsCmd(cmd, "hide", d)
      /\ Pends("create", d)' <=> Pends("create", d) \/ IsCmd(cmd, "create", d)
      /\ FramePends(d)' <=> FramePends(d) \/ Framing(cmd, d)
  BY AppendPends, AppendFramePends
<1>4. /\ n \in Nat /\ Len(wire') = n + 1 /\ wire'[n + 1] = cmd
      /\ \A i \in 1..n : wire'[i] = wire[i]
      /\ \A i \in 1..Len(wire') : i \in 1..n \/ i = n + 1
  BY AppendWire
<1>5. /\ \A i \in 1..Len(events') : i + 1 \in 1..Len(events) /\ events'[i] = events[i + 1]
      /\ Len(events) \in Nat \ {0} /\ 1 \in 1..Len(events)
  BY TailElements
<1>6. Coming(e, d) => Fresh(d)
  BY <1>2 DEF DialogInv
<1>7. IF d \in visible THEN ~Hiding(d) ELSE ~Showing(d)
  BY DEF EventsAgree
<1> HIDE DEF e
<1>8. Fresh(d) /\ ~IsShow(e, d) /\ ~IsHide(e, d) => Fresh(d)'
  BY <1>1, <1>2, <1>3 DEF Fresh, unsent
<1>9. d \notin born' => Unborn(d)'
  BY <1>1, <1>2, <1>3, <1>8 DEF DialogInv, Unborn, unsent, Fresh
<1>10. Appearing(d)' => Fresh(d)'
  BY <1>2, <1>8 DEF DialogInv, Fresh
<1>11. FramedFirst(d)'
  <2> SUFFICES ASSUME NEW i \in 1..Len(wire'), NEW j \in 1..Len(wire'), Framing(wire'[i], d),
                      IsCmd(wire'[j], "show", d) \/ IsCmd(wire'[j], "hide", d)
               PROVE  i < j
    BY DEF FramedFirst, Framing, IsCmd
  <2>1. CASE i \in 1..n /\ j \in 1..n
    BY <1>4, <2>1 DEF DialogInv, FramedFirst
  <2>2. CASE i \in 1..n /\ j = n + 1
    BY <1>4, <2>2
  <2>3. CASE i = n + 1
    <3>1. Fresh(d) /\ Framing(cmd, d)
      BY <1>1, <1>4, <1>6, <2>3
    <3>2. j = n + 1 \/ (j \in 1..n /\ wire'[j] = wire[j])
      BY <1>4
    <3>3. ~ (j \in 1..n /\ wire'[j] = wire[j])
      BY <3>1 DEF Fresh, Pends
    <3> QED BY <1>4, <3>1, <3>2, <3>3 DEF Framing, IsCmd
  <2> QED BY <1>4, <2>1, <2>2, <2>3
<1>12. FramingBare(d)'
  BY <1>1, <1>3, <1>6 DEF DialogInv, FramingBare, Fresh, unsent
<1>13. AddedFirst(d)'
  <2>1. ASSUME NEW i \in 1..Len(wire'), wire'[i].c = "addChild", wire'[i].child = d
        PROVE  type'[d] = "none" /\ \A j \in 1..Len(wire') : j < i => ~Framing(wire'[j], d)
    <3>1. CASE i \in 1..n
      <4>1. type[d] = "none" /\ \A j \in 1..n : j < i => ~Framing(wire[j], d)
        BY <1>4, <2>1, <3>1 DEF DialogInv, AddedFirst
      <4>2. \A j \in 1..Len(wire') : j < i => j \in 1..n /\ wire'[j] = wire[j]
        BY <1>4, <3>1
      <4> QED BY <4>1, <4>2 DEF unsent
    <3>2. CASE i = n + 1
      <4>1. e.type = "ChildAdded" /\ e.child = d
        BY <1>1, <1>4, <2>1, <3>2
      <4>2. type[d] = "none" /\ ~FramePends(d)
        BY <1>5, <4>1 DEF DialogInv, AddedFirst, e
      <4> QED BY <1>4, <3>2, <4>2 DEF FramePends, unsent
    <3> QED BY <1>4, <3>1, <3>2
  <2>2. ASSUME NEW i \in 1..Len(events'), events'[i].type = "ChildAdded", events'[i].child = d
        PROVE  /\ type'[d] = "none" /\ ~FramePends(d)'
               /\ \A j \in 1..Len(events') : j < i => ~Coming(events'[j], d)
    <3>1. /\ type[d] = "none" /\ ~FramePends(d)
          /\ \A j \in 1..Len(events) : j < i + 1 => ~Coming(events[j], d)
      BY <1>5, <2>2 DEF DialogInv, AddedFirst
    <3>2. ~Coming(e, d)
      BY <1>5, <3>1 DEF e
    <3> QED BY <1>1, <1>3, <1>5, <3>1, <3>2 DEF unsent
  <2> QED BY <2>1, <2>2 DEF AddedFirst, Framing, Coming
<1>14. CreatedFramed(d)'
  BY <1>1, <1>2, <1>3 DEF DialogInv, CreatedFramed, unsent
<1>15. IsShow(e, d) => Followed("show", "hide", d)
  BY <1>2 DEF DialogInv, InStep, Down
<1>16. ShowsApart(d)'
  <2> SUFFICES ASSUME NEW i \in 1..Len(wire'), NEW j \in 1..Len(wire'), i < j,
                      IsCmd(wire'[i], "show", d), IsCmd(wire'[j], "show", d)
               PROVE  \E k \in 1..Len(wire') : i < k /\ k < j /\ IsCmd(wire'[k], "hide", d)
    BY DEF ShowsApart, IsCmd
  <2>1. i \in 1..n /\ IsCmd(wire[i], "show", d)
    BY <1>4
  <2>2. CASE j \in 1..n
    <3>1. PICK k \in 1..n : i < k /\ k < j /\ IsCmd(wire[k], "hide", d)
      BY <1>4, <2>1, <2>2 DEF DialogInv, ShowsApart
    <3>2. k \in 1..Len(wire') /\ wire'[k] = wire[k]
      BY <1>4
    <3> QED BY <3>1, <3>2
  <2>3. CASE j = n + 1
    <3>1. Followed("show", "hide", d)
      BY <1>1, <1>4, <1>15, <2>3
    <3>2. PICK k \in 1..n : i < k /\ IsCmd(wire[k], "hide", d)
      BY <2>1, <3>1 DEF Followed
    <3>3. k \in 1..Len(wire') /\ wire'[k] = wire[k] /\ k < j
      BY <1>4, <2>3
    <3> QED BY <3>2, <3>3
  <2> QED BY <1>4, <2>2, <2>3
<1>17. CurtainFalls(d)'
  <2> SUFFICES ASSUME curtains[d] = 1, NEW j \in 1..Len(wire'), IsCmd(wire'[j], "show", d)
               PROVE  \E k \in 1..Len(wire') : k < j /\ IsCmd(wire'[k], "hide", d)
    BY DEF CurtainFalls, IsCmd, unsent
  <2>1. CASE j \in 1..n
    <3>1. PICK k \in 1..n : k < j /\ IsCmd(wire[k], "hide", d)
      BY <1>4, <2>1 DEF DialogInv, CurtainFalls
    <3> QED BY <1>4, <3>1
  <2>2. CASE j = n + 1
    <3>1. Pends("hide", d)
      BY <1>1, <1>2, <1>4, <2>2 DEF DialogInv, InStep, Down
    <3> QED BY <1>4, <2>2, <3>1 DEF Pends
  <2> QED BY <1>4, <2>1, <2>2
<1>18. OneCurtain(d)'
  BY DEF DialogInv, OneCurtain, unsent
<1>19. InStep(d)'
  <2>1. /\ Followed("show", "hide", d) /\ ~IsCmd(cmd, "show", d) => Followed("show", "hide", d)'
        /\ Followed("hide", "show", d) /\ ~IsCmd(cmd, "hide", d) => Followed("hide", "show", d)'
        /\ IsCmd(cmd, "hide", d) => Followed("show", "hide", d)'
        /\ IsCmd(cmd, "show", d) => Followed("hide", "show", d)'
    BY AppendFollowed
  <2>2. ASSUME d \notin visible, ~Hiding(d)' PROVE Gone(d)'
    BY <1>1, <1>2, <1>3, <1>7, <2>1, <2>2 DEF DialogInv, InStep, Gone, Down, unsent
  <2>3. ASSUME d \in visible, ~Showing(d)' PROVE Up(d)'
    <3>1. ~Framing(cmd, d) /\ ~IsCmd(cmd, "hide", d)
      BY <1>1, <1>2, <1>6, <1>7, <2>3 DEF Fresh
    <3> QED BY <1>1, <1>2, <1>3, <2>1, <2>3, <3>1 DEF DialogInv, InStep, Up, unsent
  <2>4. ASSUME Showing(d)' PROVE Down(d)'
    BY <1>1, <1>2, <1>3, <1>7, <2>1, <2>4 DEF DialogInv, InStep, Down, unsent
  <2> QED BY <2>2, <2>3, <2>4 DEF InStep, unsent
<1> QED BY <1>2, <1>9, <1>10, <1>11, <1>12, <1>13, <1>14, <1>16, <1>17, <1>18, <1>19 DEF DialogInv

LEMMA SilentDelivery ==
  ASSUME NEW S, events \in Seq(S), events # <<>>, events' = Tail(events),
         Silent(events[1]), UNCHANGED <<wire, unsent>>, EventsAgree
  PROVE  /\ \A w \in Widgets : CanvasShown(w) => CanvasShown(w)'
         /\ \A d \in Widgets : DialogInv(d) => DialogInv(d)'
<1>1. ASSUME NEW w PROVE /\ Showing(w)' <=> Showing(w)
                         /\ Hiding(w)' <=> Hiding(w)
                         /\ Appearing(w)' <=> Appearing(w)
                         /\ CreateComes(w)' <=> CreateComes(w)
                         /\ ShownOnce(w) => ShownOnce(w)'
  BY TailEvents DEF Silent, IsShow, IsHide, Coming
<1>2. ASSUME NEW w PROVE /\ Pends("show", w)' <=> Pends("show", w)
                         /\ Pends("hide", w)' <=> Pends("hide", w)
                         /\ Pends("create", w)' <=> Pends("create", w)
                         /\ FramePends(w)' <=> FramePends(w)
                         /\ Followed("show", "hide", w)' <=> Followed("show", "hide", w)
                         /\ Followed("hide", "show", w)' <=> Followed("hide", "show", w)
  BY DEF Pends, FramePends, Followed
<1>3. ASSUME NEW w \in Widgets, CanvasShown(w) PROVE CanvasShown(w)'
  BY <1>1, <1>2, <1>3 DEF CanvasShown, unsent
<1>4. ASSUME NEW d \in Widgets, DialogInv(d) PROVE DialogInv(d)'
  <2>1. Fresh(d)' <=> Fresh(d)
    BY <1>1, <1>2 DEF Fresh, unsent
  <2>2. Unborn(d)' <=> Unborn(d)
    BY <1>1, <1>2, <2>1 DEF Unborn, unsent
  <2>3. FramedFirst(d)' /\ FramingBare(d)' /\ CreatedFramed(d)'
        /\ ShowsApart(d)' /\ CurtainFalls(d)' /\ OneCurtain(d)' /\ ShownOnce(d)'
    BY <1>1, <1>2, <1>4 DEF DialogInv, FramedFirst, FramingBare, CreatedFramed, ShowsApart,
                            CurtainFalls, OneCurtain, unsent
  <2>4. AddedFirst(d)'
    <3>1. \A i \in 1..Len(events') : i + 1 \in 1..Len(events) /\ events'[i] = events[i + 1]
      BY TailElements
    <3>2. ASSUME NEW i \in 1..Len(events'), events'[i].type = "ChildAdded",
                 events'[i].child = d
          PROVE  /\ type'[d] = "none" /\ ~FramePends(d)'
                 /\ \A j \in 1..Len(events') : j < i => ~Coming(events'[j], d)
      <4>1. /\ type[d] = "none" /\ ~FramePends(d)
            /\ \A j \in 1..Len(events) : j < i + 1 => ~Coming(events[j], d)
        BY <1>4, <3>1, <3>2 DEF DialogInv, AddedFirst
      <4> QED BY <1>2, <3>1, <4>1 DEF unsent
    <3>3. \A i \in 1..Len(wire) : wire[i].c = "addChild" /\ wire[i].child = d =>
            type'[d] = "none" /\ \A j \in 1..Len(wire) : j < i => ~Framing(wire[j], d)
      BY <1>4 DEF DialogInv, AddedFirst, unsent
    <3> QED BY <3>2, <3>3 DEF AddedFirst, Framing, Coming
  <2>5. InStep(d)'
    <3>1. (Gone(d)' <=> Gone(d)) /\ (Up(d)' <=> Up(d)) /\ (Down(d)' <=> Down(d))
      BY <1>2 DEF Gone, Up, Down, unsent
    <3> QED BY <1>1, <1>4, <3>1 DEF DialogInv, InStep, unsent
  <2> QED BY <1>1, <1>4, <2>1, <2>2, <2>3, <2>4, <2>5 DEF DialogInv, unsent
<1> QED BY <1>3, <1>4

\* The main window, when an event is delivered.
LEMMA DeliverRoot ==
  ASSUME NEW S, events \in Seq(S), events # <<>>, events' = Tail(events),
         wire \in Seq(Commands), UNCHANGED unsent, RootFirst, Kids,
         \/ UNCHANGED wire /\ Silent(events[1])
         \/ \E cmd \in Commands : wire' = Append(wire, cmd) /\ Reports(events[1], cmd)
  PROVE  RootFirst' /\ Kids'
<1> DEFINE n == Len(wire)
<1>1. /\ \A i \in 1..Len(events') : i + 1 \in 1..Len(events) /\ events'[i] = events[i + 1]
      /\ \A i \in 1..Len(events) : i # 1 => i - 1 \in 1..Len(events') /\ events'[i - 1] = events[i]
      /\ 1 \in 1..Len(events)
  BY TailElements
<1>2. /\ n \in Nat /\ Len(wire') \in Nat
      /\ \A i \in 1..n : i \in 1..Len(wire') /\ wire'[i] = wire[i]
      /\ \A i \in 1..Len(wire') :
           i \in 1..n \/ (wire'[i].c = "addChild" => /\ events[1].type = "ChildAdded"
                                                     /\ wire'[i].id = events[1].w
                                                     /\ wire'[i].child = events[1].child
                                                     /\ i = n + 1)
      /\ events[1].type = "ChildAdded" => \E i \in 1..Len(wire') : wire'[i].c = "addChild"
  <2>1. CASE UNCHANGED wire /\ Silent(events[1])
    BY <2>1 DEF Silent
  <2>2. ASSUME NEW cmd \in Commands, wire' = Append(wire, cmd), Reports(events[1], cmd)
        PROVE  <1>2!:
    BY <2>2, AppendWire DEF Reports
  <2> QED BY <2>1, <2>2
<1> HIDE DEF n
<1>3. Kids'
  <2>1. ASSUME NEW i \in 1..Len(wire'), wire'[i].c = "addChild"
        PROVE  KindOf[wire'[i].child] # "Window"
    <3>1. CASE i \in 1..n
      BY <1>2, <2>1, <3>1 DEF Kids, n
    <3>2. CASE i \notin 1..n
      BY <1>1, <1>2, <2>1, <3>2 DEF Kids
    <3> QED BY <3>1, <3>2
  <2>2. ASSUME NEW i \in 1..Len(events'), events'[i].type = "ChildAdded"
        PROVE  KindOf[events'[i].child] # "Window"
    BY <1>1, <2>2 DEF Kids
  <2> QED BY <2>1, <2>2 DEF Kids
<1>4. ASSUME NEW i \in 1..Len(wire'), wire'[i].c = "addChild", KindOf[wire'[i].id] # "Window",
             root = NoWidget
      PROVE  \E j \in 1..Len(wire') : j < i /\ wire'[j].c = "addChild"
  <2>1. CASE i \in 1..n
    <3>1. PICK j \in 1..n : j < i /\ wire[j].c = "addChild"
      BY <1>2, <1>4, <2>1 DEF RootFirst, n
    <3> QED BY <1>2, <3>1
  <2>2. CASE i \notin 1..n
    <3>1. PICK j \in 1..n : wire[j].c = "addChild"
      BY <1>1, <1>2, <1>4, <2>2 DEF RootFirst, n
    <3>2. i = n + 1
      BY <1>2, <1>4, <2>2
    <3>3. j \in 1..Len(wire') /\ wire'[j] = wire[j] /\ j < i
      BY <1>2, <3>2
    <3> QED BY <3>1, <3>3
  <2> QED BY <2>1, <2>2
<1>5. ASSUME NEW i \in 1..Len(events'), events'[i].type = "ChildAdded",
             KindOf[events'[i].w] # "Window", root = NoWidget
      PROVE  \E j \in 1..Len(wire') : wire'[j].c = "addChild"
  <2>1. PICK j \in 1..n : wire[j].c = "addChild"
    BY <1>1, <1>5 DEF RootFirst, n
  <2> QED BY <1>2, <2>1
<1>6. ASSUME NEW w \in born, KindOf[w] # "Window", root = NoWidget
      PROVE  \/ \E j \in 1..Len(wire') : wire'[j].c = "addChild"
             \/ \E i \in 1..Len(events') : events'[i].type = "ChildAdded"
  <2>1. CASE \E j \in 1..n : wire[j].c = "addChild"
    BY <1>2, <2>1
  <2>2. CASE \E i \in 1..Len(events) : events[i].type = "ChildAdded"
    <3>1. PICK i \in 1..Len(events) : events[i].type = "ChildAdded"
      BY <2>2
    <3>2. i = 1 \/ (i - 1 \in 1..Len(events') /\ events'[i - 1] = events[i])
      BY <1>1
    <3> QED BY <1>2, <3>1, <3>2
  <2> QED BY <1>6, <2>1, <2>2 DEF RootFirst, n
<1> QED BY <1>3, <1>4, <1>5, <1>6 DEF RootFirst, unsent

\* The command of each case of the filter.
LEMMA FilterReports ==
  ASSUME TInv, Filter
  PROVE  /\ events \in Seq(About(Told)) /\ events # <<>> /\ events' = Tail(events)
         /\ \/ UNCHANGED wire /\ Silent(events[1])
            \/ \E cmd \in Commands : wire' = Append(wire, cmd) /\ Reports(events[1], cmd)
<1>1. PICK types : Delivering(types)
  BY DEF Filter, FilterCreate, FilterChildAdded, FilterGone, FilterHide, FilterShow,
         FilterShowToParent, FilterActivation
<1>2. /\ events \in Seq(About(Told)) /\ events # <<>> /\ events' = Tail(events)
      /\ Receiver \in Optional /\ Head(events).child \in Optional
      /\ Head(events) = events[1] /\ Receiver = events[1].w
  BY <1>1, HeadType DEF Delivering, TInv, Receiver
<1>3. \A name \in CommandNames : /\ Command(name, Receiver) \in Commands
                                 /\ Command(name, Receiver).c = name
                                 /\ Command(name, Receiver).id = Receiver
  BY <1>2 DEF Command, Commands, Optional
<1>4. CASE FilterCreate
  BY <1>2, <1>3, <1>4 DEF FilterCreate, Delivering, Issue, Reports, CommandNames
<1>5. CASE FilterChildAdded
  <2> DEFINE cmd == [c |-> "addChild", id |-> Receiver, child |-> Head(events).child]
  <2>1. cmd \in Commands
    BY <1>2 DEF Commands, CommandNames
  <2>2. wire' = Append(wire, cmd) /\ Reports(events[1], cmd)
    BY <1>2, <1>5 DEF FilterChildAdded, Delivering, Issue, Reports
  <2> QED BY <1>2, <2>1, <2>2
<1>6. CASE FilterGone \/ FilterShowToParent
  BY <1>2, <1>6 DEF FilterGone, FilterShowToParent, Delivering, Silent
<1>7. CASE FilterHide
  BY <1>2, <1>3, <1>7 DEF FilterHide, Delivering, Issue, Reports, CommandNames
<1>8. CASE FilterShow
  BY <1>2, <1>3, <1>8 DEF FilterShow, Delivering, Issue, Reports, CommandNames
<1>9. CASE FilterActivation
  <2>1. events[1].type \in {"WindowActivate", "WindowDeactivate"}
    BY <1>2, <1>9 DEF FilterActivation, Delivering
  <2>2. \/ UNCHANGED wire
        \/ \E name \in {"activate", "deactivate"} : wire' = Append(wire, Command(name, Receiver))
    BY <1>9 DEF FilterActivation, Issue
  <2> QED BY <1>2, <1>3, <2>1, <2>2 DEF Silent, Reports, CommandNames
<1> QED BY <1>4, <1>5, <1>6, <1>7, <1>8, <1>9 DEF Filter

LEMMA FilterShows ==
  ASSUME MInv, OffInv, SInv, Filter, UNCHANGED pageVars
  PROVE  OffInv' /\ SInv'
<1>1. /\ events \in Seq(About(Told)) /\ events # <<>> /\ events' = Tail(events)
      /\ \/ UNCHANGED wire /\ Silent(events[1])
         \/ \E cmd \in Commands : wire' = Append(wire, cmd) /\ Reports(events[1], cmd)
      /\ wire \in Seq(Commands)
  BY FilterReports DEF MInv, TInv, Types
<1>2. UNCHANGED unsent
  BY DEF Filter, FilterCreate, FilterChildAdded, FilterGone, FilterHide, FilterShow,
         FilterShowToParent, FilterActivation, Delivering, qtVars, pageVars, frameVars, unsent
<1>3. ASSUME NEW w \in Widgets PROVE CanvasShown(w)'
  BY <1>1, <1>2, SilentDelivery, TellCanvas DEF OffInv
<1>4. ASSUME NEW d \in DialogKind PROVE DialogInv(d)'
  BY <1>1, <1>2, SilentDelivery, TellDialog DEF OffInv, SInv, DialogKind
<1>5. ParentsAreWindows' /\ EventsAgree'
  BY <1>1, <1>2, TailEvents DEF OffInv, ParentsAreWindows, EventsAgree, unsent
<1>6. RootFirst' /\ Kids'
  BY <1>1, <1>2, DeliverRoot DEF SInv
<1>7. Frames' /\ PageTypes'
  BY <1>2 DEF SInv, Frames, PageTypes, unsent
<1>8. Named'
  <2>1. /\ \A i \in 1..Len(events') : events'[i].w \in Widgets
        /\ events[1].w \in Widgets
    BY <1>1, TailElements DEF SInv, Named
  <2>2. \A i \in 1..Len(wire') : wire'[i].id \in Widgets
    <3>1. ASSUME NEW cmd \in Commands, wire' = Append(wire, cmd), Reports(events[1], cmd)
          PROVE  \A i \in 1..Len(wire') : wire'[i].id \in Widgets
      BY <1>1, <2>1, <3>1, AppendWire DEF SInv, Named, Reports
    <3> QED BY <1>1, <3>1 DEF SInv, Named
  <2>3. tracked' \subseteq Widgets
    <3>1. Receiver \in Widgets
      BY <1>1, <2>1, TailElements DEF Receiver
    <3>2. FilterChildAdded => Head(events).child \in Widgets
      BY <1>1, TailElements DEF FilterChildAdded, Delivering, MInv, Adoptions
    <3> QED BY <3>1, <3>2 DEF Filter, FilterCreate, FilterChildAdded, FilterGone, FilterHide,
                FilterShow, FilterShowToParent, FilterActivation, SInv, Named
  <2> QED BY <2>1, <2>2, <2>3 DEF Named
<1> QED BY <1>3, <1>4, <1>5, <1>6, <1>7, <1>8 DEF OffInv, SInv

-----------------------------------------------------------------------------
(* The page executes a command.                                                *)

\* createDialog is called for windows that are no dialogs, and for the dialog the command
\* is about.
LEMMA HeadCommand ==
  ASSUME MInv, SInv, wire # <<>>, NEW cmd, cmd = Head(wire)
  PROVE  /\ cmd \in Commands /\ cmd = wire[1] /\ 1 \in 1..Len(wire) /\ cmd.id \in Widgets
         /\ cmd.c = "addChild" => cmd.child \in Widgets /\ KindOf[cmd.child] # "Window"
         /\ cmd.c = "addChild" /\ root = NoWidget => KindOf[cmd.id] = "Window"
         /\ \A d : IsDialog(d) /\ cmd.c = "addChild" /\ cmd.child = d /\ d \in Widgets =>
                     type[d] = "none"
<1>1. wire \in Seq(Commands)
  BY DEF MInv, TInv, Types
<1>2. 1 \in 1..Len(wire) /\ cmd = wire[1] /\ cmd \in Commands
  BY <1>1, TailElements
<1>3. cmd.id \in Widgets
  BY <1>2 DEF SInv, Named
<1>4. cmd.c = "addChild" => cmd.child \in Widgets /\ KindOf[cmd.child] # "Window"
  BY <1>2 DEF MInv, Adoptions, SInv, Kids
<1>5. cmd.c = "addChild" /\ root = NoWidget => KindOf[cmd.id] = "Window"
  BY <1>2 DEF SInv, RootFirst
<1>6. ASSUME NEW d \in Widgets, IsDialog(d), cmd.c = "addChild", cmd.child = d
      PROVE  type[d] = "none"
  BY <1>2, <1>6 DEF SInv, DialogKind, DialogInv, AddedFirst
<1> QED BY <1>2, <1>3, <1>4, <1>5, <1>6

\* The frame of a widget whose canvas is a dialog's is its own.
LEMMA OwnFrame ==
  ASSUME SInv, NEW w, w \in framed
  PROVE  w \in Widgets /\ FrameAround(w) = w /\ w # NoWidget
BY FrameOfItself, KindAssumption DEF SInv, Frames, PageTypes

\* The dialogs that a command makes.
Made(cmd) ==
    CASE cmd.c = "create" -> IF IsDialog(cmd.id) THEN {cmd.id} ELSE {}
      [] cmd.c = "addChild" -> (IF root = NoWidget THEN {cmd.id} ELSE {})
                               \cup (IF /\ NewTo(cmd.id, cmd.child)
                                        /\ type[cmd.child] = "none" /\ IsDialog(cmd.child)
                                     THEN {cmd.child} ELSE {})
      [] OTHER -> {}

\* What a create or an addChild does to the frames.
LEMMA MakeEffect ==
  ASSUME MInv, SInv, wire # <<>>, NEW cmd, cmd = Head(wire), Execute(cmd),
         cmd.c \in {"create", "addChild"}
  PROVE  /\ Made(cmd) \subseteq Widgets
         /\ \A d \in Made(cmd) : KindOf[d] = "Window" \/ (IsDialog(d) /\ Framing(cmd, d))
         /\ framed' = framed \cup Made(cmd)
         /\ hidden' = hidden \ Made(cmd) /\ shown' = shown \ Made(cmd)
         /\ ghosts' = ghosts \cup (Made(cmd) \cap shown)
         /\ curtains' = [w \in Widgets |-> IF w \in Made(cmd) THEN 0 ELSE curtains[w]]
         /\ \A w \in Widgets : box'[w] = IF w \in Made(cmd) THEN "frame" ELSE
                                 IF /\ cmd.c = "addChild" /\ cmd.child = w
                                    /\ NewTo(cmd.id, w) THEN cmd.id ELSE box[w]
         /\ type' \in [Widgets -> {"none", "Dialog", "Popup"}]
         /\ \A w \in Widgets : ~Framing(cmd, w) => type'[w] = type[w]
         /\ off' = off
         /\ root' = IF cmd.c = "addChild" /\ root = NoWidget THEN cmd.id ELSE root
<1> USE HeadCommand
<1>1. /\ Made(cmd) \subseteq Widgets
      /\ \A d \in Made(cmd) : KindOf[d] = "Window" \/ (IsDialog(d) /\ Framing(cmd, d))
  BY DEF Made, Framing
<1>2. CASE cmd.c = "create"
  <2>1. Create(cmd.id) /\ Made(cmd) = IF IsDialog(cmd.id) THEN {cmd.id} ELSE {}
    BY <1>2 DEF Execute, Made
  <2>2. /\ framed' = framed \cup Made(cmd)
        /\ hidden' = hidden \ Made(cmd) /\ shown' = shown \ Made(cmd)
        /\ ghosts' = ghosts \cup (Made(cmd) \cap shown)
        /\ curtains' = [w \in Widgets |-> IF w \in Made(cmd) THEN 0 ELSE curtains[w]]
        /\ box' = [w \in Widgets |-> IF w \in Made(cmd) THEN "frame" ELSE box[w]]
        /\ off' = off /\ root' = root
    BY <2>1 DEF Create, CreateDialogs
  <2>3. type' = [type EXCEPT ![cmd.id] = IF IsDialog(cmd.id) THEN "Dialog"
                                         ELSE IF IsPopup(cmd.id) THEN "Popup" ELSE @]
    BY <2>1 DEF Create
  <2>4. /\ type' \in [Widgets -> {"none", "Dialog", "Popup"}]
        /\ \A w \in Widgets : ~Framing(cmd, w) => type'[w] = type[w]
    BY <1>2, <2>3 DEF SInv, PageTypes, Framing
  <2> QED BY <1>1, <1>2, <2>2, <2>4
<1>3. CASE cmd.c = "addChild"
  <2> DEFINE p == cmd.id
             c == cmd.child
             typed == NewTo(p, c) /\ type[c] = "none"
  <2>1. AddChild(p, c)
        /\ Made(cmd) = (IF root = NoWidget THEN {p} ELSE {})
                       \cup (IF typed /\ IsDialog(c) THEN {c} ELSE {})
    BY <1>3 DEF Execute, Made
  <2>2. /\ framed' = framed \cup Made(cmd)
        /\ hidden' = hidden \ Made(cmd) /\ shown' = shown \ Made(cmd)
        /\ ghosts' = ghosts \cup (Made(cmd) \cap shown)
        /\ curtains' = [w \in Widgets |-> IF w \in Made(cmd) THEN 0 ELSE curtains[w]]
        /\ box' = [w \in Widgets |-> IF w \in Made(cmd) THEN "frame"
                                     ELSE IF w = c /\ NewTo(p, c) THEN p ELSE box[w]]
        /\ off' = off /\ root' = IF root = NoWidget THEN p ELSE root
    BY <2>1 DEF AddChild, CreateDialogs
  <2>3. type' = [type EXCEPT ![c] = IF typed /\ IsDialog(c) THEN "Dialog"
                                    ELSE IF typed /\ IsPopup(c) THEN "Popup" ELSE @]
    BY <2>1 DEF AddChild
  <2>4. /\ type' \in [Widgets -> {"none", "Dialog", "Popup"}]
        /\ \A w \in Widgets : ~Framing(cmd, w) => type'[w] = type[w]
    <3>1. type \in [Widgets -> {"none", "Dialog", "Popup"}]
      BY DEF SInv, PageTypes
    <3>2. \A w : ~Framing(cmd, w) => w # c
      BY <1>3 DEF Framing
    <3> HIDE DEF p, c, typed
    <3> QED BY <2>3, <3>1, <3>2
  <2> QED BY <1>1, <1>3, <2>2, <2>4
<1> QED BY <1>2, <1>3

\* What a show or a hide does to the frames.
LEMMA ShowEffect ==
  ASSUME MInv, SInv, wire # <<>>, NEW cmd, cmd = Head(wire), Execute(cmd),
         cmd.c \in {"show", "hide"}
  PROVE  /\ UNCHANGED <<framed, ghosts, box, type, root>>
         /\ off' = IF cmd.c = "show" THEN off \ {cmd.id} ELSE off \cup {cmd.id}
         /\ cmd.id \notin framed => UNCHANGED <<hidden, shown, curtains>>
         /\ cmd.id \in framed /\ cmd.c = "show" =>
              /\ hidden' = hidden \ {cmd.id} /\ shown' = shown \cup {cmd.id}
              /\ curtains' = [curtains EXCEPT ![cmd.id] = IF cmd.id \in Modal THEN @ + 1 ELSE @]
         /\ cmd.id \in framed /\ cmd.c = "hide" =>
              /\ hidden' = hidden \cup {cmd.id} /\ shown' = shown \ {cmd.id}
              /\ curtains' = [curtains EXCEPT ![cmd.id] = IF @ > 0 THEN @ - 1 ELSE @]
<1>1. CASE cmd.c = "show"
  <2>1. Show(cmd.id)
    BY <1>1 DEF Execute
  <2> QED BY <1>1, <2>1, OwnFrame DEF Show
<1>2. CASE cmd.c = "hide"
  <2>1. Hide(cmd.id)
    BY <1>2 DEF Execute
  <2> QED BY <1>2, <2>1, OwnFrame DEF Hide
<1> QED BY <1>1, <1>2

LEMMA ActivationEffect ==
  ASSUME NEW cmd, Execute(cmd), cmd.c \in {"activate", "deactivate"}
  PROVE  UNCHANGED <<framed, hidden, shown, ghosts, curtains, box, type, root, off>>
BY DEF Execute, Activate, Deactivate

LEMMA CommandKinds ==
  ASSUME NEW cmd, Execute(cmd)
  PROVE  cmd.c \in {"create", "addChild"} \/ cmd.c \in {"show", "hide"}
         \/ cmd.c \in {"activate", "deactivate"}
BY DEF Execute

LEMMA ExecuteFrames ==
  ASSUME MInv, SInv, wire # <<>>, NEW cmd, cmd = Head(wire), Execute(cmd)
  PROVE  Frames' /\ PageTypes'
<1>1. CASE cmd.c \in {"create", "addChild"}
  <2>1. \A w \in framed : w \notin Made(cmd) =>
          ~(cmd.c = "addChild" /\ cmd.child = w /\ NewTo(cmd.id, w))
    BY HeadCommand DEF SInv, Frames, Made, IsDialog, PageTypes
  <2>2. /\ framed' \subseteq Widgets
        /\ \A w \in framed' : box'[w] = "frame" /\ KindOf[w] \in {"Window", "Dialog"}
    BY <1>1, <2>1, MakeEffect DEF SInv, Frames, PageTypes, IsDialog
  <2>3. shown' \cap hidden' = {} /\ shown' \subseteq framed'
    BY <1>1, MakeEffect DEF SInv, Frames
  <2>4. curtains' \in [Widgets -> Nat] /\ type' \in [Widgets -> {"none", "Dialog", "Popup"}]
    BY <1>1, MakeEffect DEF SInv, PageTypes
  <2> QED BY <2>2, <2>3, <2>4 DEF Frames, PageTypes
<1>2. CASE cmd.c \in {"show", "hide"}
  <2>1. shown' \cap hidden' = {} /\ shown' \subseteq framed'
    BY <1>2, ShowEffect DEF SInv, Frames
  <2>2. curtains' \in [Widgets -> Nat]
    BY <1>2, ShowEffect DEF SInv, PageTypes
  <2> QED BY <1>2, <2>1, <2>2, ShowEffect DEF SInv, Frames, PageTypes
<1>3. CASE cmd.c \in {"activate", "deactivate"}
  BY <1>3, ActivationEffect DEF SInv, Frames, PageTypes
<1> QED BY <1>1, <1>2, <1>3, CommandKinds

LEMMA ExecuteCanvas ==
  ASSUME MInv, SInv, wire # <<>>, Execute(Head(wire)), wire' = Tail(wire),
         UNCHANGED <<visible, events>>, NEW w \in Widgets, CanvasShown(w)
  PROVE  CanvasShown(w)'
<1> DEFINE cmd == Head(wire)
<1>1. cmd = wire[1] /\ wire \in Seq(Commands)
  BY HeadCommand DEF MInv, TInv, Types
<1>2. /\ Pends("show", w) <=> Pends("show", w)' \/ IsCmd(cmd, "show", w)
      /\ Followed("hide", "show", w) =>
           Followed("hide", "show", w)' /\ (IsCmd(cmd, "hide", w) => Pends("show", w)')
  BY <1>1, TailPends, TailFollowed
<1>3. w \in off' => ~IsCmd(cmd, "show", w) /\ (w \in off \/ IsCmd(cmd, "hide", w))
  <2>1. CASE cmd.c \in {"create", "addChild"}
    BY <2>1, MakeEffect DEF IsCmd
  <2>2. CASE cmd.c \in {"show", "hide"}
    BY <2>2, ShowEffect DEF IsCmd
  <2>3. CASE cmd.c \in {"activate", "deactivate"}
    BY <2>3, ActivationEffect DEF IsCmd
  <2> QED BY <2>1, <2>2, <2>3, CommandKinds
<1>4. Showing(w)' <=> Showing(w)
  BY DEF Showing
<1> HIDE DEF cmd
<1> QED BY <1>2, <1>3, <1>4 DEF CanvasShown

\* What a command does to the frame of a dialog.
LEMMA ExecuteEffect ==
  ASSUME MInv, SInv, wire # <<>>, NEW cmd, cmd = Head(wire), Execute(cmd), NEW d \in DialogKind
  PROVE  /\ IsCmd(cmd, "show", d) /\ d \in framed =>
              /\ d \notin hidden' /\ d \in shown'
              /\ curtains'[d] = IF d \in Modal THEN curtains[d] + 1 ELSE curtains[d]
         /\ IsCmd(cmd, "hide", d) /\ d \in framed =>
              /\ d \in hidden' /\ d \notin shown'
              /\ curtains'[d] = IF curtains[d] > 0 THEN curtains[d] - 1 ELSE 0
         /\ Framing(cmd, d) =>
              /\ d \in hidden' => d \in hidden
              /\ d \in hidden => d \in hidden' \/ d \in Made(cmd)
              /\ d \in shown' => d \in shown
              /\ curtains'[d] \in {0, curtains[d]}
         /\ ~Framing(cmd, d) /\ ~IsCmd(cmd, "show", d) /\ ~IsCmd(cmd, "hide", d) =>
              /\ d \in hidden' <=> d \in hidden
              /\ d \in shown' <=> d \in shown
              /\ curtains'[d] = curtains[d]
         /\ ~Framing(cmd, d) => type'[d] = type[d]
         /\ framed \subseteq framed'
         /\ IsCmd(cmd, "create", d) => d \in framed'
<1>1. d \in Widgets /\ IsDialog(d) /\ curtains[d] \in Nat /\ KindOf[d] # "Window"
      /\ curtains \in [Widgets -> Nat]
  BY DEF DialogKind, SInv, PageTypes, IsDialog
<1>2. CASE cmd.c \in {"create", "addChild"}
  <2>1. d \in Made(cmd) => Framing(cmd, d)
    BY <1>1, <1>2, MakeEffect
  <2>2. ~IsCmd(cmd, "show", d) /\ ~IsCmd(cmd, "hide", d)
    BY <1>2 DEF IsCmd
  <2>3. IsCmd(cmd, "create", d) => d \in Made(cmd)
    BY <1>1 DEF IsCmd, Made
  <2> QED BY <1>1, <1>2, <2>1, <2>2, <2>3, MakeEffect
<1>3. CASE cmd.c \in {"show", "hide"}
  <2>1. ~Framing(cmd, d) /\ ~IsCmd(cmd, "create", d)
    BY <1>3 DEF Framing, IsCmd
  <2>2. CASE cmd.id = d
    BY <1>1, <1>3, <2>1, <2>2, ShowEffect DEF IsCmd
  <2>3. CASE cmd.id # d
    <3>1. (d \in hidden' <=> d \in hidden) /\ (d \in shown' <=> d \in shown)
          /\ curtains'[d] = curtains[d]
      BY <1>1, <1>3, <2>3, ShowEffect
    <3> QED BY <1>1, <1>3, <2>1, <2>3, <3>1, ShowEffect DEF IsCmd
  <2> QED BY <2>2, <2>3
<1>4. CASE cmd.c \in {"activate", "deactivate"}
  BY <1>4, ActivationEffect DEF IsCmd, Framing
<1> QED BY <1>2, <1>3, <1>4, CommandKinds

LEMMA ExecuteDialog ==
  ASSUME MInv, SInv, wire # <<>>, Execute(Head(wire)), wire' = Tail(wire),
         UNCHANGED <<born, visible, events, draws>>, NEW d \in DialogKind
  PROVE  DialogInv(d)'
<1> DEFINE cmd == Head(wire)
           n == Len(wire)
<1>1. /\ wire \in Seq(Commands) /\ cmd = wire[1] /\ DialogInv(d) /\ d \in Widgets
      /\ curtains[d] \in Nat /\ curtains'[d] \in Nat
  BY HeadCommand, ExecuteFrames DEF MInv, TInv, Types, SInv, DialogKind, PageTypes
<1>2. /\ n \in Nat \ {0} /\ Len(wire') = n - 1
      /\ \A i \in 1..Len(wire') : i + 1 \in 1..n /\ wire'[i] = wire[i + 1]
      /\ \A i \in 1..n : i # 1 => i - 1 \in 1..Len(wire') /\ wire'[i - 1] = wire[i]
      /\ 1 \in 1..n
  BY <1>1, TailWire
<1>3. /\ Pends("show", d) <=> Pends("show", d)' \/ IsCmd(cmd, "show", d)
      /\ Pends("hide", d) <=> Pends("hide", d)' \/ IsCmd(cmd, "hide", d)
      /\ Pends("create", d) <=> Pends("create", d)' \/ IsCmd(cmd, "create", d)
      /\ FramePends(d) <=> FramePends(d)' \/ Framing(cmd, d)
  BY <1>1, TailPends, TailFramePends
<1>4. /\ Followed("show", "hide", d) =>
           Followed("show", "hide", d)' /\ (IsCmd(cmd, "show", d) => Pends("hide", d)')
      /\ Followed("hide", "show", d) =>
           Followed("hide", "show", d)' /\ (IsCmd(cmd, "hide", d) => Pends("show", d)')
  BY <1>1, TailFollowed
<1>5. /\ Showing(d)' <=> Showing(d)
      /\ Hiding(d)' <=> Hiding(d)
      /\ Appearing(d)' <=> Appearing(d)
      /\ CreateComes(d)' <=> CreateComes(d)
      /\ ShownOnce(d)'
  BY <1>1 DEF Showing, Hiding, Appearing, CreateComes, DialogInv, ShownOnce
\* At its first show or hide the dialog has its frame.
<1>6. IsCmd(cmd, "show", d) \/ IsCmd(cmd, "hide", d) => ~FramePends(d) /\ d \in framed
  <2> SUFFICES ASSUME IsCmd(cmd, "show", d) \/ IsCmd(cmd, "hide", d)
               PROVE  ~FramePends(d) /\ d \in framed
    OBVIOUS
  <2>1. ~FramePends(d)
    BY <1>1, <1>2 DEF FramePends, DialogInv, FramedFirst
  <2>2. ~Pends("create", d)
    BY <2>1 DEF FramePends, Pends, Framing, IsCmd
  <2>3. Pends("show", d) \/ Pends("hide", d)
    BY <1>3
  <2>4. d \in born /\ ~Appearing(d)
    BY <1>1, <2>3 DEF DialogInv, Unborn, Fresh
  <2>5. ~CreateComes(d)
    BY <2>4 DEF CreateComes, Appearing, Coming
  <2> QED BY <1>1, <2>1, <2>2, <2>4, <2>5 DEF DialogInv, CreatedFramed
<1>7. IsCmd(cmd, "show", d) => curtains[d] = 0
  <2> SUFFICES ASSUME IsCmd(cmd, "show", d), curtains[d] = 1 PROVE FALSE
    BY <1>1 DEF DialogInv, OneCurtain
  <2>1. PICK k \in 1..n : k < 1 /\ IsCmd(wire[k], "hide", d)
    BY <1>1, <1>2 DEF DialogInv, CurtainFalls
  <2> QED BY <1>2, <2>1
<1>8. curtains[d] \in (IF d \in Modal THEN {0, 1} ELSE {0})
  BY <1>1 DEF DialogInv, OneCurtain
<1>9. Framing(cmd, d) => d \notin hidden /\ d \notin hidden' /\ curtains[d] = 0 /\ curtains'[d] = 0
  BY <1>1, <1>3, ExecuteEffect DEF DialogInv, FramingBare
<1>10. IsCmd(cmd, "show", d) =>
         d \notin hidden' /\ d \in shown' /\ curtains'[d] = (IF d \in Modal THEN 1 ELSE 0)
  BY <1>6, <1>7, ExecuteEffect
<1>11. IsCmd(cmd, "hide", d) => d \in hidden' /\ d \notin shown' /\ curtains'[d] = 0
  BY <1>6, <1>8, ExecuteEffect
<1>12. ~Framing(cmd, d) /\ ~IsCmd(cmd, "show", d) /\ ~IsCmd(cmd, "hide", d) =>
         /\ d \in hidden' <=> d \in hidden
         /\ d \in shown' <=> d \in shown
         /\ curtains'[d] = curtains[d]
  BY ExecuteEffect
<1>13. Fresh(d) => Fresh(d)'
  <2>1. Framing(cmd, d) => (d \in shown' => d \in shown)
    BY ExecuteEffect
  <2> QED BY <1>3, <1>5, <1>9, <1>12, <2>1 DEF Fresh
<1>14. d \notin born' => Unborn(d)'
  BY <1>1, <1>3, <1>5, <1>13, ExecuteEffect DEF DialogInv, Unborn
<1>15. Appearing(d)' => Fresh(d)'
  BY <1>1, <1>5, <1>13 DEF DialogInv
<1>16. FramedFirst(d)'
  <2> SUFFICES ASSUME NEW i \in 1..Len(wire'), NEW j \in 1..Len(wire'), Framing(wire'[i], d),
                      IsCmd(wire'[j], "show", d) \/ IsCmd(wire'[j], "hide", d)
               PROVE  i < j
    BY DEF FramedFirst, Framing, IsCmd
  <2>1. i + 1 < j + 1
    BY <1>1, <1>2 DEF DialogInv, FramedFirst
  <2> QED BY <1>2, <2>1
<1>17. FramingBare(d)'
  BY <1>1, <1>3, <1>6, <1>9, <1>12 DEF DialogInv, FramingBare
<1>18. AddedFirst(d)'
  <2>1. ASSUME NEW i \in 1..Len(wire'), wire'[i].c = "addChild", wire'[i].child = d
        PROVE  type'[d] = "none" /\ \A j \in 1..Len(wire') : j < i => ~Framing(wire'[j], d)
    <3>1. type[d] = "none" /\ \A j \in 1..n : j < i + 1 => ~Framing(wire[j], d)
      BY <1>1, <1>2, <2>1 DEF DialogInv, AddedFirst
    <3>2. ~Framing(cmd, d)
      BY <1>1, <1>2, <3>1
    <3>3. type'[d] = "none"
      BY <1>1, <3>1, <3>2, ExecuteEffect
    <3> QED BY <1>2, <3>1, <3>3
  <2>2. ASSUME NEW i \in 1..Len(events), events[i].type = "ChildAdded", events[i].child = d
        PROVE  /\ type'[d] = "none" /\ ~FramePends(d)'
               /\ \A j \in 1..Len(events) : j < i => ~Coming(events[j], d)
    <3>1. /\ type[d] = "none" /\ ~FramePends(d)
          /\ \A j \in 1..Len(events) : j < i => ~Coming(events[j], d)
      BY <1>1, <2>2 DEF DialogInv, AddedFirst
    <3> QED BY <1>1, <1>3, <3>1, ExecuteEffect
  <2> QED BY <2>1, <2>2 DEF AddedFirst, Framing, Coming
<1>19. CreatedFramed(d)'
  BY <1>1, <1>3, <1>5, ExecuteEffect DEF DialogInv, CreatedFramed
<1>20. ShowsApart(d)'
  <2> SUFFICES ASSUME NEW i \in 1..Len(wire'), NEW j \in 1..Len(wire'), i < j,
                      IsCmd(wire'[i], "show", d), IsCmd(wire'[j], "show", d)
               PROVE  \E k \in 1..Len(wire') : i < k /\ k < j /\ IsCmd(wire'[k], "hide", d)
    BY DEF ShowsApart, IsCmd
  <2>1. PICK k \in 1..n : i + 1 < k /\ k < j + 1 /\ IsCmd(wire[k], "hide", d)
    BY <1>1, <1>2 DEF DialogInv, ShowsApart
  <2>2. k - 1 \in 1..Len(wire') /\ wire'[k - 1] = wire[k] /\ i < k - 1 /\ k - 1 < j
    BY <1>2, <2>1
  <2> QED BY <2>1, <2>2
<1>21. CurtainFalls(d)'
  <2> SUFFICES ASSUME curtains'[d] = 1, NEW j \in 1..Len(wire'), IsCmd(wire'[j], "show", d)
               PROVE  \E k \in 1..Len(wire') : k < j /\ IsCmd(wire'[k], "hide", d)
    BY DEF CurtainFalls, IsCmd
  <2>1. PICK k \in 1..n : k # 1 /\ k < j + 1 /\ IsCmd(wire[k], "hide", d)
    <3>1. CASE IsCmd(cmd, "show", d)
      <4>1. PICK k \in 1..n : 1 < k /\ k < j + 1 /\ IsCmd(wire[k], "hide", d)
        BY <1>1, <1>2, <3>1 DEF DialogInv, ShowsApart
      <4> QED BY <4>1
    <3>2. CASE ~IsCmd(cmd, "show", d)
      <4>1. curtains[d] = 1 /\ ~IsCmd(cmd, "hide", d)
        BY <1>9, <1>11, <1>12, <3>2
      <4>2. PICK k \in 1..n : k < j + 1 /\ IsCmd(wire[k], "hide", d)
        BY <1>1, <1>2, <4>1 DEF DialogInv, CurtainFalls
      <4> QED BY <1>1, <4>1, <4>2
    <3> QED BY <3>1, <3>2
  <2>2. k - 1 \in 1..Len(wire') /\ wire'[k - 1] = wire[k] /\ k - 1 < j
    BY <1>2, <2>1
  <2> QED BY <2>1, <2>2
<1>22. OneCurtain(d)'
  BY <1>8, <1>9, <1>10, <1>11, <1>12 DEF OneCurtain
<1>23. InStep(d)'
  <2>1. Down(d) => Down(d)'
    BY <1>3, <1>4, <1>9, <1>11, <1>12 DEF Down
  <2>2. Gone(d) => Gone(d)'
    <3> SUFFICES ASSUME Gone(d), d \in shown' \cup draws
                 PROVE  d \in hidden' \/ Pends("hide", d)'
      BY <2>1 DEF Gone
    <3>1. CASE IsCmd(cmd, "show", d)
      BY <1>4, <3>1 DEF Gone, Down
    <3>2. CASE IsCmd(cmd, "hide", d)
      BY <1>11, <3>2
    <3>3. CASE Framing(cmd, d)
      BY <1>3, <1>9, <3>3, ExecuteEffect DEF Gone, Framing, IsCmd
    <3> QED BY <1>3, <1>12, <3>1, <3>2, <3>3 DEF Gone
  <2>3. Up(d) => Up(d)'
    <3> SUFFICES ASSUME Up(d)
                 PROVE  /\ Pends("show", d)' \/ (d \in shown' /\ ~FramePends(d)')
                        /\ d \in Modal /\ ~Pends("show", d)' => curtains'[d] = 1
      BY <1>4 DEF Up
    <3>1. CASE IsCmd(cmd, "show", d)
      BY <1>3, <1>6, <1>10, <3>1
    <3>2. CASE IsCmd(cmd, "hide", d)
      BY <1>4, <3>2 DEF Up
    <3>3. CASE Framing(cmd, d)
      BY <1>3, <3>3 DEF Up, Framing, IsCmd
    <3> QED BY <1>3, <1>12, <3>1, <3>2, <3>3 DEF Up
  <2> QED BY <1>1, <1>5, <2>1, <2>2, <2>3 DEF DialogInv, InStep
<1> QED BY <1>5, <1>14, <1>15, <1>16, <1>17, <1>18, <1>19, <1>20, <1>21, <1>22, <1>23 DEF DialogInv

LEMMA ExecuteRoot ==
  ASSUME MInv, SInv, wire # <<>>, Execute(Head(wire)), wire' = Tail(wire),
         UNCHANGED <<born, events, tracked>>
  PROVE  RootFirst' /\ Kids' /\ Named'
<1> DEFINE cmd == Head(wire)
<1>1. wire \in Seq(Commands) /\ cmd = wire[1] /\ cmd.id \in Widgets
  BY HeadCommand DEF MInv, TInv, Types
<1>2. /\ \A i \in 1..Len(wire') : i + 1 \in 1..Len(wire) /\ wire'[i] = wire[i + 1]
      /\ \A i \in 1..Len(wire) : i # 1 => i - 1 \in 1..Len(wire') /\ wire'[i - 1] = wire[i]
      /\ Len(wire) \in Nat /\ Len(wire') \in Nat
  BY <1>1, TailWire
<1>3. Kids' /\ Named'
  BY <1>2 DEF SInv, Kids, Named
<1>4. root' = NoWidget => root = NoWidget /\ cmd.c # "addChild"
  <2>1. cmd.c \in {"create", "addChild"} /\ root' = NoWidget => root = NoWidget /\ cmd.c # "addChild"
    BY <1>1, MakeEffect, KindAssumption
  <2> QED BY <2>1, ShowEffect, ActivationEffect, CommandKinds
<1> HIDE DEF cmd
<1>5. ASSUME root' = NoWidget, NEW j \in 1..Len(wire), wire[j].c = "addChild"
      PROVE  j - 1 \in 1..Len(wire') /\ wire'[j - 1].c = "addChild"
  BY <1>1, <1>2, <1>4, <1>5
<1>6. ASSUME NEW i \in 1..Len(wire'), wire'[i].c = "addChild", KindOf[wire'[i].id] # "Window",
             root' = NoWidget
      PROVE  \E j \in 1..Len(wire') : j < i /\ wire'[j].c = "addChild"
  <2>1. PICK j \in 1..Len(wire) : j < i + 1 /\ wire[j].c = "addChild"
    BY <1>2, <1>4, <1>6 DEF SInv, RootFirst
  <2>2. j - 1 < i
    BY <1>2, <2>1
  <2> QED BY <1>5, <1>6, <2>1, <2>2
<1>7. (\E j \in 1..Len(wire) : wire[j].c = "addChild") /\ root' = NoWidget =>
        \E j \in 1..Len(wire') : wire'[j].c = "addChild"
  BY <1>5
<1> QED BY <1>3, <1>4, <1>6, <1>7 DEF SInv, RootFirst

LEMMA PageExecuteShows ==
  ASSUME MInv, OffInv, SInv, PageExecute
  PROVE  OffInv' /\ SInv'
<1>1. /\ wire # <<>> /\ Execute(Head(wire)) /\ wire' = Tail(wire)
      /\ UNCHANGED <<born, parents, visible, events, draws, tracked>>
  BY DEF PageExecute, qtVars
<1>2. ParentsAreWindows' /\ EventsAgree'
  BY <1>1 DEF OffInv, ParentsAreWindows, EventsAgree, Showing, Hiding
<1>3. ASSUME NEW w \in Widgets PROVE CanvasShown(w)'
  BY <1>1, ExecuteCanvas DEF OffInv
<1>4. ASSUME NEW d \in DialogKind PROVE DialogInv(d)'
  BY <1>1, ExecuteDialog
<1> QED BY <1>1, <1>2, <1>3, <1>4, ExecuteRoot, ExecuteFrames DEF OffInv, SInv

-----------------------------------------------------------------------------
(* The draw commands, and the steps that show and hide nothing.                *)

LEMMA DrawnShows ==
  ASSUME OffInv, SInv,
         UNCHANGED <<born, parents, visible, type, box, off, framed, hidden, curtains, root>>,
         UNCHANGED <<events, wire, tracked>>,
         shown \subseteq shown', shown' \subseteq framed, shown' \cap hidden = {},
         \A d \in Widgets : /\ d \in draws' => d \in draws \cup visible
                            /\ d \in shown' => d \in shown \cup draws
  PROVE  OffInv' /\ SInv'
<1>1. ASSUME NEW w PROVE /\ Showing(w)' <=> Showing(w)
                         /\ Hiding(w)' <=> Hiding(w)
                         /\ Appearing(w)' <=> Appearing(w)
                         /\ CreateComes(w)' <=> CreateComes(w)
                         /\ ShownOnce(w)' <=> ShownOnce(w)
                         /\ Pends("show", w)' <=> Pends("show", w)
                         /\ Pends("hide", w)' <=> Pends("hide", w)
                         /\ Pends("create", w)' <=> Pends("create", w)
                         /\ FramePends(w)' <=> FramePends(w)
                         /\ Followed("show", "hide", w)' <=> Followed("show", "hide", w)
                         /\ Followed("hide", "show", w)' <=> Followed("hide", "show", w)
  BY DEF Showing, Hiding, Appearing, CreateComes, ShownOnce, Pends, FramePends, Followed
<1>2. OffInv'
  BY <1>1 DEF OffInv, ParentsAreWindows, EventsAgree, CanvasShown
<1>3. ASSUME NEW d \in DialogKind PROVE DialogInv(d)'
  <2>1. DialogInv(d) /\ d \in Widgets
    BY DEF SInv, DialogKind
  <2>2. (Fresh(d) => Fresh(d)') /\ (Unborn(d) => Unborn(d)')
    BY <1>1, <2>1 DEF Fresh, Unborn
  <2>3. FramedFirst(d)' /\ FramingBare(d)' /\ AddedFirst(d)' /\ CreatedFramed(d)'
        /\ ShowsApart(d)' /\ CurtainFalls(d)' /\ OneCurtain(d)'
    BY <1>1, <2>1 DEF DialogInv, FramedFirst, FramingBare, AddedFirst, CreatedFramed,
                      ShowsApart, CurtainFalls, OneCurtain
  <2>4. (Down(d) => Down(d)') /\ (Up(d) => Up(d)')
        /\ (Gone(d) /\ d \notin visible => Gone(d)')
    BY <1>1, <2>1 DEF Gone, Up, Down
  <2>5. InStep(d)'
    BY <1>1, <2>1, <2>4 DEF DialogInv, InStep
  <2> QED BY <1>1, <2>1, <2>2, <2>3, <2>5 DEF DialogInv
<1>4. Named' /\ RootFirst' /\ Kids' /\ Frames' /\ PageTypes'
  BY DEF SInv, Named, RootFirst, Kids, Frames, PageTypes
<1> QED BY <1>2, <1>3, <1>4 DEF SInv

LEMMA RenderShows ==
  ASSUME OffInv, SInv, Render
  PROVE  OffInv' /\ SInv'
<1>1. PICK w \in Widgets : RenderWidget(w) /\ UNCHANGED pageVars
  BY DEF Render
<1>2. shown' \subseteq framed /\ shown' \cap hidden = {}
  BY <1>1 DEF SInv, Frames, pageVars, frameVars
<1> QED BY <1>1, <1>2, DrawnShows DEF RenderWidget, qtVars, filterVars, pageVars, frameVars

LEMMA DrawShows ==
  ASSUME OffInv, SInv, NEW w \in Widgets, PageDraw(w)
  PROVE  OffInv' /\ SInv'
<1>1. /\ w \in draws /\ draws' = draws \ {w} /\ Draw(w)
      /\ UNCHANGED <<qtVars, filterVars, events>>
  BY DEF PageDraw
<1>2. /\ shown \subseteq shown' /\ shown' \subseteq framed /\ shown' \cap hidden = {}
      /\ \A d \in Widgets : d \in shown' => d \in shown \cup draws
  BY <1>1, OwnFrame DEF Draw, SInv, Frames
<1> QED BY <1>1, <1>2, DrawnShows DEF Draw, qtVars, filterVars

LEMMA StillShows ==
  ASSUME OffInv, SInv, UNCHANGED <<unsent, events, wire, tracked>>
  PROVE  OffInv' /\ SInv'
<1>1. shown' \subseteq framed /\ shown' \cap hidden = {}
  BY DEF SInv, Frames, unsent
<1> QED BY <1>1, DrawnShows DEF unsent

-----------------------------------------------------------------------------
(* The application's calls.                                                    *)

\* The events of a call that shows `shows' and hides `hides'.
Says(shows, hides) ==
    {e \in QtEvents :
       /\ e.w \in Widgets /\ e.type # "Create"
       /\ e.type = "Show" => e.w \in shows
       /\ e.type \in {"Hide", "HideToParent"} => e.w \in hides
       /\ e.type = "ChildAdded" => e.w \in born /\ KindOf[e.child] = "Widget"}

LEMMA CallShows ==
  ASSUME OffInv, SInv, events = <<>>, UNCHANGED <<born, wire, tracked, draws>>,
         UNCHANGED <<type, box, off, framed, hidden, shown, curtains, root>>,
         NEW shows, NEW hides, events' \in Seq(Says(shows, hides)),
         ParentsAreWindows',
         \A w \in Widgets : /\ w \in shows => w \in visible'
                            /\ w \in hides => w \notin visible'
                            /\ w \in visible' \ visible => Showing(w)',
         \A d \in DialogKind : /\ d \in shows \cup hides => d \in born
                               /\ d \in shows => d \notin visible
                               /\ d \in visible \ visible' => Hiding(d)'
                               /\ ShownOnce(d)'
  PROVE  OffInv' /\ SInv'
<1>1. \A i \in 1..Len(events') : events'[i] \in Says(shows, hides)
  OBVIOUS
<1>2. ASSUME NEW w \in Widgets
      PROVE  (Showing(w)' => w \in shows) /\ (Hiding(w)' => w \in hides)
  BY <1>1 DEF Showing, Hiding, IsShow, IsHide, Says
<1>3. \A i \in 1..Len(events) : FALSE
  OBVIOUS
<1>4. ASSUME NEW w PROVE ~Showing(w) /\ ~Hiding(w) /\ ~Appearing(w) /\ ~CreateComes(w)
  BY <1>3 DEF Showing, Hiding, Appearing, CreateComes
<1>5. ASSUME NEW w PROVE /\ Pends("show", w)' <=> Pends("show", w)
                         /\ Pends("hide", w)' <=> Pends("hide", w)
                         /\ Pends("create", w)' <=> Pends("create", w)
                         /\ FramePends(w)' <=> FramePends(w)
                         /\ Followed("show", "hide", w)' <=> Followed("show", "hide", w)
                         /\ Followed("hide", "show", w)' <=> Followed("hide", "show", w)
  BY DEF Pends, FramePends, Followed
<1>6. EventsAgree'
  BY <1>2 DEF EventsAgree
<1>7. ASSUME NEW w \in Widgets PROVE CanvasShown(w)'
  BY <1>4, <1>5 DEF OffInv, CanvasShown
<1>8. ASSUME NEW d \in DialogKind PROVE DialogInv(d)'
  <2>1. DialogInv(d) /\ d \in Widgets /\ KindOf[d] = "Dialog"
    BY DEF SInv, DialogKind, IsDialog
  <2>2. ~Appearing(d)' /\ ~CreateComes(d)'
    BY <1>1, <2>1 DEF Appearing, CreateComes, Coming, Says
  <2>3. d \notin born => Unborn(d)'
    <3> SUFFICES ASSUME d \notin born PROVE Unborn(d)'
      OBVIOUS
    <3>1. Unborn(d) /\ ~Showing(d)' /\ ~Hiding(d)'
      BY <1>2, <2>1 DEF DialogInv
    <3>2. d \notin visible'
      BY <3>1, <2>1 DEF Unborn, Fresh
    <3> QED BY <1>5, <2>2, <3>1, <3>2 DEF Unborn, Fresh
  <2>4. FramedFirst(d)' /\ FramingBare(d)' /\ CreatedFramed(d)'
        /\ ShowsApart(d)' /\ CurtainFalls(d)' /\ OneCurtain(d)'
    BY <1>4, <1>5, <2>1 DEF DialogInv, FramedFirst, FramingBare, CreatedFramed,
                            ShowsApart, CurtainFalls, OneCurtain
  <2>5. AddedFirst(d)'
    <3>1. \A i \in 1..Len(events') : ~(events'[i].type = "ChildAdded" /\ events'[i].child = d)
      BY <1>1, <2>1 DEF Says
    <3>2. \A i \in 1..Len(wire) : wire[i].c = "addChild" /\ wire[i].child = d =>
            type[d] = "none" /\ \A j \in 1..Len(wire) : j < i => ~Framing(wire[j], d)
      BY <2>1 DEF DialogInv, AddedFirst
    <3> QED BY <3>1, <3>2 DEF AddedFirst, Framing
  <2>6. InStep(d)'
    <3>1. (Down(d)' <=> Down(d)) /\ (Up(d)' <=> Up(d)) /\ (Gone(d)' <=> Gone(d))
      BY <1>5 DEF Down, Up, Gone
    <3>2. IF d \in visible THEN Up(d) ELSE Gone(d)
      BY <1>4, <2>1 DEF DialogInv, InStep
    <3>3. Gone(d) => Down(d)
      BY DEF Gone
    <3> QED BY <1>2, <2>1, <3>1, <3>2, <3>3 DEF InStep
  <2> QED BY <2>1, <2>2, <2>3, <2>4, <2>5, <2>6 DEF DialogInv
<1>9. Named'
  BY <1>1 DEF SInv, Named, Says
<1>10. Kids'
  BY <1>1 DEF SInv, Kids, Says
<1>11. RootFirst'
  <2>1. ASSUME NEW w \in born, KindOf[w] # "Window"
        PROVE  root # NoWidget \/ \E j \in 1..Len(wire) : wire[j].c = "addChild"
    BY <1>3, <2>1 DEF SInv, RootFirst
  <2>2. \A i \in 1..Len(events') : events'[i].type = "ChildAdded" => events'[i].w \in born
    BY <1>1 DEF Says
  <2> QED BY <2>1, <2>2 DEF SInv, RootFirst
<1>12. Frames' /\ PageTypes'
  BY DEF SInv, Frames, PageTypes
<1> QED BY <1>6, <1>7, <1>8, <1>9, <1>10, <1>11, <1>12 DEF OffInv, SInv

\* SetToSeq leaves no element out.
LEMMA SetToSeqOnto ==
  ASSUME NEW S, IsFiniteSet(S), NEW x \in S
  PROVE  \E i \in 1..Len(SetToSeq(S)) : SetToSeq(S)[i] = x
<1> DEFINE s == SetToSeq(S)
           n == Cardinality(S)
           T == {s[i] : i \in 1..n}
<1>1. s \in [1..n -> S] /\ n \in Nat
  BY SetToSeqType
<1>2. IsInjective(s)
  <2>1. \E f \in [1..n -> S] : IsInjective(f)
    BY FS_CardinalityType DEF ExistsBijection, Bijection, Injection
  <2> QED BY <2>1 DEF SetToSeq
<1> HIDE DEF s
<1>3. T \in SUBSET S /\ s \in [1..n -> T]
  BY <1>1
<1>4. s \in Bijection(1..n, T)
  BY <1>1, <1>2, <1>3 DEF Bijection, Injection, Surjection, IsInjective
<1>5. IsFiniteSet(T) /\ Cardinality(T) = n
  <2>1. IsFiniteSet(1..n) /\ Cardinality(1..n) = n
    BY <1>1, FS_Interval
  <2> QED BY <1>4, <2>1, FS_Bijection DEF ExistsBijection
<1>6. T = S
  BY <1>3, <1>5, FS_Subset
<1>7. Len(s) = n
  BY <1>1
<1> QED BY <1>6, <1>7 DEF s

\* The events that EventsFor makes.
LEMMA EventsForEach ==
  ASSUME NEW kind, NEW ws \in SUBSET Widgets
  PROVE  /\ Len(EventsFor(kind, ws)) \in Nat
         /\ \A i \in 1..Len(EventsFor(kind, ws)) :
              \E w \in ws : EventsFor(kind, ws)[i] = Event(kind, w)
         /\ \A w \in ws : \E i \in 1..Len(EventsFor(kind, ws)) :
              EventsFor(kind, ws)[i] = Event(kind, w)
<1>1. IsFiniteSet(ws)
  BY KindAssumption, FS_Subset
<1> DEFINE s == SetToSeq(ws)
           n == Cardinality(ws)
<1>2. s \in [1..n -> ws] /\ n \in Nat
  BY <1>1, SetToSeqType
<1>3. Len(s) = n
  BY <1>2
<1>4. EventsFor(kind, ws) = [i \in 1..n |-> Event(kind, s[i])]
  BY <1>3 DEF EventsFor
<1>5. \A w \in ws : \E i \in 1..n : s[i] = w
  BY <1>1, <1>3, SetToSeqOnto
<1> HIDE DEF s, n
<1>6. Len(EventsFor(kind, ws)) = n
  BY <1>2, <1>4
<1> QED BY <1>2, <1>4, <1>5, <1>6

LEMMA OneSaid ==
  ASSUME NEW shows, NEW hides, NEW w \in Widgets, NEW kind \in EventTypes \ {"Create", "ChildAdded"},
         kind = "Show" => w \in shows, kind \in {"Hide", "HideToParent"} => w \in hides
  PROVE  <<Event(kind, w)>> \in Seq(Says(shows, hides))
<1>1. Event(kind, w) \in Says(shows, hides)
  BY DEF Event, Says, QtEvents, Optional
<1> QED BY <1>1

LEMMA AllSaid ==
  ASSUME NEW shows, NEW hides, NEW ws \in SUBSET Widgets,
         NEW kind \in EventTypes \ {"Create", "ChildAdded"},
         kind = "Show" => ws \subseteq shows, kind \in {"Hide", "HideToParent"} => ws \subseteq hides
  PROVE  EventsFor(kind, ws) \in Seq(Says(shows, hides))
<1> DEFINE s == EventsFor(kind, ws)
           n == Len(s)
<1>1. /\ n \in Nat
      /\ \A i \in 1..n : \E w \in ws : s[i] = Event(kind, w)
  BY EventsForEach
<1>2. \A w \in ws : Event(kind, w) \in Says(shows, hides)
  BY DEF Event, Says, QtEvents, Optional
<1>3. s = [i \in 1..n |-> s[i]]
  BY <1>1 DEF EventsFor
<1> HIDE DEF s
<1>4. \A i \in 1..n : s[i] \in Says(shows, hides)
  BY <1>1, <1>2
<1>5. s \in [1..n -> Says(shows, hides)]
  BY <1>3, <1>4
<1> QED BY <1>1, <1>5, SeqDef DEF s

\* hide() ends in HideToParent for the widget.
LEMMA HideEventsSay ==
  ASSUME NEW shows, NEW hides, NEW w \in Widgets, w \in hides, born \subseteq Widgets,
         ShownWith(w) \cap visible \subseteq hides
  PROVE  /\ HideEvents(w) \in Seq(Says(shows, hides))
         /\ Len(HideEvents(w)) \in Nat \ {0}
         /\ HideEvents(w)[Len(HideEvents(w))] = Event("HideToParent", w)
<1> DEFINE Q == Seq(Says(shows, hides))
           deactivate == IF w = active THEN <<Event("WindowDeactivate", w)>> ELSE <<>>
           children == EventsFor("Hide", ShownWith(w) \cap visible)
           first == IF w \notin visible THEN <<>>
                    ELSE deactivate \o <<Event("Hide", w)>> \o children
           last == Event("HideToParent", w)
<1>1. deactivate \in Q /\ <<Event("Hide", w)>> \in Q /\ <<last>> \in Q
  BY OneSaid, EmptySeq DEF EventTypes
<1>2. children \in Q
  BY AllSaid DEF ShownWith, Alive, EventTypes
<1> HIDE DEF deactivate, children, last
<1>3. first \in Q
  BY <1>1, <1>2, ConcatProperties, EmptySeq
<1>4. HideEvents(w) = first \o <<last>>
  BY DEF HideEvents, deactivate, children, last
<1> HIDE DEF first
<1>5. HideEvents(w) \in Q
  BY <1>1, <1>3, <1>4, ConcatProperties
<1>6. Len(first) \in Nat /\ Len(HideEvents(w)) = Len(first) + 1
      /\ HideEvents(w)[Len(first) + 1] = last
  BY <1>3, <1>4
<1> QED BY <1>5, <1>6 DEF last

\* Where no event of a call shows anything.
LEMMA NothingShown ==
  ASSUME NEW hides, events' \in Seq(Says({}, hides)), NEW d
  PROVE  ~Showing(d)' /\ ShownOnce(d)'
<1>1. \A i \in 1..Len(events') : events'[i].type # "Show"
  BY DEF Says
<1> QED BY <1>1 DEF Showing, ShownOnce, IsShow

\* What the calls leave alone.
LEMMA CallLeaves ==
  ASSUME UNCHANGED <<pageVars, filterVars, draws>>
  PROVE  UNCHANGED <<wire, tracked, draws, type, box, off, framed, hidden, shown, curtains, root>>
BY DEF pageVars, frameVars, filterVars

LEMMA ShowWidgetShows ==
  ASSUME MInv, OffInv, SInv, NEW w \in Widgets, ShowWidget(w), UNCHANGED pageVars
  PROVE  OffInv' /\ SInv'
<1>1. events = <<>> /\ UNCHANGED <<born, parents, filterVars, draws>> /\ w \in born \ visible
  BY DEF ShowWidget, Idle, Alive
<1>2. ParentsAreWindows' /\ born \subseteq Widgets
  BY <1>1 DEF OffInv, ParentsAreWindows, MInv, TInv, Types
<1>3. CASE ~(IsWindow(w) \/ Parent(w) \in visible)
  <2>1. UNCHANGED visible /\ events' = <<Event("ShowToParent", w)>>
    BY <1>3 DEF ShowWidget
  <2>2. events' \in Seq(Says({}, {}))
    BY <2>1, OneSaid DEF EventTypes
  <2> QED BY <1>1, <1>2, <2>1, <2>2, NothingShown, CallLeaves, CallShows
<1>4. CASE IsWindow(w) \/ Parent(w) \in visible
  <2> DEFINE sw == ShownWith(w)
             shows == {w} \cup sw
             first == EventsFor("Show", sw)
             n == Len(first)
             last == <<Event("Show", w), Event("ShowToParent", w)>>
  <2>1. visible' = visible \cup shows /\ events' = first \o last
    BY <1>4 DEF ShowWidget
  <2>2. sw \subseteq Widgets /\ sw \subseteq born /\ \A c \in sw : KindOf[c] = "Widget"
    BY <1>2 DEF ShownWith, Alive, IsWindow
  <2>3. first \in Seq(Says(shows, {}))
    BY <2>2, AllSaid DEF EventTypes
  <2>4. last \in Seq(Says(shows, {}))
    <3>1. Event("Show", w) \in Says(shows, {}) /\ Event("ShowToParent", w) \in Says(shows, {})
      BY DEF Event, Says, QtEvents, EventTypes, Optional
    <3> QED BY <3>1
  <2>5. /\ n \in Nat
        /\ \A i \in 1..n : \E c \in sw : first[i] = Event("Show", c)
        /\ \A c \in sw : \E i \in 1..n : first[i] = Event("Show", c)
    BY <2>2, EventsForEach
  <2> HIDE DEF first, sw
  <2>6. /\ events' \in Seq(Says(shows, {})) /\ Len(events') = n + 2
        /\ \A i \in 1..n : events'[i] = first[i]
        /\ events'[n + 1] = Event("Show", w) /\ events'[n + 2] = Event("ShowToParent", w)
    BY <2>1, <2>3, <2>4, <2>5, ConcatProperties
  <2>7. ASSUME NEW c \in shows PROVE Showing(c)'
    <3>1. CASE c = w
      <4>1. n + 1 \in 1..Len(events') /\ events'[n + 1] = Event("Show", c)
        BY <2>5, <2>6, <3>1
      <4> QED BY <4>1 DEF Showing, IsShow, Event
    <3>2. CASE c \in sw
      <4>1. PICK i \in 1..n : first[i] = Event("Show", c)
        BY <2>5, <3>2
      <4>2. n \in Nat /\ Len(events') = n + 2
        BY <2>5, <2>6
      <4>3. i \in 1..Len(events')
        BY <4>2
      <4>4. events'[i] = Event("Show", c)
        BY <2>6, <4>1
      <4> QED BY <4>3, <4>4 DEF Showing, IsShow, Event
    <3> QED BY <3>1, <3>2
  <2>8. ASSUME NEW d \in DialogKind PROVE ShownOnce(d)'
    <3>1. ASSUME NEW i \in 1..Len(events'), IsShow(events'[i], d) PROVE i = n + 1
      <4>1. i \in 1..n \/ i = n + 1 \/ i = n + 2
        BY <2>5, <2>6
      <4>2. i \notin 1..n
        <5> SUFFICES ASSUME i \in 1..n PROVE FALSE
          OBVIOUS
        <5>1. PICK c \in sw : events'[i] = Event("Show", c)
          BY <2>5, <2>6
        <5> QED BY <2>2, <3>1, <5>1 DEF IsShow, Event, DialogKind, IsDialog
      <4>3. i # n + 2
        BY <2>6, <3>1 DEF IsShow, Event
      <4> QED BY <4>1, <4>2, <4>3
    <3> QED BY <3>1 DEF ShownOnce, IsShow
  <2>9. ASSUME NEW d \in DialogKind, d \in shows PROVE d \in born /\ d \notin visible
    BY <1>1, <2>2, <2>9 DEF DialogKind, IsDialog
  <2> QED BY <1>1, <1>2, <2>1, <2>6, <2>7, <2>8, <2>9, CallLeaves, CallShows
<1> QED BY <1>3, <1>4

\* A call that hides a window or a widget and shows nothing.
LEMMA HidingShows ==
  ASSUME MInv, OffInv, SInv, events = <<>>, UNCHANGED <<born, filterVars, draws, pageVars>>,
         ParentsAreWindows', NEW hides, events' \in Seq(Says({}, hides)),
         visible' \subseteq visible,
         \A w \in Widgets : w \in hides => w \notin visible',
         \A d \in DialogKind : /\ d \in hides => d \in born
                               /\ d \in visible \ visible' =>
                                    \E i \in 1..Len(events') : events'[i] = Event("HideToParent", d)
  PROVE  OffInv' /\ SInv'
<1>1. ASSUME NEW d \in DialogKind, d \in visible \ visible' PROVE Hiding(d)'
  <2>1. PICK i \in 1..Len(events') : events'[i] = Event("HideToParent", d)
    BY <1>1
  <2>2. IsHide(events'[i], d)
    BY <2>1 DEF IsHide, Event
  <2> QED BY <2>2 DEF Hiding, IsHide
<1> QED BY <1>1, NothingShown, CallLeaves, CallShows

LEMMA HideWidgetShows ==
  ASSUME MInv, OffInv, SInv, NEW w \in Widgets, HideWidget(w), UNCHANGED pageVars
  PROVE  OffInv' /\ SInv'
<1>1. /\ events = <<>> /\ UNCHANGED <<born, parents, filterVars, draws>> /\ w \in born
      /\ visible' = visible \ ({w} \cup ShownWith(w)) /\ events' = HideEvents(w)
  BY DEF HideWidget, Idle, Alive, Unshow
<1>2. ParentsAreWindows' /\ born \subseteq Widgets
  BY <1>1 DEF OffInv, ParentsAreWindows, MInv, TInv, Types
<1> DEFINE hides == {w} \cup ShownWith(w)
<1>3. /\ events' \in Seq(Says({}, hides))
      /\ \E i \in 1..Len(events') : events'[i] = Event("HideToParent", w)
  BY <1>1, <1>2, HideEventsSay
<1>4. \A d \in DialogKind : d \in hides => d = w
  BY DEF DialogKind, IsDialog, ShownWith, IsWindow
<1> QED BY <1>1, <1>2, <1>3, <1>4, HidingShows

LEMMA CloseWindowShows ==
  ASSUME MInv, OffInv, SInv, events = <<>>, NEW w, NEW accepts \in BOOLEAN,
         CloseWindow(w, accepts), UNCHANGED pageVars
  PROVE  OffInv' /\ SInv'
<1>1. UNCHANGED <<born, parents, filterVars, draws>> /\ w \in born
  BY DEF CloseWindow, Alive
<1>2. ParentsAreWindows' /\ born \subseteq Widgets /\ w \in Widgets
  BY <1>1 DEF OffInv, ParentsAreWindows, MInv, TInv, Types
<1>3. CASE ~(accepts /\ w \in visible)
  <2>1. events' = <<Event("Close", w)>> /\ UNCHANGED visible
    BY <1>3 DEF CloseWindow
  <2>2. events' \in Seq(Says({}, {}))
    BY <1>2, <2>1, OneSaid DEF EventTypes
  <2> QED BY <1>1, <1>2, <2>1, <2>2, HidingShows
<1>4. CASE accepts /\ w \in visible
  <2> DEFINE hides == {w} \cup ShownWith(w)
             close == <<Event("Close", w)>>
             rest == HideEvents(w)
  <2>1. visible' = visible \ hides /\ events' = close \o rest
    BY <1>4 DEF CloseWindow, Unshow
  <2>2. close \in Seq(Says({}, hides)) /\ Len(close) = 1
    BY <1>2, OneSaid DEF EventTypes
  <2>0. w \in hides /\ ShownWith(w) \cap visible \subseteq hides
    OBVIOUS
  <2> HIDE DEF close, rest, hides
  <2>3. /\ rest \in Seq(Says({}, hides)) /\ Len(rest) \in Nat \ {0}
        /\ rest[Len(rest)] = Event("HideToParent", w)
    BY <1>2, <2>0, HideEventsSay DEF rest
  <2>4. /\ events' \in Seq(Says({}, hides)) /\ Len(events') = Len(rest) + 1
        /\ events'[Len(rest) + 1] = Event("HideToParent", w)
    <3>1. /\ close \o rest \in Seq(Says({}, hides)) /\ Len(close \o rest) = Len(close) + Len(rest)
          /\ \A i \in 1..(Len(close) + Len(rest)) :
               (close \o rest)[i] = IF i <= Len(close) THEN close[i] ELSE rest[i - Len(close)]
      BY <2>2, <2>3, ConcatProperties
    <3>2. /\ Len(close) + Len(rest) = Len(rest) + 1
          /\ Len(rest) + 1 \in 1..(Len(rest) + 1) /\ ~(Len(rest) + 1 <= 1)
          /\ Len(rest) + 1 - 1 = Len(rest)
      BY <2>2, <2>3
    <3>3. (close \o rest)[Len(rest) + 1] = rest[Len(rest)]
      BY <2>2, <3>1, <3>2
    <3> QED BY <2>1, <2>3, <3>1, <3>2, <3>3
  <2>5. \E i \in 1..Len(events') : events'[i] = Event("HideToParent", w)
    BY <2>3, <2>4
  <2>6. \A d \in DialogKind : d \in hides => d = w
    BY DEF DialogKind, IsDialog, ShownWith, IsWindow, hides
  <2> QED BY <1>1, <1>2, <2>1, <2>4, <2>5, <2>6, HidingShows
<1> QED BY <1>3, <1>4

LEMMA SetParentShows ==
  ASSUME MInv, OffInv, SInv, NEW w \in Widgets, NEW p \in Widgets, SetParent(w, p),
         UNCHANGED pageVars
  PROVE  OffInv' /\ SInv'
<1>1. /\ events = <<>> /\ UNCHANGED <<born, filterVars, draws>>
      /\ w \in born /\ ~IsWindow(w) /\ p \in born /\ IsWindow(p)
      /\ parents' = [parents EXCEPT ![w] = Append(@, p)] /\ visible' = visible \ {w}
  BY DEF SetParent, Idle, Alive
<1>2. parents \in [Widgets -> Seq(Widgets)] /\ born \subseteq Widgets
  BY DEF MInv, TInv, Types
<1>3. ParentsAreWindows'
  <2> SUFFICES ASSUME NEW v \in Widgets, NEW i \in 1..Len(parents'[v])
               PROVE  IsWindow(parents'[v][i])
    BY DEF ParentsAreWindows, IsWindow
  <2>1. CASE v # w
    BY <1>1, <1>2, <2>1 DEF OffInv, ParentsAreWindows
  <2>2. CASE v = w
    <3>1. parents'[w] = Append(parents[w], p) /\ parents[w] \in Seq(Widgets)
      BY <1>1, <1>2
    <3>2. i \in 1..Len(parents[w]) \/ i = Len(parents[w]) + 1
      BY <2>2, <3>1
    <3> QED BY <1>1, <2>2, <3>1, <3>2 DEF OffInv, ParentsAreWindows
  <2> QED BY <2>1, <2>2
<1>4. \A v \in Widgets : Parent(v) = NoWidget \/ IsWindow(Parent(v))
  <2> SUFFICES ASSUME NEW v \in Widgets, parents[v] # <<>> PROVE IsWindow(Last(parents[v]))
    BY DEF Parent
  <2>1. Len(parents[v]) \in 1..Len(parents[v])
    BY <1>2, EmptySeq
  <2> QED BY <2>1 DEF OffInv, ParentsAreWindows, Last
<1>5. ShownWith(w) = {}
  BY <1>1, <1>2, <1>4, KindAssumption DEF ShownWith, Alive
<1>6. Parent(w) \in Widgets
  <2>1. parents[w] # <<>> /\ parents[w] \in Seq(Widgets)
    BY <1>1, <1>2 DEF MInv, Parenthood, PlainKind
  <2>2. Len(parents[w]) \in 1..Len(parents[w])
    BY <2>1, EmptySeq
  <2> QED BY <2>1, <2>2, ElementOfSeq DEF Parent, Last
<1> DEFINE first == IF w \in wanted THEN HideEvents(w) ELSE <<>>
           removed == ChildEvent("ChildRemoved", Parent(w), w)
           added == ChildEvent("ChildAdded", p, w)
<1>7. first \in Seq(Says({}, {w}))
  BY <1>2, <1>5, HideEventsSay, EmptySeq
<1>8. removed \in Says({}, {w}) /\ added \in Says({}, {w})
  BY <1>1, <1>6, KindAssumption
     DEF ChildEvent, Says, QtEvents, EventTypes, Optional, IsWindow
<1>9. events' = first \o <<removed, added>>
  BY DEF SetParent
<1> HIDE DEF first, removed, added
<1>10. events' \in Seq(Says({}, {w}))
  BY <1>7, <1>8, <1>9, ConcatProperties
<1>11. w \notin DialogKind
  BY <1>1 DEF DialogKind, IsDialog, IsWindow
<1> QED BY <1>1, <1>3, <1>10, <1>11, HidingShows

LEMMA DestroyShows ==
  ASSUME MInv, OffInv, SInv, NEW w \in Widgets, Destroy(w), UNCHANGED pageVars
  PROVE  OffInv' /\ SInv'
<1> DEFINE dead == {w} \cup {c \in Alive : Parent(c) = w}
           shut == IsWindow(w) /\ w \in visible
           hides == IF shut THEN {w} \cup (ShownWith(w) \cap visible) ELSE {}
           first == IF shut THEN HideEvents(w) ELSE <<>>
           children == EventsFor("Destroy", dead \ {w})
<1>1. /\ events = <<>> /\ UNCHANGED <<born, parents, filterVars, draws>> /\ w \in born
      /\ visible' = visible \ dead /\ events' = first \o children \o <<Event("Destroy", w)>>
      /\ \A c \in dead \ {w} : ~IsWindow(c)
  BY DEF Destroy, Idle, Alive
<1>2. ParentsAreWindows' /\ born \subseteq Widgets
  BY <1>1 DEF OffInv, ParentsAreWindows, MInv, TInv, Types
<1>3. hides \subseteq dead
  BY DEF ShownWith
<1>4. /\ first \in Seq(Says({}, hides))
      /\ shut => \E i \in 1..Len(first) : first[i] = Event("HideToParent", w)
  <2>1. CASE shut
    BY <1>2, <2>1, HideEventsSay
  <2>2. CASE ~shut
    BY <2>2, EmptySeq
  <2> QED BY <2>1, <2>2
<1>5. children \in Seq(Says({}, hides)) /\ <<Event("Destroy", w)>> \in Seq(Says({}, hides))
  <2>1. dead \ {w} \in SUBSET Widgets
    BY <1>2 DEF Alive
  <2> QED BY <2>1, AllSaid, OneSaid DEF EventTypes
<1>6. \A d \in DialogKind : /\ d \in dead => d = w
                            /\ d \in visible \ visible' => d = w /\ shut
  BY <1>1 DEF DialogKind, IsDialog, IsWindow
<1> HIDE DEF first, children, hides, shut, dead
<1>7. /\ events' \in Seq(Says({}, hides)) /\ Len(first) \in Nat /\ Len(events') \in Nat
      /\ Len(first) <= Len(events')
      /\ \A i \in 1..Len(first) : events'[i] = first[i]
  <2> DEFINE rest == children \o <<Event("Destroy", w)>>
  <2>1. rest \in Seq(Says({}, hides))
    BY <1>5, ConcatProperties
  <2>2. events' = first \o rest
    BY <1>1, <1>4, <1>5
  <2> HIDE DEF rest
  <2> QED BY <1>4, <2>1, <2>2
<1>8. shut => \E i \in 1..Len(events') : events'[i] = Event("HideToParent", w)
  BY <1>4, <1>7
<1>9. /\ visible' \subseteq visible
      /\ \A v \in Widgets : v \in hides => v \notin visible'
      /\ \A d \in DialogKind : d \in hides => d \in born
  BY <1>1, <1>3, <1>6
<1> QED BY <1>1, <1>2, <1>6, <1>7, <1>8, <1>9, HidingShows

LEMMA ActivationSays ==
  ASSUME MInv, NEW w \in Widgets
  PROVE  ActivationEvents(w) \in Seq(Says({}, {}))
<1>1. <<Event("WindowActivate", w)>> \in Seq(Says({}, {}))
  BY OneSaid DEF EventTypes
<1>2. active # NoWidget => <<Event("WindowDeactivate", active)>> \in Seq(Says({}, {}))
  BY OneSaid DEF EventTypes, MInv, TInv, Types, Optional
<1> QED BY <1>1, <1>2, ConcatProperties, EmptySeq DEF ActivationEvents

LEMMA ConstructShows ==
  ASSUME MInv, OffInv, SInv, NEW w \in Widgets, NEW p \in Widgets \cup {NoWidget},
         Construct(w, p), UNCHANGED pageVars
  PROVE  OffInv' /\ SInv'
<1>1. /\ events = <<>> /\ born' = born \cup {w} /\ w \notin born
      /\ UNCHANGED <<visible, wire, tracked, draws>>
      /\ UNCHANGED <<type, box, off, framed, hidden, shown, curtains, root>>
      /\ parents' = [parents EXCEPT ![w] = IF p = NoWidget THEN <<>> ELSE <<p>>]
      /\ p # NoWidget => p \in born /\ IsWindow(p)
      /\ (KindOf[w] = "Window") <=> (p = NoWidget)
  BY CallLeaves DEF Construct, Idle, Alive, filterVars, pageVars, frameVars
<1>2. parents \in [Widgets -> Seq(Widgets)]
  BY DEF MInv, TInv, Types
<1> DEFINE create == Event("Create", w)
           added == ChildEvent("ChildAdded", p, w)
           n == Len(events')
<1>3. /\ n \in {1, 2} /\ events'[n] = create
      /\ n = 2 => events'[1] = added /\ p # NoWidget
      /\ p # NoWidget => n = 2
  <2>1. CASE p = NoWidget
    <3>1. events' = <<>> \o <<create>>
      BY <2>1 DEF Construct
    <3> QED BY <2>1, <3>1
  <2>2. CASE p # NoWidget
    <3>1. events' = <<added>> \o <<create>>
      BY <2>2 DEF Construct
    <3> QED BY <2>2, <3>1
  <2> QED BY <2>1, <2>2
<1>4. \A i \in 1..n : \/ i = n /\ events'[i] = create
                      \/ i = 1 /\ n = 2 /\ events'[i] = added /\ p # NoWidget
  BY <1>3
<1>5. /\ create.type = "Create" /\ create.w = w
      /\ added.type = "ChildAdded" /\ added.w = p /\ added.child = w
  BY DEF Event, ChildEvent
<1> HIDE DEF create, added, n
<1>6. \A i \in 1..Len(events) : FALSE
  BY <1>1
<1>7. ASSUME NEW v PROVE ~Showing(v) /\ ~Hiding(v) /\ ~Appearing(v) /\ ~CreateComes(v)
  BY <1>6 DEF Showing, Hiding, Appearing, CreateComes
<1>8. ASSUME NEW v PROVE ~Showing(v)' /\ ~Hiding(v)' /\ (Appearing(v)' => v = w)
  BY <1>4, <1>5 DEF Showing, Hiding, IsShow, IsHide, Appearing, Coming, n
<1>9. CreateComes(w)'
  BY <1>3, <1>5 DEF CreateComes, n
<1>10. ASSUME NEW v PROVE /\ Pends("show", v)' <=> Pends("show", v)
                          /\ Pends("hide", v)' <=> Pends("hide", v)
                          /\ Pends("create", v)' <=> Pends("create", v)
                          /\ FramePends(v)' <=> FramePends(v)
                          /\ Followed("show", "hide", v)' <=> Followed("show", "hide", v)
                          /\ Followed("hide", "show", v)' <=> Followed("hide", "show", v)
  BY <1>1 DEF Pends, FramePends, Followed
<1>11. ParentsAreWindows'
  <2> SUFFICES ASSUME NEW v \in Widgets, NEW i \in 1..Len(parents'[v])
               PROVE  IsWindow(parents'[v][i])
    BY DEF ParentsAreWindows, IsWindow
  <2>1. CASE v # w
    BY <1>1, <1>2, <2>1 DEF OffInv, ParentsAreWindows
  <2>2. CASE v = w
    <3>1. parents'[w] = IF p = NoWidget THEN <<>> ELSE <<p>>
      BY <1>1, <1>2
    <3>2. p # NoWidget /\ i = 1
      BY <2>2, <3>1
    <3> QED BY <1>1, <2>2, <3>1, <3>2
  <2> QED BY <2>1, <2>2
<1>12. OffInv'
  BY <1>1, <1>7, <1>8, <1>10, <1>11 DEF OffInv, EventsAgree, CanvasShown
<1>13. ASSUME NEW d \in DialogKind PROVE DialogInv(d)'
  <2>1. DialogInv(d) /\ d \in Widgets /\ KindOf[d] = "Dialog"
    BY DEF SInv, DialogKind, IsDialog
  <2>2. (Fresh(d) => Fresh(d)') /\ (Unborn(d) /\ d # w => Unborn(d)')
    BY <1>1, <1>8, <1>10 DEF Fresh, Unborn
  <2>3. d = w => Unborn(d)
    BY <1>1, <2>1 DEF DialogInv
  <2>4. (d \notin born' => Unborn(d)') /\ (Appearing(d)' => Fresh(d)')
    BY <1>1, <1>8, <2>1, <2>2, <2>3 DEF DialogInv, Unborn
  <2>5. FramedFirst(d)' /\ FramingBare(d)' /\ ShowsApart(d)' /\ CurtainFalls(d)' /\ OneCurtain(d)'
    BY <1>1, <1>10, <2>1 DEF DialogInv, FramedFirst, FramingBare, ShowsApart, CurtainFalls,
                             OneCurtain
  <2>6. CreatedFramed(d)'
    BY <1>1, <1>7, <1>9, <1>10, <2>1 DEF DialogInv, CreatedFramed
  <2>7. AddedFirst(d)'
    <3>1. ASSUME NEW i \in 1..Len(events'), events'[i].type = "ChildAdded",
                 events'[i].child = d
          PROVE  /\ type'[d] = "none" /\ ~FramePends(d)'
                 /\ \A j \in 1..Len(events') : j < i => ~Coming(events'[j], d)
      <4>1. i = 1 /\ d = w
        BY <1>4, <1>5, <3>1 DEF n
      <4> QED BY <1>1, <1>10, <2>3, <4>1 DEF Unborn
    <3>2. \A i \in 1..Len(wire) : wire[i].c = "addChild" /\ wire[i].child = d =>
            type[d] = "none" /\ \A j \in 1..Len(wire) : j < i => ~Framing(wire[j], d)
      BY <2>1 DEF DialogInv, AddedFirst
    <3> QED BY <1>1, <3>1, <3>2 DEF AddedFirst, Framing, Coming
  <2>8. InStep(d)'
    <3>1. (Up(d)' <=> Up(d)) /\ (Gone(d)' <=> Gone(d))
      BY <1>1, <1>10 DEF Down, Up, Gone
    <3> QED BY <1>1, <1>7, <1>8, <2>1, <3>1 DEF DialogInv, InStep
  <2>9. ShownOnce(d)'
    BY <1>8 DEF ShownOnce, Showing
  <2> QED BY <2>4, <2>5, <2>6, <2>7, <2>8, <2>9 DEF DialogInv
<1>14. Named'
  BY <1>1, <1>4, <1>5 DEF SInv, Named, n
<1>15. Kids'
  BY <1>1, <1>4, <1>5 DEF SInv, Kids, n
<1>16. RootFirst'
  <2>1. ASSUME NEW v \in born, KindOf[v] # "Window"
        PROVE  root # NoWidget \/ \E j \in 1..Len(wire) : wire[j].c = "addChild"
    BY <1>6, <2>1 DEF SInv, RootFirst
  <2>2. \A i \in 1..Len(events') : events'[i].type = "ChildAdded" => events'[i].w \in born
    BY <1>1, <1>4, <1>5 DEF n
  <2>3. KindOf[w] # "Window" => \E i \in 1..Len(events') : events'[i].type = "ChildAdded"
    BY <1>1, <1>3, <1>5 DEF n
  <2> QED BY <1>1, <2>1, <2>2, <2>3 DEF SInv, RootFirst
<1>17. Frames' /\ PageTypes'
  BY <1>1 DEF SInv, Frames, PageTypes
<1> QED BY <1>12, <1>13, <1>14, <1>15, <1>16, <1>17 DEF SInv

LEMMA ActivationShows ==
  ASSUME MInv, OffInv, SInv, NEW w \in Widgets, events = <<>>, events' = ActivationEvents(w),
         UNCHANGED <<born, parents, visible, filterVars, draws, pageVars>>
  PROVE  OffInv' /\ SInv'
<1>1. ParentsAreWindows'
  BY DEF OffInv, ParentsAreWindows
<1> QED BY <1>1, ActivationSays, HidingShows

LEMMA ApplicationShows ==
  ASSUME MInv, OffInv, SInv, Application
  PROVE  OffInv' /\ SInv'
<1>1. UNCHANGED pageVars
  BY DEF Application
<1>2. ASSUME NEW w \in Widgets, NEW p \in Widgets \cup {NoWidget}, Construct(w, p)
      PROVE  OffInv' /\ SInv'
  BY <1>1, <1>2, ConstructShows
<1>3. ASSUME NEW w \in Widgets, ShowWidget(w) \/ HideWidget(w) \/ Destroy(w)
      PROVE  OffInv' /\ SInv'
  BY <1>1, <1>3, ShowWidgetShows, HideWidgetShows, DestroyShows
<1>4. ASSUME NEW w \in Widgets, ActivateWindow(w)
      PROVE  OffInv' /\ SInv'
  BY <1>1, <1>4, ActivationShows DEF ActivateWindow, Idle
<1>5. ASSUME NEW w \in Widgets, NEW accepts \in BOOLEAN, CloseCall(w, accepts)
      PROVE  OffInv' /\ SInv'
  BY <1>1, <1>5, CloseWindowShows DEF CloseCall, Idle
<1>6. ASSUME NEW w \in Widgets, NEW p \in Widgets, SetParent(w, p)
      PROVE  OffInv' /\ SInv'
  BY <1>1, <1>6, SetParentShows
<1> QED BY <1>2, <1>3, <1>4, <1>5, <1>6 DEF Application, Build, Call

LEMMA DispatchShows ==
  ASSUME MInv, OffInv, SInv, Dispatch, UNCHANGED pageVars
  PROVE  OffInv' /\ SInv'
<1>1. CASE DispatchActivate
  <2>1. Head(inbox).id \in Widgets
    BY <1>1 DEF DispatchActivate, SInv, Named
  <2> QED BY <1>1, <2>1, ActivationShows DEF DispatchActivate, Idle
<1>2. CASE EndActivate \/ DispatchNothing
  <2>1. UNCHANGED <<unsent, events, wire, tracked>>
    BY <1>2 DEF EndActivate, DispatchNothing, qtVars, filterVars, pageVars, frameVars, unsent
  <2> QED BY <2>1, StillShows
<1>3. ASSUME NEW accepts \in BOOLEAN, DispatchClose(accepts)
      PROVE  OffInv' /\ SInv'
  BY <1>3, CloseWindowShows DEF DispatchClose, Idle
<1> QED BY <1>1, <1>2, <1>3 DEF Dispatch

-----------------------------------------------------------------------------
(* Together.                                                                   *)

LEMMA ShowInit == Init => OffInv /\ SInv
<1> SUFFICES ASSUME Init PROVE OffInv /\ SInv
  OBVIOUS
<1>1. /\ born = {} /\ visible = {} /\ tracked = {} /\ draws = {} /\ root = NoWidget
      /\ parents = [w \in Widgets |-> <<>>] /\ events = <<>> /\ wire = <<>>
      /\ off = {} /\ framed = {} /\ hidden = {} /\ shown = {}
      /\ type = [w \in Widgets |-> "none"] /\ curtains = [w \in Widgets |-> 0]
  BY DEF Init, InitApp, InitPage
<1>2. Len(events) = 0 /\ Len(wire) = 0 /\ \A w \in Widgets : Len(parents[w]) = 0
  BY <1>1
<1>3. ASSUME NEW w
      PROVE  /\ ~Showing(w) /\ ~Hiding(w) /\ ~Appearing(w) /\ ~CreateComes(w)
             /\ ~Pends("show", w) /\ ~Pends("hide", w) /\ ~FramePends(w)
             /\ Followed("show", "hide", w)
  BY <1>2 DEF Showing, Hiding, Appearing, CreateComes, Pends, FramePends, Followed
<1>4. OffInv
  BY <1>1, <1>2, <1>3 DEF OffInv, ParentsAreWindows, EventsAgree, CanvasShown
<1>5. ASSUME NEW d \in DialogKind PROVE DialogInv(d)
  <2>1. d \in Widgets /\ curtains[d] = 0 /\ type[d] = "none"
    BY <1>1 DEF DialogKind
  <2>2. Fresh(d) /\ Unborn(d)
    BY <1>1, <1>3, <2>1 DEF Fresh, Unborn
  <2>3. FramedFirst(d) /\ FramingBare(d) /\ AddedFirst(d) /\ CreatedFramed(d)
        /\ ShowsApart(d) /\ CurtainFalls(d) /\ OneCurtain(d) /\ ShownOnce(d)
    BY <1>1, <1>2, <1>3, <2>1 DEF FramedFirst, FramingBare, AddedFirst, CreatedFramed,
       ShowsApart, CurtainFalls, OneCurtain, ShownOnce
  <2>4. InStep(d)
    BY <1>1, <1>3, <2>1 DEF InStep, Gone, Down
  <2> QED BY <2>2, <2>3, <2>4 DEF DialogInv
<1>6. Named /\ RootFirst /\ Kids /\ Frames /\ PageTypes
  BY <1>1, <1>2 DEF Named, RootFirst, Kids, Frames, PageTypes
<1> QED BY <1>4, <1>5, <1>6 DEF SInv

LEMMA ShowStep ==
  ASSUME MInv, OffInv, SInv, [Next]_vars
  PROVE  OffInv' /\ SInv'
<1>1. CASE Application
  BY <1>1, ApplicationShows
<1>2. CASE Deliver
  BY <1>2, FilterShows DEF Deliver
<1>3. CASE Render
  BY <1>3, RenderShows
<1>4. CASE Serve
  BY <1>4, DispatchShows DEF Serve
<1>5. CASE PageExecute
  BY <1>5, PageExecuteShows
<1>6. ASSUME NEW w \in Widgets, PageDraw(w) PROVE OffInv' /\ SInv'
  BY <1>6, DrawShows
<1>7. CASE Parse \/ Post \/ User \/ UNCHANGED vars
  <2>1. UNCHANGED <<unsent, events, wire, tracked>>
    BY <1>7 DEF Parse, Post, User, Click, ClickClose, vars, appVars, qtVars, filterVars,
                pageVars, frameVars, unsent
  <2> QED BY <2>1, StillShows
<1> QED BY <1>1, <1>2, <1>3, <1>4, <1>5, <1>6, <1>7 DEF Next

-----------------------------------------------------------------------------
(* What lives: the widgets that the variables of the two halves refer to.      *)

\* The browser's events: they are for windows with a frame.
Messages(S) == [c : {"activate", "close"}, id : S]
Dying(w) == \E i \in 1..Len(events) : events[i].type = "Destroy" /\ events[i].w = w

WidgetsLive ==
    /\ gone \subseteq born
    /\ visible \subseteq wanted /\ wanted \subseteq Alive
    /\ active \in {w \in Alive : IsWindow(w)} \cup {NoWidget}
    /\ isActivateEvent \in BOOLEAN
    /\ draws \subseteq Widgets

\* An event posted to a widget that was destroyed goes when its Destroy is delivered.
InboxLives ==
    /\ inbox \in Seq(Messages(framed \cap born))
    /\ \A i \in 1..Len(inbox) : inbox[i].id \in gone => Dying(inbox[i].id)

PostingLives == posting \in {<<>>} \cup {<<m>> : m \in Messages(framed)}

PageLives ==
    /\ ghosts \subseteq framed /\ framed \subseteq known /\ off \subseteq known
    /\ root \in known \cup {NoWidget}
    /\ strays \in Nat
    /\ up \in Seq(Messages(framed))

LEMMA MoreMessages ==
  ASSUME NEW S, NEW T, S \subseteq T, NEW s \in Seq(Messages(S))
  PROVE  s \in Seq(Messages(T))
<1>1. Messages(S) \subseteq Messages(T)
  BY DEF Messages
<1> QED BY <1>1, SeqMonotonic

\* A frame that is made anew leaves one curtain behind at most.
LEMMA StraysCounted ==
  ASSUME NEW ws, ws \subseteq Widgets, strays \in Nat, CreateDialogs(ws)
  PROVE  strays' \in Nat
<1>1. IsFiniteSet({w \in ws : curtains[w] > 0})
  BY KindAssumption, FS_Subset
<1>2. Cardinality({w \in ws : curtains[w] > 0}) \in Nat
  BY <1>1, FS_CardinalityType
<1> QED BY <1>2 DEF CreateDialogs

LEMMA ExecuteLives ==
  ASSUME MInv, SInv, PageLives, wire # <<>>, Execute(Head(wire))
  PROVE  PageLives' /\ framed \subseteq framed'
<1> DEFINE cmd == Head(wire)
           w == cmd.id
<1>1. /\ w \in Widgets /\ w # NoWidget
      /\ cmd.c = "addChild" => cmd.child \in Widgets
  BY HeadCommand, KindAssumption
<1>7. Execute(cmd)
  OBVIOUS
<1> HIDE DEF cmd
<1>2. CASE cmd.c = "create" /\ Create(w)
  <2>1. strays' \in Nat
    <3>1. (IF IsDialog(w) THEN {w} ELSE {}) \subseteq Widgets
      BY <1>1
    <3> QED BY <1>2, <3>1, StraysCounted DEF Create, PageLives
  <2>2. /\ framed \subseteq framed' /\ framed' \subseteq framed \cup {w} /\ known' = known \cup {w}
        /\ UNCHANGED <<off, root, up>>
    BY <1>2 DEF Create, CreateDialogs
  <2>3. up' \in Seq(Messages(framed'))
    BY <2>2, MoreMessages DEF PageLives
  <2>4. ghosts' \subseteq framed'
    BY <1>2, <2>2 DEF Create, CreateDialogs, PageLives, SInv, Frames
  <2> QED BY <2>1, <2>2, <2>3, <2>4 DEF PageLives
<1>3. CASE cmd.c = "addChild" /\ AddChild(w, cmd.child)
  <2> DEFINE c == cmd.child
             dialogs == (IF root = NoWidget THEN {w} ELSE {})
                        \cup (IF NewTo(w, c) /\ type[c] = "none" /\ IsDialog(c) THEN {c} ELSE {})
  <2>1. /\ CreateDialogs(dialogs) /\ known' = known \cup {w, c}
        /\ root' = (IF root = NoWidget THEN w ELSE root) /\ UNCHANGED <<off, up>>
    BY <1>3 DEF AddChild
  <2>2. dialogs \subseteq {w, c}
    OBVIOUS
  <2> HIDE DEF dialogs
  <2>3. strays' \in Nat
    <3>1. dialogs \subseteq Widgets
      BY <1>1, <1>3, <2>2
    <3> QED BY <2>1, <3>1, StraysCounted DEF PageLives
  <2>4. framed \subseteq framed' /\ ghosts' \subseteq framed' /\ framed' \subseteq known'
    BY <2>1, <2>2 DEF CreateDialogs, PageLives, SInv, Frames
  <2>5. up' \in Seq(Messages(framed'))
    BY <2>1, <2>4, MoreMessages DEF PageLives
  <2> QED BY <2>1, <2>3, <2>4, <2>5 DEF PageLives
<1>4. CASE (cmd.c = "show" /\ Show(w)) \/ (cmd.c = "hide" /\ Hide(w))
  BY <1>4 DEF Show, Hide, PageLives
<1>5. CASE cmd.c = "activate" /\ Activate(w)
  <2> DEFINE said == IF Activation(w) THEN <<Message("activate", w)>> ELSE <<>>
  <2>1. up' = up \o said /\ known' = known \cup {w} /\ UNCHANGED <<framed, ghosts, off, root, strays>>
    BY <1>5 DEF Activate, SendEvents
  <2>2. said \in Seq(Messages(framed))
    <3>1. Activation(w) => Message("activate", w) \in Messages(framed)
      BY DEF Activation, Message, Messages
    <3> QED BY <3>1, EmptySeq
  <2> HIDE DEF said
  <2>3. up' \in Seq(Messages(framed))
    BY <2>1, <2>2, ConcatProperties DEF PageLives
  <2> QED BY <2>1, <2>3 DEF PageLives
<1>6. CASE cmd.c = "deactivate" /\ Deactivate(w)
  BY <1>6 DEF Deactivate, PageLives
<1> QED BY <1>2, <1>3, <1>4, <1>5, <1>6, <1>7 DEF Execute

LEMMA ClickLives ==
  ASSUME SInv, PageLives, NEW w \in Widgets, Click(w) \/ ClickClose(w)
  PROVE  PageLives' /\ UNCHANGED framed
<1>1. w \in framed /\ UNCHANGED <<known, framed, ghosts, off, root, strays>>
  BY DEF Click, ClickClose, SInv, Frames, PageLives
<1> DEFINE activate == Message("activate", w)
           close == Message("close", w)
<1>2. activate \in Messages(framed) /\ close \in Messages(framed)
  BY <1>1 DEF Message, Messages
<1>3. \E said \in Seq(Messages(framed)) : up' = up \o said
  <2>1. /\ <<>> \in Seq(Messages(framed)) /\ <<activate>> \in Seq(Messages(framed))
        /\ <<activate, close>> \in Seq(Messages(framed))
    BY <1>2, EmptySeq
  <2> HIDE DEF activate, close
  <2>2. up' \in {up \o <<>>, up \o <<activate>>, up \o <<activate, close>>}
    BY DEF Click, ClickClose, SendEvents, activate, close
  <2> QED BY <2>1, <2>2
<1>4. up' \in Seq(Messages(framed))
  BY <1>3, ConcatProperties DEF PageLives
<1> QED BY <1>1, <1>4 DEF PageLives

LEMMA PageLivesStep ==
  ASSUME MInv, SInv, PageLives, [Next]_vars
  PROVE  PageLives' /\ framed \subseteq framed'
<1>1. CASE UNCHANGED pageVars
  BY <1>1 DEF pageVars, frameVars, PageLives
<1>2. CASE PageExecute
  BY <1>2, ExecuteLives DEF PageExecute
<1>3. ASSUME NEW w \in Widgets, PageDraw(w) PROVE PageLives' /\ framed \subseteq framed'
  BY <1>3 DEF PageDraw, Draw, PageLives
<1>4. CASE Parse
  <2>1. up # <<>> /\ up' = Tail(up) /\ UNCHANGED <<known, framed, ghosts, off, root, strays>>
    BY <1>4 DEF Parse, frameVars
  <2>2. up' \in Seq(Messages(framed))
    BY <2>1, HeadTailProperties DEF PageLives
  <2> QED BY <2>1, <2>2 DEF PageLives
<1>5. CASE User
  BY <1>5, ClickLives DEF User
<1>6. CASE Application \/ Deliver \/ Render \/ Serve \/ Post \/ UNCHANGED vars
  BY <1>1, <1>6 DEF Application, Deliver, Render, Serve, Post, vars
<1> QED BY <1>2, <1>3, <1>4, <1>5, <1>6 DEF Next

-----------------------------------------------------------------------------
(* The application's half.                                                     *)

LEMMA AtEase ==
  ASSUME SInv, InboxLives, events = <<>>
  PROVE  \A i \in 1..Len(inbox) : inbox[i].id \in Alive /\ IsWindow(inbox[i].id)
<1> SUFFICES ASSUME NEW i \in 1..Len(inbox) PROVE inbox[i].id \in Alive /\ IsWindow(inbox[i].id)
  OBVIOUS
<1>1. inbox[i] \in Messages(framed \cap born)
  BY DEF InboxLives
<1>2. inbox[i].id \notin gone
  BY DEF InboxLives, Dying
<1> QED BY <1>1, <1>2 DEF Alive, SInv, Frames, IsWindow, Messages

\* Nothing of the inbox is lost or dies.
LEMMA InboxStays ==
  ASSUME SInv, InboxLives, events = <<>>, UNCHANGED <<gone, inbox>>, born \subseteq born',
         framed \subseteq framed'
  PROVE  InboxLives'
<1>1. inbox' \in Seq(Messages((framed \cap born)'))
  BY MoreMessages DEF InboxLives
<1>2. \A i \in 1..Len(inbox) : inbox[i].id \notin gone
  BY AtEase DEF Alive
<1> QED BY <1>1, <1>2 DEF InboxLives

LEMMA InboxServed ==
  ASSUME SInv, InboxLives, events = <<>>, inbox # <<>>, inbox' = Tail(inbox),
         UNCHANGED <<gone, born, framed>>
  PROVE  /\ InboxLives'
         /\ Head(inbox).id \in Alive /\ IsWindow(Head(inbox).id)
<1> DEFINE S == Messages(framed \cap born)
<1>1. inbox \in Seq(S)
  BY DEF InboxLives
<1> HIDE DEF S
<1>2. /\ inbox' \in Seq(S) /\ Head(inbox) = inbox[1] /\ 1 \in 1..Len(inbox)
      /\ \A i \in 1..Len(inbox') : i + 1 \in 1..Len(inbox) /\ inbox'[i] = inbox[i + 1]
  BY <1>1, TailElements, HeadTailProperties
<1>3. \A i \in 1..Len(inbox) : inbox[i].id \in Alive /\ IsWindow(inbox[i].id)
  BY AtEase
<1>4. \A i \in 1..Len(inbox') : inbox'[i].id \notin gone
  BY <1>2, <1>3 DEF Alive
<1> QED BY <1>2, <1>3, <1>4 DEF InboxLives, S

LEMMA ConstructLives ==
  ASSUME SInv, WidgetsLive, InboxLives, NEW w \in Widgets, NEW p \in Widgets \cup {NoWidget},
         Construct(w, p), framed' = framed
  PROVE  WidgetsLive' /\ InboxLives'
<1>1. WidgetsLive'
  BY DEF Construct, WidgetsLive, Alive
<1>2. InboxLives'
  BY InboxStays DEF Construct, Idle
<1> QED BY <1>1, <1>2

LEMMA CallLives ==
  ASSUME SInv, WidgetsLive, InboxLives, NEW w \in Widgets, framed' = framed,
         \/ ShowWidget(w) \/ HideWidget(w) \/ ActivateWindow(w)
         \/ \E accepts \in BOOLEAN : CloseCall(w, accepts)
         \/ \E p \in Widgets : SetParent(w, p)
  PROVE  WidgetsLive' /\ InboxLives'
<1>0. events = <<>> /\ UNCHANGED <<born, gone, inbox>> /\ Alive' = Alive
  BY DEF ShowWidget, HideWidget, ActivateWindow, CloseCall, CloseWindow, SetParent, Idle, Alive
<1>1. InboxLives'
  BY <1>0, InboxStays
<1>2. CASE ShowWidget(w)
  BY <1>0, <1>1, <1>2 DEF ShowWidget, WidgetsLive, ShownWith
<1>3. CASE HideWidget(w)
  BY <1>0, <1>1, <1>3 DEF HideWidget, Unshow, WidgetsLive
<1>4. CASE ActivateWindow(w)
  BY <1>0, <1>1, <1>4 DEF ActivateWindow, WidgetsLive
<1>5. ASSUME NEW accepts \in BOOLEAN, CloseCall(w, accepts) PROVE WidgetsLive'
  BY <1>0, <1>5 DEF CloseCall, CloseWindow, Unshow, WidgetsLive
<1>6. ASSUME NEW p \in Widgets, SetParent(w, p) PROVE WidgetsLive'
  BY <1>0, <1>6 DEF SetParent, WidgetsLive
<1> QED BY <1>1, <1>2, <1>3, <1>4, <1>5, <1>6

\* Each widget that goes is told so.
LEMMA DestroyLives ==
  ASSUME MInv, SInv, WidgetsLive, InboxLives, NEW w \in Widgets, Destroy(w), framed' = framed
  PROVE  WidgetsLive' /\ InboxLives'
<1> DEFINE dead == {w} \cup {c \in Alive : Parent(c) = w}
           shut == IsWindow(w) /\ w \in visible
           all == Widgets
           first == IF shut THEN HideEvents(w) ELSE <<>>
           children == EventsFor("Destroy", dead \ {w})
           last == Event("Destroy", w)
<1>1. /\ events = <<>> /\ UNCHANGED <<born, inbox, draws, isActivateEvent>> /\ w \in Alive
      /\ gone' = gone \cup dead /\ wanted' = wanted \ dead /\ visible' = visible \ dead
      /\ active' = (IF w = active THEN NoWidget ELSE active)
      /\ \A c \in dead \ {w} : ~IsWindow(c)
      /\ events' = first \o children \o <<last>>
  BY DEF Destroy, Idle
<1>2. WidgetsLive'
  BY <1>1 DEF WidgetsLive, Alive
<1>3. born \subseteq Widgets
  BY DEF MInv, TInv, Types
<1>4. dead \ {w} \in SUBSET Widgets
  BY <1>3 DEF Alive
<1>5. /\ Len(children) \in Nat
      /\ \A c \in dead \ {w} : \E i \in 1..Len(children) : children[i] = Event("Destroy", c)
  BY <1>4, EventsForEach
<1>6. /\ first \in Seq(Says({}, all)) /\ children \in Seq(Says({}, all))
      /\ <<last>> \in Seq(Says({}, all))
  <2>1. w \in all /\ ShownWith(w) \cap visible \subseteq all
    BY <1>3 DEF ShownWith, Alive
  <2>2. HideEvents(w) \in Seq(Says({}, all))
    BY <1>3, <2>1, HideEventsSay
  <2>3. first \in Seq(Says({}, all))
    BY <2>2, EmptySeq
  <2> QED BY <1>4, <2>3, AllSaid, OneSaid DEF EventTypes
<1> HIDE DEF first, children, last
<1>7. /\ Len(first) \in Nat
      /\ Len(events') = Len(first) + Len(children) + 1
      /\ \A i \in 1..Len(children) : events'[Len(first) + i] = children[i]
      /\ events'[Len(first) + Len(children) + 1] = last
  BY <1>1, <1>5, <1>6, ConcatProperties
<1>8. ASSUME NEW c \in dead PROVE Dying(c)'
  <2>1. CASE c = w
    <3>1. Len(first) + Len(children) + 1 \in 1..Len(events')
      BY <1>5, <1>7
    <3> QED BY <1>7, <2>1, <3>1 DEF Dying, Event, last
  <2>2. CASE c # w
    <3>1. PICK i \in 1..Len(children) : children[i] = Event("Destroy", c)
      BY <1>5, <2>2
    <3>2. Len(first) + i \in 1..Len(events')
      BY <1>5, <1>7
    <3> QED BY <1>7, <3>1, <3>2 DEF Dying, Event
  <2> QED BY <2>1, <2>2
<1> HIDE DEF dead
<1>9. \A i \in 1..Len(inbox) : inbox[i].id \notin gone
  BY <1>1, AtEase DEF Alive
<1>10. InboxLives'
  BY <1>1, <1>8, <1>9 DEF InboxLives
<1> QED BY <1>2, <1>10

LEMMA ApplicationLives ==
  ASSUME MInv, SInv, WidgetsLive, InboxLives, Application
  PROVE  WidgetsLive' /\ InboxLives'
<1>1. framed' = framed
  BY DEF Application, pageVars, frameVars
<1> QED BY <1>1, ConstructLives, CallLives, DestroyLives DEF Application, Build, Call

\* The events of a widget that goes are taken out of the inbox with its Destroy.
LEMMA FilterLives ==
  ASSUME MInv, SInv, WidgetsLive, InboxLives, Filter, framed' = framed
  PROVE  WidgetsLive' /\ InboxLives'
<1>1. PICK types : Delivering(types)
  BY DEF Filter, FilterCreate, FilterChildAdded, FilterGone, FilterHide, FilterShow,
         FilterShowToParent, FilterActivation
<1>2. /\ events # <<>> /\ events' = Tail(events) /\ UNCHANGED <<qtVars, isActivateEvent, draws>>
      /\ inbox' = Without(inbox, {m \in ToSet(inbox) : m.id = Dequeued})
  BY <1>1 DEF Delivering
<1>3. WidgetsLive'
  BY <1>2 DEF WidgetsLive, qtVars, Alive
<1> DEFINE S == {m \in ToSet(inbox) : m.id = Dequeued}
           U == Messages(framed \cap born)
           T == About(Told)
<1>4. inbox \in Seq(U) /\ events \in Seq(T)
  BY DEF InboxLives, MInv, TInv
<1>5. \A k \in 1..Len(inbox) : inbox[k] \in S <=> inbox[k].id = Dequeued
  BY <1>4 DEF ToSet
<1> HIDE DEF S, U, T
<1>6. inbox' = Without(inbox, S)
  BY <1>2 DEF S
<1>7. inbox' \in Seq(U)
  BY <1>4, <1>6, WithoutKeeps
<1>8. PICK at : Places(inbox, S, inbox', at)
  BY <1>4, <1>6, WithoutKeeps
<1>9. ASSUME NEW i \in 1..Len(inbox'), NEW v \in gone, inbox'[i].id = v PROVE Dying(v)'
  <2>1. at[i] \in 1..Len(inbox) /\ inbox'[i] = inbox[at[i]] /\ v # Dequeued
    BY <1>5, <1>8, <1>9 DEF Places
  <2>2. PICK j \in 1..Len(events) : events[j].type = "Destroy" /\ events[j].w = v
    BY <1>9, <2>1 DEF InboxLives, Dying
  <2>3. j # 1
    <3>1. Head(events) = events[1]
      BY <1>2, <1>4, TailElements
    <3> QED BY <1>2, <2>1, <2>2, <3>1 DEF Dequeued, Receiver
  <2>4. j - 1 \in 1..Len(events') /\ events'[j - 1] = events[j]
    BY <1>2, <1>4, <2>3, TailElements
  <2> QED BY <2>2, <2>4 DEF Dying
<1>10. InboxLives'
  BY <1>2, <1>7, <1>9 DEF InboxLives, U, qtVars
<1> QED BY <1>3, <1>10

LEMMA DispatchLives ==
  ASSUME SInv, WidgetsLive, InboxLives, Dispatch, framed' = framed
  PROVE  WidgetsLive' /\ InboxLives'
<1>1. CASE EndActivate
  <2>1. UNCHANGED <<born, gone, inbox, events>> /\ events = <<>>
    BY <1>1 DEF EndActivate, qtVars
  <2> QED BY <1>1, <2>1, InboxStays DEF EndActivate, qtVars, WidgetsLive, Alive
<1>2. CASE DispatchActivate \/ DispatchNothing \/ \E accepts \in BOOLEAN : DispatchClose(accepts)
  <2>1. /\ events = <<>> /\ inbox # <<>> /\ inbox' = Tail(inbox)
        /\ UNCHANGED <<born, gone>> /\ Alive' = Alive
    BY <1>2 DEF DispatchActivate, DispatchNothing, DispatchClose, CloseWindow, Idle, qtVars, Alive
  <2>2. InboxLives' /\ Head(inbox).id \in Alive /\ IsWindow(Head(inbox).id)
    BY <2>1, InboxServed
  <2>3. WidgetsLive'
    <3>1. CASE DispatchActivate
      BY <2>1, <2>2, <3>1 DEF DispatchActivate, WidgetsLive
    <3>2. CASE DispatchNothing
      BY <2>1, <3>2 DEF DispatchNothing, WidgetsLive, qtVars
    <3>3. ASSUME NEW accepts \in BOOLEAN, DispatchClose(accepts) PROVE WidgetsLive'
      BY <2>1, <3>3 DEF DispatchClose, CloseWindow, Unshow, WidgetsLive
    <3> QED BY <1>2, <3>1, <3>2, <3>3
  <2> QED BY <2>2, <2>3
<1> QED BY <1>1, <1>2 DEF Dispatch

LEMMA PostLives ==
  ASSUME SInv, MInv, InboxLives, PostingLives, Post
  PROVE  InboxLives'
<1>1. UNCHANGED <<born, gone, events, framed>>
  BY DEF Post, qtVars, pageVars, frameVars
<1>2. PICK m \in Messages(framed) : posting = <<m>>
  BY DEF Post, PostingLives
<1>3. Head(posting) = m
  BY <1>2
<1>4. CASE m.id \notin Alive
  BY <1>1, <1>3, <1>4 DEF Post, InboxLives, Dying
<1>5. CASE m.id \in Alive
  <2> DEFINE S == Messages(framed \cap born)
  <2>1. inbox \in Seq(S) /\ m \in S /\ m.id \notin gone
    BY <1>5 DEF InboxLives, Messages, Alive
  <2> HIDE DEF S
  <2>2. inbox' = inbox \o <<m>>
    BY <1>2, <1>3, <1>5 DEF Post
  <2>3. /\ inbox' \in Seq(S) /\ Len(inbox') = Len(inbox) + 1 /\ Len(inbox) \in Nat
        /\ \A i \in 1..Len(inbox) : inbox'[i] = inbox[i]
        /\ inbox'[Len(inbox) + 1] = m
    BY <2>1, <2>2
  <2>4. \A i \in 1..Len(inbox') : inbox'[i].id \in gone => Dying(inbox'[i].id)
    <3>1. \A i \in 1..Len(inbox') : i = Len(inbox) + 1 \/ i \in 1..Len(inbox)
      BY <2>3
    <3> QED BY <2>1, <2>3, <3>1 DEF InboxLives
  <2>5. \A v : Dying(v)' <=> Dying(v)
    BY <1>1 DEF Dying
  <2> QED BY <1>1, <2>3, <2>4, <2>5 DEF InboxLives, S
<1> QED BY <1>4, <1>5

-----------------------------------------------------------------------------
(* A frame that the page replaces while it is displayed was drawn too early.  *)

Overtaken(d) ==
    /\ FramePends(d) /\ d \in shown => d \in overtaken
    /\ d \in ghosts => d \in overtaken
Overtaking == overtaken \subseteq Widgets /\ \A d \in DialogKind : Overtaken(d)

\* A dialog that is still to be framed is fresh, so its frame is not displayed.
LEMMA DeliverOvertakes ==
  ASSUME MInv, SInv, Overtaking, Deliver
  PROVE  Overtaking'
<1>1. /\ UNCHANGED <<shown, ghosts, overtaken>>
      /\ Filter
  BY DEF Deliver, pageVars, frameVars, boundary
<1>2. /\ events \in Seq(About(Told)) /\ events # <<>> /\ wire \in Seq(Commands)
      /\ \/ UNCHANGED wire /\ Silent(events[1])
         \/ \E cmd \in Commands : wire' = Append(wire, cmd) /\ Reports(events[1], cmd)
  BY <1>1, FilterReports DEF MInv, TInv, Types
<1>3. ASSUME NEW d \in DialogKind PROVE Overtaken(d)'
  <2>1. CASE UNCHANGED wire
    BY <1>1, <1>3, <2>1 DEF Overtaking, Overtaken, FramePends
  <2>2. ASSUME NEW cmd \in Commands, wire' = Append(wire, cmd), Reports(events[1], cmd)
        PROVE  Overtaken(d)'
    <3>1. FramePends(d)' => FramePends(d) \/ Coming(events[1], d)
      BY <1>2, <2>2, AppendFramePends, ReportsWhat
    <3>2. Coming(events[1], d) => Appearing(d)
      BY <1>2, TailElements DEF Appearing
    <3>3. Appearing(d) => d \notin shown
      BY <1>3 DEF SInv, DialogInv, Fresh
    <3> QED BY <1>1, <1>3, <3>1, <3>2, <3>3 DEF Overtaking, Overtaken
  <2> QED BY <1>2, <2>1, <2>2
<1> QED BY <1>1, <1>3 DEF Overtaking

\* The page shows a dialog only when the last of its frames has been made.
LEMMA ExecuteOvertakes ==
  ASSUME MInv, SInv, Overtaking, PageExecute
  PROVE  Overtaking'
<1> DEFINE cmd == Head(wire)
<1>1. /\ wire # <<>> /\ Execute(cmd) /\ wire' = Tail(wire) /\ UNCHANGED overtaken
      /\ wire \in Seq(Commands) /\ cmd = wire[1] /\ 1 \in 1..Len(wire)
  BY HeadCommand DEF PageExecute, boundary, MInv, TInv, Types
<1> HIDE DEF cmd
<1>2. ASSUME NEW d \in DialogKind PROVE Overtaken(d)'
  <2>1. /\ FramePends(d) <=> FramePends(d)' \/ Framing(cmd, d)
        /\ Overtaken(d) /\ DialogInv(d) /\ d \in Widgets /\ KindOf[d] # "Window"
    BY <1>1, <1>2, TailFramePends DEF Overtaking, SInv, DialogKind, IsDialog
  <2>2. CASE cmd.c \in {"create", "addChild"}
    <3>1. /\ shown' = shown \ Made(cmd) /\ ghosts' = ghosts \cup (Made(cmd) \cap shown)
          /\ d \in Made(cmd) => Framing(cmd, d)
      BY <1>1, <2>1, <2>2, MakeEffect DEF cmd
    <3> QED BY <1>1, <2>1, <3>1 DEF Overtaken
  <2>3. CASE cmd.c \in {"show", "hide"}
    <3>1. /\ UNCHANGED ghosts
          /\ d \in shown' => d \in shown \/ IsCmd(cmd, "show", d)
      BY <1>1, <2>3, ShowEffect DEF IsCmd, cmd
    <3>2. IsCmd(cmd, "show", d) => ~FramePends(d)
      <4>1. ASSUME IsCmd(cmd, "show", d), NEW i \in 1..Len(wire), Framing(wire[i], d)
            PROVE  FALSE
        <5>1. i < 1
          BY <1>1, <2>1, <4>1 DEF DialogInv, FramedFirst
        <5> QED BY <5>1
      <4> QED BY <4>1 DEF FramePends
    <3> QED BY <1>1, <2>1, <3>1, <3>2 DEF Overtaken
  <2>4. CASE cmd.c \in {"activate", "deactivate"}
    <3>1. UNCHANGED <<shown, ghosts>>
      BY <1>1, <2>4, ActivationEffect
    <3> QED BY <1>1, <2>1, <3>1 DEF Overtaken
  <2> QED BY <1>1, <2>2, <2>3, <2>4, CommandKinds
<1> QED BY <1>1, <1>2 DEF Overtaking

LEMMA DrawOvertakes ==
  ASSUME MInv, SInv, Overtaking, NEW w \in Widgets, PageDraw(w)
  PROVE  Overtaking'
<1>1. /\ Draw(w) /\ UNCHANGED <<wire, ghosts>>
      /\ overtaken' = IF FramePending(w) THEN overtaken \cup {w} ELSE overtaken
  BY DEF PageDraw, Draw, filterVars
<1>2. \A d : d \in shown' => d \in shown \/ d = w
  BY <1>1, OwnFrame DEF Draw
<1>3. IsDialog(w) /\ FramePends(w) => FramePending(w)
  <2>1. DOMAIN wire = 1..Len(wire)
    BY DEF MInv, TInv, Types
  <2> QED BY <2>1 DEF FramePends, FramePending, Framing
<1>4. ASSUME NEW d \in DialogKind PROVE Overtaken(d)'
  <2>1. Overtaken(d) /\ (FramePends(d)' <=> FramePends(d)) /\ IsDialog(d)
    BY <1>1, <1>4 DEF Overtaking, FramePends, DialogKind
  <2> QED BY <1>1, <1>2, <1>3, <2>1 DEF Overtaken
<1> QED BY <1>1, <1>4 DEF Overtaking

LEMMA OvertakingStep ==
  ASSUME MInv, SInv, Overtaking, [Next]_vars
  PROVE  Overtaking'
<1>1. ASSUME UNCHANGED <<wire, shown, ghosts, overtaken>> PROVE Overtaking'
  <2>1. ASSUME NEW d \in DialogKind PROVE Overtaken(d)'
    BY <1>1, <2>1 DEF Overtaking, Overtaken, FramePends
  <2> QED BY <1>1, <2>1 DEF Overtaking
<1>2. CASE Application
  <2>1. UNCHANGED <<pageVars, overtaken>>
    BY <1>2 DEF Application
  <2>2. UNCHANGED filterVars
    BY <1>2 DEF Application, Build, Call, Construct, ShowWidget, HideWidget, CloseCall,
                CloseWindow, SetParent, Destroy, ActivateWindow
  <2> QED BY <1>1, <2>1, <2>2 DEF pageVars, frameVars, filterVars
<1>3. CASE Serve
  <2>1. UNCHANGED <<pageVars, overtaken>>
    BY <1>3 DEF Serve, boundary
  <2>2. UNCHANGED filterVars
    BY <1>3 DEF Serve, Dispatch, DispatchActivate, EndActivate, DispatchNothing, DispatchClose,
                CloseWindow
  <2> QED BY <1>1, <2>1, <2>2 DEF pageVars, frameVars, filterVars
<1>4. CASE Render
  <2>1. UNCHANGED <<pageVars, filterVars, overtaken>>
    BY <1>4 DEF Render, RenderWidget, boundary
  <2> QED BY <1>1, <2>1 DEF pageVars, frameVars, filterVars
<1>5. CASE Parse \/ Post \/ UNCHANGED vars
  BY <1>1, <1>5 DEF Parse, Post, vars, appVars, pageVars, frameVars, filterVars, boundary
<1>6. CASE User
  <2>1. UNCHANGED <<appVars, shown, ghosts, overtaken>>
    BY <1>6 DEF User, Click, ClickClose
  <2> QED BY <1>1, <2>1 DEF appVars, filterVars
<1> QED BY <1>2, <1>3, <1>4, <1>5, <1>6, DeliverOvertakes, ExecuteOvertakes, DrawOvertakes
        DEF Next

-----------------------------------------------------------------------------
(* The invariant, and what it says once the page has caught up.                *)

DInv == /\ MInv /\ OffInv /\ SInv /\ Overtaking
        /\ WidgetsLive /\ InboxLives /\ PostingLives /\ PageLives

LEMMA DInvInit == Init => DInv
<1> SUFFICES ASSUME Init PROVE DInv
  OBVIOUS
<1>1. MInv /\ OffInv /\ SInv
  BY MInvInit, ShowInit
<1>2. inbox = <<>> /\ up = <<>> /\ posting = <<>> /\ Len(inbox) = 0
  BY DEF Init, InitApp, InitPage
<1>3. WidgetsLive /\ PageLives /\ PostingLives
  BY <1>2, EmptySeq DEF Init, InitApp, InitPage, WidgetsLive, PageLives, PostingLives, Alive
<1>4. InboxLives
  BY <1>2, EmptySeq DEF InboxLives
<1>5. Overtaking
  BY <1>1 DEF Init, InitPage, Overtaking, Overtaken
<1> QED BY <1>1, <1>3, <1>4, <1>5 DEF DInv

LEMMA PostingLivesStep ==
  ASSUME PostingLives, PageLives, framed \subseteq framed', [Next]_vars
  PROVE  PostingLives'
<1>1. CASE posting' = posting \/ posting' = <<>>
  <2>1. Messages(framed) \subseteq Messages(framed')
    BY DEF Messages
  <2> QED BY <1>1, <2>1 DEF PostingLives
<1>2. CASE Parse /\ posting' # <<>>
  <2>1. up # <<>> /\ posting' = <<Head(up)>> /\ UNCHANGED framed
    BY <1>2 DEF Parse, frameVars
  <2>2. Head(up) \in Messages(framed)
    BY <2>1, HeadTailProperties DEF PageLives
  <2> QED BY <2>1, <2>2 DEF PostingLives
<1>3. Parse \/ posting' = posting \/ posting' = <<>>
  BY DEF Next, Application, Deliver, Render, Serve, Post, PageExecute, PageDraw, User,
         boundary, vars
<1> QED BY <1>1, <1>2, <1>3

LEMMA DInvStep == DInv /\ [Next]_vars => DInv'
<1> SUFFICES ASSUME DInv, [Next]_vars PROVE DInv'
  OBVIOUS
<1>0. MInv /\ OffInv /\ SInv /\ Overtaking
      /\ WidgetsLive /\ InboxLives /\ PostingLives /\ PageLives
  BY DEF DInv
<1>1. MInv' /\ OffInv' /\ SInv'
  BY <1>0, MInvStep, ShowStep
<1>2. PageLives' /\ framed \subseteq framed'
  BY <1>0, PageLivesStep
<1>3. PostingLives'
  BY <1>0, <1>2, PostingLivesStep
<1>4. WidgetsLive' /\ InboxLives'
  <2>1. CASE Application
    BY <1>0, <2>1, ApplicationLives
  <2>2. CASE Deliver
    BY <1>0, <2>2, FilterLives DEF Deliver, pageVars, frameVars
  <2>3. CASE Serve
    BY <1>0, <2>3, DispatchLives DEF Serve, pageVars, frameVars
  <2>4. CASE Post
    BY <1>0, <2>4, PostLives DEF Post, qtVars, WidgetsLive, Alive
  <2>5. CASE \/ Render \/ Parse \/ PageExecute \/ (\E w \in Widgets : PageDraw(w)) \/ User
             \/ UNCHANGED vars
    <3>1. UNCHANGED <<qtVars, events, isActivateEvent, inbox>> /\ draws' \subseteq Widgets
      BY <1>0, <2>5 DEF Render, RenderWidget, Parse, PageExecute, PageDraw, User, vars, appVars,
                        WidgetsLive
    <3>2. WidgetsLive'
      BY <1>0, <3>1 DEF WidgetsLive, qtVars, Alive
    <3>3. inbox' \in Seq(Messages((framed \cap born)'))
      BY <1>0, <1>2, <3>1, MoreMessages DEF InboxLives, qtVars
    <3>4. InboxLives'
      BY <1>0, <3>1, <3>3 DEF InboxLives, Dying, qtVars
    <3> QED BY <3>2, <3>4
  <2> QED BY <2>1, <2>2, <2>3, <2>4, <2>5 DEF Next
<1>5. Overtaking'
  BY <1>0, OvertakingStep
<1> QED BY <1>1, <1>2, <1>3, <1>4, <1>5 DEF DInv

LEMMA DInvHolds == Spec => []DInv
BY DInvInit, DInvStep, PTL DEF Spec

\* What the invariant says once the page has executed every command.
LEMMA Caught ==
  ASSUME DInv, Settled
  PROVE  /\ \A d \in Dialogs : /\ d \in shown <=> d \in visible
                              /\ curtains[d] = IF d \in Modal \cap visible THEN 1 ELSE 0
         /\ Dialogs \cap ghosts \subseteq overtaken
         /\ visible \cap off = {}
<1>1. Len(wire) = 0 /\ Len(events) = 0
  BY DEF Settled
<1>2. ASSUME NEW w PROVE /\ ~Showing(w) /\ ~Hiding(w)
                         /\ ~Pends("show", w) /\ ~Pends("hide", w)
  BY <1>1 DEF Showing, Hiding, Pends
<1>3. visible \cap off = {}
  <2>1. visible \subseteq Widgets
    BY DEF DInv, WidgetsLive, Alive, MInv, TInv, Types
  <2> QED BY <1>2, <2>1 DEF DInv, OffInv, CanvasShown
<1>4. ASSUME NEW d \in Dialogs
      PROVE  /\ d \in shown <=> d \in visible
             /\ curtains[d] = IF d \in Modal \cap visible THEN 1 ELSE 0
  <2>1. DialogInv(d)
    BY DEF Dialogs, DialogKind, DInv, SInv, MInv, TInv, Types
  <2>2. IF d \in visible THEN Up(d) ELSE Gone(d)
    BY <1>2, <2>1 DEF DialogInv, InStep
  <2>3. d \in shown => d \notin hidden
    BY DEF DInv, SInv, Frames
  <2> QED BY <1>2, <2>1, <2>2, <2>3 DEF Up, Gone, Down, DialogInv, OneCurtain
<1>5. Dialogs \cap ghosts \subseteq overtaken
  BY DEF Dialogs, DialogKind, DInv, Overtaking, Overtaken, MInv, TInv, Types
<1> QED BY <1>3, <1>4, <1>5

\* The variables of the application and of the page keep to their types: a window that is
\* active exists, and the browser's events reach the GUI thread for living windows that have
\* a frame.
THEOREM DisplayTypes == Spec => []TypeOK
<1>1. DInv => TypeOK
  <2> SUFFICES ASSUME DInv PROVE TypeOK
    OBVIOUS
  <2>0. MInv /\ SInv /\ Overtaking /\ WidgetsLive /\ InboxLives /\ PostingLives /\ PageLives
    BY DEF DInv
  <2>1. /\ gone \subseteq born /\ born \subseteq Widgets
        /\ parents \in [Widgets -> Seq(Widgets)]
        /\ visible \subseteq wanted /\ wanted \subseteq Alive
        /\ active \in Alive \cup {NoWidget}
        /\ tracked \subseteq Widgets /\ draws \subseteq Widgets
        /\ isActivateEvent \in BOOLEAN
    BY <2>0 DEF MInv, TInv, Types, SInv, Named, WidgetsLive
  <2>2. \A i \in 1..Len(events) : events[i].w \in Widgets
    BY <2>0 DEF SInv, Named
  <2>3. \A i \in 1..Len(wire) : wire[i].c \in CommandNames /\ wire[i].id \in Widgets
    <3>1. \A i \in 1..Len(wire) : wire[i] \in Commands
      BY <2>0 DEF MInv, TInv, Types
    <3> QED BY <2>0, <3>1 DEF Commands, SInv, Named
  <2>4. \A i \in 1..Len(inbox) : inbox[i].id \in born
    <3>1. \A i \in 1..Len(inbox) : inbox[i] \in Messages(framed \cap born)
      BY <2>0 DEF InboxLives
    <3> QED BY <3>1 DEF Messages
  <2>5. events = <<>> => \A i \in 1..Len(inbox) : inbox[i].id \in Alive
    BY <2>0, AtEase
  <2>6. \A i \in 1..Len(up) : up[i].id \in framed
    <3>1. \A i \in 1..Len(up) : up[i] \in Messages(framed)
      BY <2>0 DEF PageLives
    <3> QED BY <3>1 DEF Messages
  <2>7. posting = <<>> \/ (Len(posting) = 1 /\ posting[1].id \in framed)
    BY <2>0 DEF PostingLives, Messages
  <2>8. /\ root \in known \cup {NoWidget}
        /\ shown \cup ghosts \subseteq framed /\ overtaken \subseteq Widgets
        /\ framed \subseteq known /\ off \subseteq known
        /\ curtains \in [Widgets -> Nat] /\ strays \in Nat
    BY <2>0 DEF PageLives, SInv, Frames, PageTypes, Overtaking
  <2> QED BY <2>1, <2>2, <2>3, <2>4, <2>5, <2>6, <2>7, <2>8 DEF TypeOK
<1> QED BY <1>1, DInvHolds, PTL

\* Once the page has executed every layout command, the last frame made for a dialog is
\* displayed exactly if the application shows the dialog, and no widget on the screen has
\* its canvas hidden: although the frame is made twice, hide() is reported twice and draw
\* commands may come late.  The first frame stands displayed beside the second only where a
\* draw of the dialog came before the command that makes the second.
THEOREM FramesFollow == Spec => []ShowingMatches
<1>1. DInv => ShowingMatches
  BY Caught DEF ShowingMatches
<1> QED BY <1>1, DInvHolds, PTL

\* Once the page has executed every layout command, a modal dialog on the screen has one
\* curtain before it and every other dialog none, after any rounds of show and hide.
THEOREM CurtainsFollow == Spec => []CurtainsMatch
<1>1. DInv => CurtainsMatch
  BY Caught DEF CurtainsMatch
<1> QED BY <1>1, DInvHolds, PTL

=============================================================================
