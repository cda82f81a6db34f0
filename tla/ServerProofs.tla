---------------------------- MODULE ServerProofs ----------------------------
(* Theorems about the launcher: about ACLProvider, for any names and any   *)
(* number of processes that overlap and die, and about AppLaunch, which    *)
(* process's ports a page gets, for any number of requests.                *)
EXTENDS ACLProvider, AppLaunch, TLAPS

-----------------------------------------------------------------------------
(* Lists and the rules they stand for.                                     *)

\* What the constructor reads is in one mode.
LEMMA ParsedLists ==
  ASSUME NEW l \in Lists
  PROVE  /\ Parsed(l) \in Lists
         /\ Parsed(l).all \in {{"accept"}, {"reject"}}
         /\ Parsed(l).accepted = l.accepted
         /\ Parsed(l).rejected = l.rejected
BY DEF Lists, Parsed, InMode

\* A list in one mode is read as it was written.
LEMMA ReadAsWritten ==
  ASSUME NEW l \in Lists, l.all \in {{"accept"}, {"reject"}}
  PROVE  Parsed(l) = l
BY DEF Lists, Parsed, InMode

\* The constructor's lists, and those of a new file.
LEMMA InstalledLists ==
  /\ Closed \in Lists
  /\ Installed \in Lists
BY ACLProviderAssumption DEF Lists, Closed, Installed

\* A list stands for one rule per name.
LEMMA RulesOfType ==
  ASSUME NEW l \in Lists
  PROVE  RulesOf(l) \in Rules
BY DEF RulesOf, Rules, Verdicts, Lists

\* isAccepted decides by the rules, if no name is on both sides.
LEMMA AcceptedByRules ==
  ASSUME NEW l \in Lists, NEW n \in Names, l.accepted \cap l.rejected = {}
  PROVE  IsAccepted(l, n) <=> Allowed(RulesOf(l), n)
BY DEF IsAccepted, Allowed, RulesOf, Lists

\* The commands change a list into a list, of the same mode or of the one asked for.
LEMMA ChangedLists ==
  ASSUME NEW l \in Lists, NEW n \in Names, NEW mode \in {"accept", "reject"}
  PROVE  /\ WithAccepted(l, n) \in Lists
         /\ WithAccepted(l, n).all = l.all
         /\ WithRejected(l, n) \in Lists
         /\ WithRejected(l, n).all = l.all
         /\ InMode(l, mode) \in Lists
         /\ InMode(l, mode).all = {mode}
BY DEF Lists, WithAccepted, WithRejected, InMode

-----------------------------------------------------------------------------
(* The invariant.                                                          *)

\* A list that allows nothing which no command has allowed.
Granted(l) ==
  /\ l.accepted \subseteq granted \cup {Testapp}
  /\ "reject" \notin l.all => opened

GrantedEverywhere ==
  /\ Granted(Parsed(file))
  /\ \A p \in Processes : Granted(mem[p])

Busy(p) == step[p] \notin {"off", "serving"}

\* How far a process that runs alone has come with what it owes.
Owed(p) ==
  /\ step[p] \in {"missing", "creating"} => RulesOf(Parsed(Installed)) = due
  /\ step[p] \in {"creating", "writing"} => disk = "empty"
  /\ step[p] \in {"reading", "loaded"} => RulesOf(Parsed(file)) = due
  /\ step[p] \in {"loaded", "saving", "writing"} => RulesOf(mem[p]) = due

Sequential ==
  alone =>
    /\ \A p, q \in Processes : Busy(p) /\ Busy(q) => p = q
    /\ \A p \in Processes : Owed(p)
    /\ Quiet => disk = "absent" \/ RulesOf(Parsed(file)) = due

AInv == TypeOK /\ OneVerdictPerName /\ GrantedEverywhere /\ Sequential

\* No file and no process.
LEMMA AInvInit == Init => AInv
<1> SUFFICES ASSUME Init PROVE AInv
  OBVIOUS
<1> USE DEF Init
<1>1. TypeOK
  <2>1. Parsed(Installed) \in Lists
    BY ParsedLists, InstalledLists
  <2>2. due \in Rules
    BY <2>1, RulesOfType
  <2>3. Closed.all = {"reject"}
    BY DEF Closed
  <2> QED BY <2>2, <2>3, InstalledLists DEF TypeOK, Steps
<1>2. OneVerdictPerName
  BY DEF OneVerdictPerName, Closed
<1>3. GrantedEverywhere
  BY DEF GrantedEverywhere, Granted, Closed, Parsed, InMode
<1>4. Sequential
  BY DEF Sequential, Busy, Owed
<1> QED BY <1>1, <1>2, <1>3, <1>4 DEF AInv

\* What a step of a process may leave in the file.
LEMMA FileAfter ==
  ASSUME NEW p \in Processes, Run(p)
  PROVE  file' \in {file, Closed, Installed, mem[p]}
BY DEF Run, Start, CreateOpen, CreateFails, CreateWrite, Load, Accept, Reject, AcceptAll,
       RejectAll, PrintInfo, Serve, SaveOpen, SaveFails, SaveWrite, Kill, Write, Truncate

\* What a step of a process may make of its lists, and of the history with them.
Changed(p) ==
  \/ mem' = mem
  \/ mem' = [mem EXCEPT ![p] = Parsed(file)]
  \/ \E n \in Names : mem' = [mem EXCEPT ![p] = WithAccepted(mem[p], n)] /\ n \in granted'
  \/ \E n \in Names : mem' = [mem EXCEPT ![p] = WithRejected(mem[p], n)]
  \/ mem' = [mem EXCEPT ![p] = InMode(mem[p], "accept")] /\ opened'
  \/ mem' = [mem EXCEPT ![p] = InMode(mem[p], "reject")]

LEMMA MemAfter ==
  ASSUME TypeOK, NEW p \in Processes, Run(p)
  PROVE  /\ Changed(p)
         /\ granted \subseteq granted'
         /\ opened => opened'
<1>1. ASSUME NEW n \in Names, Accept(p, n)
      PROVE  Changed(p) /\ granted \subseteq granted' /\ (opened => opened')
  BY <1>1 DEF Accept, Changed
<1>2. ASSUME NEW n \in Names, Reject(p, n)
      PROVE  Changed(p) /\ granted \subseteq granted' /\ (opened => opened')
  BY <1>2 DEF Reject, Changed
<1>3. CASE AcceptAll(p) \/ RejectAll(p) \/ Load(p)
  BY <1>3 DEF AcceptAll, RejectAll, Load, Changed, history
<1>4. CASE Start(p) \/ CreateOpen(p) \/ CreateFails(p) \/ CreateWrite(p) \/ PrintInfo(p)
           \/ Serve(p)
  BY <1>4 DEF Start, CreateOpen, CreateFails, CreateWrite, PrintInfo, Serve, Changed,
              history
<1>5. CASE SaveOpen(p) \/ SaveFails(p) \/ SaveWrite(p) \/ Kill(p)
  <2>1. mem' = mem /\ granted' = granted /\ opened' = opened
    BY <1>5 DEF SaveOpen, SaveFails, SaveWrite, Kill, history
  <2> QED BY <2>1 DEF Changed
<1>6. \/ \E n \in Names : Accept(p, n) \/ Reject(p, n)
      \/ AcceptAll(p) \/ RejectAll(p) \/ Load(p)
      \/ Start(p) \/ CreateOpen(p) \/ CreateFails(p) \/ CreateWrite(p) \/ PrintInfo(p)
      \/ Serve(p)
      \/ SaveOpen(p) \/ SaveFails(p) \/ SaveWrite(p) \/ Kill(p)
  BY DEF Run
<1> QED BY <1>1, <1>2, <1>3, <1>4, <1>5, <1>6

\* A step of one process leaves the lists of the others.
LEMMA MemOfOthers ==
  ASSUME TypeOK, NEW p \in Processes, Changed(p), NEW q \in Processes
  PROVE  \/ mem'[q] = mem[q]
         \/ mem'[q] = Parsed(file)
         \/ \E n \in Names : mem'[q] = WithAccepted(mem[q], n) /\ n \in granted'
         \/ \E n \in Names : mem'[q] = WithRejected(mem[q], n)
         \/ mem'[q] = InMode(mem[q], "accept") /\ opened'
         \/ mem'[q] = InMode(mem[q], "reject")
BY DEF TypeOK, Changed

-----------------------------------------------------------------------------
(* Types.                                                                  *)

\* The lists of a process stay lists in one mode.
LEMMA MemTypeStep ==
  ASSUME TypeOK, NEW p \in Processes, Changed(p)
  PROVE  /\ mem' \in [Processes -> Lists]
         /\ \A q \in Processes : mem'[q].all \in {{"accept"}, {"reject"}}
<1>1. Parsed(file) \in Lists /\ Parsed(file).all \in {{"accept"}, {"reject"}}
  BY ParsedLists DEF TypeOK
<1>2. mem' = [q \in Processes |-> mem'[q]]
  BY DEF TypeOK, Changed
<1>3. ASSUME NEW q \in Processes
      PROVE  mem'[q] \in Lists /\ mem'[q].all \in {{"accept"}, {"reject"}}
  <2>1. mem[q] \in Lists /\ mem[q].all \in {{"accept"}, {"reject"}}
    BY DEF TypeOK
  <2>2. CASE mem'[q] = mem[q] \/ mem'[q] = Parsed(file)
    BY <1>1, <2>1, <2>2
  <2>3. CASE \E n \in Names : \/ mem'[q] = WithAccepted(mem[q], n)
                              \/ mem'[q] = WithRejected(mem[q], n)
    BY <2>1, <2>3, ChangedLists
  <2>4. CASE mem'[q] = InMode(mem[q], "accept") \/ mem'[q] = InMode(mem[q], "reject")
    BY <2>1, <2>4 DEF InMode, Lists
  <2> QED BY <2>2, <2>3, <2>4, MemOfOthers
<1> QED BY <1>2, <1>3

\* The file stays a list.
LEMMA FileTypeStep ==
  ASSUME TypeOK, NEW p \in Processes, Run(p)
  PROVE  file' \in Lists
BY FileAfter, InstalledLists DEF TypeOK

\* The verdicts an administrator asks for stay one per name.
LEMMA DueTypeStep ==
  ASSUME TypeOK, NEW p \in Processes, Run(p)
  PROVE  due' \in Rules
<1>1. CASE Start(p) \/ CreateFails(p)
  <2>1. RulesOf(Parsed(file)) \in Rules /\ RulesOf(Parsed(Installed)) \in Rules
    BY ParsedLists, InstalledLists, RulesOfType DEF TypeOK
  <2> QED BY <1>1, <2>1 DEF Start, CreateFails
<1>2. CASE \E n \in Names : Accept(p, n) \/ Reject(p, n)
  BY <1>2 DEF Accept, Reject, Ruled, Rules, Verdicts, TypeOK
<1>3. CASE AcceptAll(p) \/ RejectAll(p)
  BY <1>3 DEF AcceptAll, RejectAll, RuledInMode, Rules, TypeOK
<1>4. CASE CreateOpen(p) \/ CreateWrite(p) \/ Load(p) \/ PrintInfo(p) \/ Serve(p)
           \/ SaveOpen(p) \/ SaveFails(p) \/ SaveWrite(p) \/ Kill(p)
  BY <1>4 DEF CreateOpen, CreateWrite, Load, PrintInfo, Serve, SaveOpen, SaveFails,
              SaveWrite, Kill, TypeOK, history
<1> QED BY <1>1, <1>2, <1>3, <1>4 DEF Run

\* The state of the file and of the processes.
LEMMA ControlTypeStep ==
  ASSUME TypeOK, NEW p \in Processes, Run(p)
  PROVE  /\ dir' \in BOOLEAN
         /\ disk' \in {"absent", "empty", "garbled", "whole"}
         /\ step' \in [Processes -> Steps]
         /\ granted' \subseteq Names
<1>1. CASE \E n \in Names : Accept(p, n) \/ Reject(p, n)
  BY <1>1 DEF Accept, Reject, Goto, Steps, TypeOK
<1>2. CASE Start(p) \/ CreateFails(p) \/ Load(p) \/ AcceptAll(p) \/ RejectAll(p)
           \/ PrintInfo(p) \/ Serve(p) \/ SaveFails(p) \/ Kill(p)
  BY <1>2 DEF Start, CreateFails, Load, AcceptAll, RejectAll, PrintInfo, Serve, SaveFails, Kill, Goto,
              Steps, TypeOK, history
<1>3. CASE CreateOpen(p) \/ CreateWrite(p) \/ SaveOpen(p) \/ SaveWrite(p)
  BY <1>3 DEF CreateOpen, CreateWrite, SaveOpen, SaveWrite, Truncate, Write, Goto,
              Steps, TypeOK, history
<1> QED BY <1>1, <1>2, <1>3 DEF Run

\* The two Boolean history variables.
LEMMA BooleanTypeStep ==
  ASSUME TypeOK, NEW p \in Processes, Run(p)
  PROVE  opened' \in BOOLEAN /\ alone' \in BOOLEAN
<1>1. opened \in BOOLEAN /\ alone \in BOOLEAN
  BY DEF TypeOK
<1>2. opened' \in BOOLEAN
  BY <1>1 DEF Run, Start, CreateOpen, CreateFails, CreateWrite, Load, Accept, Reject,
              AcceptAll, RejectAll, PrintInfo, Serve, SaveOpen, SaveFails, SaveWrite, Kill, history
<1>3. alone' \in BOOLEAN
  BY <1>1 DEF Run, Start, CreateOpen, CreateFails, CreateWrite, Load, Accept, Reject,
              AcceptAll, Quiet, RejectAll, PrintInfo, Serve, SaveOpen, SaveFails, SaveWrite, Kill, history
<1> QED BY <1>2, <1>3

\* Every step keeps the types.
LEMMA TypeStep ==
  ASSUME TypeOK, NEW p \in Processes, Run(p)
  PROVE  TypeOK'
<1>1. Changed(p)
  BY MemAfter
<1> QED BY <1>1, MemTypeStep, FileTypeStep, DueTypeStep, ControlTypeStep, BooleanTypeStep
        DEF TypeOK

-----------------------------------------------------------------------------
(* One verdict per name, and none ungranted.                               *)

\* accept and reject move a name from one side to the other.
LEMMA VerdictStep ==
  ASSUME TypeOK, OneVerdictPerName, NEW p \in Processes, Run(p)
  PROVE  OneVerdictPerName'
<1>1. file'.accepted \cap file'.rejected = {}
  BY FileAfter DEF OneVerdictPerName, Closed, Installed
<1>2. ASSUME NEW q \in Processes
      PROVE  mem'[q].accepted \cap mem'[q].rejected = {}
  <2>1. Changed(p)
    BY MemAfter
  <2>2. Parsed(file).accepted \cap Parsed(file).rejected = {}
    BY ParsedLists DEF TypeOK, OneVerdictPerName
  <2>3. mem[q].accepted \cap mem[q].rejected = {}
    BY DEF OneVerdictPerName
  <2>4. CASE mem'[q] = mem[q] \/ mem'[q] = Parsed(file)
    BY <2>2, <2>3, <2>4
  <2>5. CASE \E n \in Names : mem'[q] = WithAccepted(mem[q], n)
    BY <2>3, <2>5 DEF WithAccepted
  <2>6. CASE \E n \in Names : mem'[q] = WithRejected(mem[q], n)
    BY <2>3, <2>6 DEF WithRejected
  <2>7. CASE mem'[q] = InMode(mem[q], "accept") \/ mem'[q] = InMode(mem[q], "reject")
    BY <2>3, <2>7 DEF InMode
  <2> QED BY <2>1, <2>4, <2>5, <2>6, <2>7, MemOfOthers
<1> QED BY <1>1, <1>2 DEF OneVerdictPerName

\* What was allowed stays so when more is allowed.
LEMMA GrantedMore ==
  ASSUME NEW l, Granted(l), granted \subseteq granted', opened => opened'
  PROVE  /\ l.accepted \subseteq granted' \cup {Testapp}
         /\ "reject" \notin l.all => opened'
BY DEF Granted

\* Only accept and accept-all allow more, and they are on record.
LEMMA GrantedStep ==
  ASSUME TypeOK, GrantedEverywhere, NEW p \in Processes, Run(p)
  PROVE  GrantedEverywhere'
<1>1. Changed(p) /\ granted \subseteq granted' /\ (opened => opened')
  BY MemAfter
<1>2. /\ Parsed(file').accepted \subseteq granted' \cup {Testapp}
      /\ "reject" \notin Parsed(file').all => opened'
  <2>1. CASE file' = file
    BY <1>1, <2>1, GrantedMore DEF GrantedEverywhere
  <2>2. CASE file' = Closed \/ file' = Installed
    BY <2>2 DEF Closed, Installed, Parsed, InMode
  <2>3. CASE file' = mem[p]
    <3>1. Granted(mem[p])
      BY DEF GrantedEverywhere
    <3>2. Parsed(mem[p]) = mem[p]
      BY ReadAsWritten DEF TypeOK
    <3> QED BY <1>1, <2>3, <3>1, <3>2, GrantedMore
  <2> QED BY <2>1, <2>2, <2>3, FileAfter
<1>3. ASSUME NEW q \in Processes
      PROVE  /\ mem'[q].accepted \subseteq granted' \cup {Testapp}
             /\ "reject" \notin mem'[q].all => opened'
  <2>1. /\ mem[q].accepted \subseteq granted' \cup {Testapp}
        /\ "reject" \notin mem[q].all => opened'
    BY <1>1, GrantedMore DEF GrantedEverywhere
  <2>2. /\ Parsed(file).accepted \subseteq granted' \cup {Testapp}
        /\ "reject" \notin Parsed(file).all => opened'
    BY <1>1, GrantedMore DEF GrantedEverywhere
  <2>3. CASE mem'[q] = mem[q] \/ mem'[q] = Parsed(file)
    BY <2>1, <2>2, <2>3
  <2>4. CASE \E n \in Names : mem'[q] = WithAccepted(mem[q], n) /\ n \in granted'
    BY <2>1, <2>4 DEF WithAccepted
  <2>5. CASE \E n \in Names : mem'[q] = WithRejected(mem[q], n)
    BY <2>1, <2>5 DEF WithRejected
  <2>6. CASE mem'[q] = InMode(mem[q], "accept") /\ opened'
    BY <2>1, <2>6 DEF InMode
  <2>7. CASE mem'[q] = InMode(mem[q], "reject")
    BY <2>1, <2>7 DEF InMode
  <2> QED BY <1>1, <2>3, <2>4, <2>5, <2>6, <2>7, MemOfOthers
<1> QED BY <1>2, <1>3 DEF GrantedEverywhere, Granted, Parsed, InMode

-----------------------------------------------------------------------------
(* Processes that run one at a time.                                       *)

\* What a command does to lists is what its verdict does to the rules.
LEMMA RulesFollow ==
  ASSUME NEW l \in Lists, NEW n \in Names, NEW mode \in {"accept", "reject"}
  PROVE  /\ RulesOf(WithAccepted(l, n)) = Ruled(RulesOf(l), n, "accepted")
         /\ RulesOf(WithRejected(l, n)) = Ruled(RulesOf(l), n, "rejected")
         /\ RulesOf(InMode(l, mode)) = RuledInMode(RulesOf(l), mode)
<1>1. RulesOf(WithAccepted(l, n)) = Ruled(RulesOf(l), n, "accepted")
  BY DEF RulesOf, WithAccepted, Ruled
<1>2. RulesOf(WithRejected(l, n)) = Ruled(RulesOf(l), n, "rejected")
  BY DEF RulesOf, WithRejected, Ruled
<1>3. RulesOf(InMode(l, mode)) = RuledInMode(RulesOf(l), mode)
  BY DEF RulesOf, InMode, RuledInMode
<1> QED BY <1>1, <1>2, <1>3

\* A verdict that a list has already changes nothing: accept and reject need not save.
LEMMA NothingToSave ==
  ASSUME NEW l \in Lists, NEW n \in Names, l.accepted \cap l.rejected = {}
  PROVE  /\ n \in l.accepted => WithAccepted(l, n) = l
         /\ n \in l.rejected => WithRejected(l, n) = l
<1>1. l = [all |-> l.all, accepted |-> l.accepted, rejected |-> l.rejected]
  BY DEF Lists
<1>2. n \in l.accepted => l.accepted \cup {n} = l.accepted /\ l.rejected \ {n} = l.rejected
  OBVIOUS
<1>3. n \in l.rejected => l.rejected \cup {n} = l.rejected /\ l.accepted \ {n} = l.accepted
  OBVIOUS
<1> QED BY <1>1, <1>2, <1>3 DEF WithAccepted, WithRejected

\* A step of the only process that is between its start and its end.
LEMMA SoleStep ==
  ASSUME TypeOK, Sequential, alone, NEW p \in Processes, Busy(p), NEW s \in Steps,
         Goto(p, s), Owed(p)',
         s \in {"off", "serving"} => RulesOf(Parsed(file')) = due'
  PROVE  Sequential'
<1>1. \A q \in Processes : q # p => step'[q] \in {"off", "serving"}
  BY DEF Sequential, Busy, Goto, TypeOK
<1>2. step'[p] = s
  BY DEF Goto, TypeOK
<1>3. \A q, r \in Processes : Busy(q)' /\ Busy(r)' => q = r
  BY <1>1 DEF Busy
<1>4. \A q \in Processes : Owed(q)'
  BY <1>1 DEF Owed
<1>5. Quiet' => RulesOf(Parsed(file')) = due'
  BY <1>2 DEF Quiet
<1> QED BY <1>3, <1>4, <1>5 DEF Sequential

\* The constructor: a new file is what an absent one counts for, and closed lists if it
\* cannot be made.
LEMMA ReadingStep ==
  ASSUME AInv, NEW p \in Processes, alone,
         CreateOpen(p) \/ CreateFails(p) \/ CreateWrite(p) \/ Load(p)
  PROVE  Sequential'
<1>1. TypeOK /\ Sequential /\ Busy(p) /\ Owed(p)
  BY DEF AInv, Sequential, Busy, CreateOpen, CreateFails, CreateWrite, Load, At
<1>2. CASE CreateOpen(p)
  <2>1. Goto(p, "creating") /\ step'[p] = "creating" /\ disk' = "empty" /\ due' = due
    BY <1>1, <1>2 DEF CreateOpen, Goto, Truncate, TypeOK, history
  <2>2. Owed(p)'
    BY <1>1, <1>2, <2>1 DEF Owed, CreateOpen, At
  <2> QED BY <1>1, <2>1, <2>2, SoleStep DEF Steps
<1>3. CASE CreateWrite(p)
  <2>1. Goto(p, "reading") /\ step'[p] = "reading" /\ due' = due
    BY <1>1, <1>3 DEF CreateWrite, Goto, TypeOK, history
  <2>2. file' = Installed
    BY <1>1, <1>3 DEF CreateWrite, Write, Owed, At
  <2>3. Owed(p)'
    BY <1>1, <1>3, <2>1, <2>2 DEF Owed, CreateWrite, At
  <2> QED BY <1>1, <2>1, <2>3, SoleStep DEF Steps
<1>4. CASE Load(p)
  <2>1. /\ Goto(p, "loaded") /\ step'[p] = "loaded"
        /\ due' = due /\ file' = file /\ mem'[p] = Parsed(file)
    BY <1>1, <1>4 DEF Load, Goto, TypeOK, history
  <2>2. RulesOf(Parsed(Parsed(file))) = RulesOf(Parsed(file))
    BY <1>1, ParsedLists, ReadAsWritten DEF TypeOK
  <2>3. Owed(p)'
    BY <1>1, <1>4, <2>1, <2>2 DEF Owed, Load, At
  <2> QED BY <1>1, <2>1, <2>3, SoleStep DEF Steps
<1>5. CASE CreateFails(p)
  <2>1. /\ Goto(p, "reading") /\ step'[p] = "reading"
        /\ file' = file /\ due' = RulesOf(Parsed(file))
    BY <1>1, <1>5 DEF CreateFails, Goto, TypeOK
  <2>2. Owed(p)'
    BY <2>1 DEF Owed
  <2> QED BY <1>1, <2>1, <2>2, SoleStep DEF Steps
<1> QED BY <1>2, <1>3, <1>4, <1>5

\* accept and reject: the rules get the verdict, and when nothing is saved the file
\* had it.
LEMMA VerdictGiven ==
  ASSUME AInv, NEW p \in Processes, NEW n \in Names, alone, Accept(p, n) \/ Reject(p, n)
  PROVE  Sequential'
<1>1. TypeOK /\ Sequential /\ Busy(p) /\ Owed(p) /\ step[p] = "loaded"
  BY DEF AInv, Sequential, Busy, Accept, Reject, At
<1>2. /\ mem[p] \in Lists
      /\ mem[p].accepted \cap mem[p].rejected = {}
      /\ RulesOf(mem[p]) = due
      /\ RulesOf(Parsed(file)) = due
  BY <1>1 DEF AInv, TypeOK, OneVerdictPerName, Owed
<1>3. PICK s \in {"off", "saving"} :
        /\ Goto(p, s)
        /\ step'[p] = s
        /\ file' = file
        /\ RulesOf(mem'[p]) = due'
        /\ s = "off" => due' = due
  <2>1. CASE Accept(p, n)
    <3>1. mem'[p] = WithAccepted(mem[p], n) /\ due' = Ruled(due, n, "accepted")
      BY <1>1, <2>1 DEF Accept, TypeOK
    <3>2. RulesOf(mem'[p]) = due'
      BY <1>2, <3>1, RulesFollow
    <3>3. n \in mem[p].accepted => due' = due
      BY <1>2, <3>1, <3>2, NothingToSave
    <3> QED BY <1>1, <2>1, <3>2, <3>3 DEF Accept, Goto, TypeOK
  <2>2. CASE Reject(p, n)
    <3>1. mem'[p] = WithRejected(mem[p], n) /\ due' = Ruled(due, n, "rejected")
      BY <1>1, <2>2 DEF Reject, TypeOK
    <3>2. RulesOf(mem'[p]) = due'
      BY <1>2, <3>1, RulesFollow
    <3>3. n \in mem[p].rejected => due' = due
      BY <1>2, <3>1, <3>2, NothingToSave
    <3> QED BY <1>1, <2>2, <3>2, <3>3 DEF Reject, Goto, TypeOK
  <2> QED BY <2>1, <2>2
<1>4. Owed(p)'
  BY <1>3 DEF Owed
<1> QED BY <1>1, <1>2, <1>3, <1>4, SoleStep DEF Steps

\* accept-all and reject-all.
LEMMA ModeGiven ==
  ASSUME AInv, NEW p \in Processes, alone, AcceptAll(p) \/ RejectAll(p)
  PROVE  Sequential'
<1>1. TypeOK /\ Sequential /\ Busy(p) /\ Owed(p) /\ step[p] = "loaded"
  BY DEF AInv, Sequential, Busy, AcceptAll, RejectAll, At
<1>2. mem[p] \in Lists /\ RulesOf(mem[p]) = due
  BY <1>1 DEF TypeOK, Owed
<1>3. Goto(p, "saving") /\ step'[p] = "saving"
  BY <1>1 DEF AcceptAll, RejectAll, Goto, TypeOK
<1>4. PICK mode \in {"accept", "reject"} :
        mem'[p] = InMode(mem[p], mode) /\ due' = RuledInMode(due, mode)
  BY <1>1 DEF AcceptAll, RejectAll, TypeOK
<1>5. RulesOf(mem'[p]) = due'
  BY <1>2, <1>4, RulesFollow, ACLProviderAssumption
<1>6. Owed(p)'
  BY <1>3, <1>5 DEF Owed
<1> QED BY <1>1, <1>3, <1>6, SoleStep DEF Steps

\* A process that only reads has left the file as it was.
LEMMA ReaderDone ==
  ASSUME AInv, NEW p \in Processes, alone, PrintInfo(p) \/ Serve(p)
  PROVE  Sequential'
<1>1. TypeOK /\ Sequential /\ Busy(p) /\ Owed(p) /\ step[p] = "loaded"
  BY DEF AInv, Sequential, Busy, PrintInfo, Serve, At
<1>2. PICK s \in {"off", "serving"} : Goto(p, s) /\ step'[p] = s
  BY <1>1 DEF PrintInfo, Serve, Goto, TypeOK
<1>3. RulesOf(Parsed(file')) = due'
  BY <1>1 DEF PrintInfo, Serve, Owed, history
<1>4. Owed(p)'
  BY <1>2 DEF Owed
<1> QED BY <1>1, <1>2, <1>3, <1>4, SoleStep DEF Steps

\* save(): the truncated file is this process's, so what it writes is what will be read.
LEMMA Saving ==
  ASSUME AInv, NEW p \in Processes, alone, SaveOpen(p) \/ SaveWrite(p)
  PROVE  Sequential'
<1>1. TypeOK /\ Sequential /\ Busy(p) /\ Owed(p)
  BY DEF AInv, Sequential, Busy, SaveOpen, SaveWrite, At
<1>2. mem' = mem /\ due' = due
  BY DEF SaveOpen, SaveWrite, history
<1>3. CASE SaveOpen(p)
  <2>1. Goto(p, "writing") /\ step'[p] = "writing" /\ disk' = "empty"
    BY <1>1, <1>3 DEF SaveOpen, Truncate, Goto, TypeOK
  <2>2. Owed(p)'
    BY <1>1, <1>2, <1>3, <2>1 DEF Owed, SaveOpen, At
  <2> QED BY <1>1, <2>1, <2>2, SoleStep DEF Steps
<1>4. CASE SaveWrite(p)
  <2>1. Goto(p, "off") /\ step'[p] = "off"
    BY <1>1, <1>4 DEF SaveWrite, Goto, TypeOK
  <2>2. file' = mem[p]
    BY <1>1, <1>4 DEF SaveWrite, Write, Owed, At
  <2>3. Parsed(mem[p]) = mem[p]
    BY <1>1, ReadAsWritten DEF TypeOK
  <2>4. RulesOf(Parsed(file')) = due'
    BY <1>1, <1>2, <1>4, <2>2, <2>3 DEF Owed, SaveWrite, At
  <2>5. Owed(p)'
    BY <2>1 DEF Owed
  <2> QED BY <1>1, <2>1, <2>4, <2>5, SoleStep DEF Steps
<1> QED BY <1>3, <1>4

\* A process that starts in a quiet state is the only one.
LEMMA Starting ==
  ASSUME AInv, NEW p \in Processes, Start(p)
  PROVE  Sequential'
<1>1. TypeOK
  BY DEF AInv
<1>2. SUFFICES ASSUME alone' PROVE Sequential'
  BY DEF Sequential
<1>3. \A q \in Processes : step[q] \in {"off", "serving"}
  BY <1>2 DEF Start, Quiet
<1>4. \A q \in Processes : q # p => step'[q] \in {"off", "serving"}
  BY <1>1, <1>3 DEF Start, Goto, TypeOK
<1>5. step'[p] = (IF disk = "absent" THEN "missing" ELSE "reading")
  BY <1>1 DEF Start, Goto, TypeOK
<1>6. \A q, r \in Processes : Busy(q)' /\ Busy(r)' => q = r
  BY <1>4 DEF Busy
<1>7. Owed(p)'
  BY <1>5 DEF Owed, Start
<1>8. \A q \in Processes : Owed(q)'
  BY <1>4, <1>7 DEF Owed
<1>9. ~ Quiet'
  BY <1>5 DEF Quiet
<1> QED BY <1>6, <1>8, <1>9 DEF Sequential

\* A server that stops has no business with the file; everything else that dies is on
\* record.
LEMMA Ending ==
  ASSUME AInv, NEW p \in Processes, SaveFails(p) \/ Kill(p)
  PROVE  Sequential'
<1>1. TypeOK /\ Sequential
  BY DEF AInv
<1>2. CASE SaveFails(p)
  BY <1>2 DEF SaveFails, Sequential
<1>3. CASE Kill(p)
  <2>1. SUFFICES ASSUME alone' PROVE Sequential'
    BY DEF Sequential
  <2>2. alone /\ step[p] = "serving"
    BY <1>3, <2>1 DEF Kill, At
  <2>3. \A q \in Processes : step'[q] = step[q] \/ (q = p /\ step'[q] = "off")
    BY <1>1, <1>3 DEF Kill, Goto, TypeOK
  <2>4. disk' = disk /\ file' = file /\ mem' = mem /\ due' = due
    BY <1>3 DEF Kill
  <2>5. \A q, r \in Processes : Busy(q)' /\ Busy(r)' => q = r
    BY <1>1, <2>2, <2>3 DEF Sequential, Busy
  <2>6. \A q \in Processes : Owed(q)'
    BY <1>1, <2>2, <2>3, <2>4 DEF Sequential, Owed
  <2>7. Quiet' => Quiet
    BY <2>2, <2>3 DEF Quiet
  <2> QED BY <1>1, <2>2, <2>4, <2>5, <2>6, <2>7 DEF Sequential
<1> QED BY <1>2, <1>3

\* Every step of a process keeps what holds of processes that run alone.
LEMMA SequentialStep ==
  ASSUME AInv, NEW p \in Processes, Run(p)
  PROVE  Sequential'
<1>1. CASE Start(p) \/ SaveFails(p) \/ Kill(p)
  BY <1>1, Starting, Ending
<1>2. ASSUME ~ (Start(p) \/ SaveFails(p) \/ Kill(p))
      PROVE  alone' = alone
  BY <1>2 DEF Run, CreateOpen, CreateFails, CreateWrite, Load, Accept, Reject, AcceptAll,
              RejectAll, PrintInfo, Serve, SaveOpen, SaveWrite, history
<1>3. CASE alone
  BY <1>1, <1>3, ReadingStep, VerdictGiven, ModeGiven, ReaderDone, Saving DEF Run
<1>4. CASE ~ alone
  BY <1>1, <1>2, <1>4 DEF Sequential
<1> QED BY <1>3, <1>4

\* Every step keeps the invariant.
LEMMA AInvStep == AInv /\ [Next]_vars => AInv'
<1> SUFFICES ASSUME AInv, [Next]_vars PROVE AInv'
  OBVIOUS
<1>1. ASSUME NEW p \in Processes, Run(p) PROVE AInv'
  BY <1>1, TypeStep, VerdictStep, GrantedStep, SequentialStep DEF AInv
<1>2. CASE UNCHANGED vars
  BY <1>2 DEF vars, history, AInv, TypeOK, OneVerdictPerName, GrantedEverywhere, Granted,
              Sequential, Busy, Owed, Quiet
<1> QED BY <1>1, <1>2 DEF Next

\* The invariant holds in every state.
LEMMA AInvariance == Spec => []AInv
BY AInvInit, AInvStep, PTL DEF Spec

-----------------------------------------------------------------------------
(* Theorems.                                                               *)

\* The lists keep their types; a process is in one mode at a time.
THEOREM ListTypes == Spec => []TypeOK
<1>1. AInv => TypeOK
  BY DEF AInv
<1> QED BY <1>1, AInvariance, PTL

\* No name is on both sides, for any number of overlapping processes.
THEOREM VerdictsAreSingle == Spec => []OneVerdictPerName
<1>1. AInv => OneVerdictPerName
  BY DEF AInv
<1> QED BY <1>1, AInvariance, PTL

\* The server runs no application that no command allowed, whatever happens to the file.
THEOREM ServerIsClosed == Spec => []NothingUngranted
<1>1. AInv => NothingUngranted
  BY DEF AInv, GrantedEverywhere, Granted, NothingUngranted, IsAccepted
<1> QED BY <1>1, AInvariance, PTL

\* Commands that do not overlap and that finish have the effect that was asked for, over
\* the lists that the first of them found, in a directory that exists or not.
THEOREM LastVerdictStands == Spec => []LastVerdictHolds
<1>1. AInv => LastVerdictHolds
  <2>1. SUFFICES ASSUME AInv, alone, Quiet, disk # "absent", NEW n \in Names
                 PROVE  IsAccepted(Parsed(file), n) <=> Allowed(due, n)
    BY DEF LastVerdictHolds
  <2>2. RulesOf(Parsed(file)) = due
    BY <2>1 DEF AInv, Sequential
  <2>3. /\ Parsed(file) \in Lists
        /\ Parsed(file).accepted \cap Parsed(file).rejected = {}
    BY <2>1, ParsedLists DEF AInv, TypeOK, OneVerdictPerName
  <2> QED BY <2>2, <2>3, AcceptedByRules
<1> QED BY <1>1, AInvariance, PTL

-----------------------------------------------------------------------------
(* Queues without repetition.                                              *)

In(s) == {s[i] : i \in DOMAIN s}
Distinct(s) == \A i, j \in DOMAIN s : s[i] = s[j] => i = j

LEMMA AppendElements ==
  ASSUME NEW S, NEW s \in Seq(S), NEW e \in S
  PROVE  /\ In(Append(s, e)) = In(s) \cup {e}
         /\ Distinct(s) /\ e \notin In(s) => Distinct(Append(s, e))
         /\ Append(s, e) # <<>>
<1>1. DOMAIN s = 1 .. Len(s) /\ Len(s) \in Nat /\ DOMAIN Append(s, e) = 1 .. Len(s) + 1
  OBVIOUS
<1>2. \A i \in 1 .. Len(s) : Append(s, e)[i] = s[i]
  OBVIOUS
<1>3. Append(s, e)[Len(s) + 1] = e
  OBVIOUS
<1> QED BY <1>1, <1>2, <1>3 DEF In, Distinct

LEMMA TailElements ==
  ASSUME NEW S, NEW s \in Seq(S), s # <<>>, Distinct(s)
  PROVE  /\ Head(s) \in In(s)
         /\ In(Tail(s)) = In(s) \ {Head(s)}
         /\ Distinct(Tail(s))
         /\ Tail(s) \in Seq(S)
<1>1. DOMAIN s = 1 .. Len(s) /\ Len(s) \in Nat \ {0} /\ DOMAIN Tail(s) = 1 .. Len(s) - 1
  OBVIOUS
<1>2. \A i \in 1 .. Len(s) - 1 : Tail(s)[i] = s[i + 1]
  OBVIOUS
<1>3. Head(s) = s[1]
  OBVIOUS
<1>4. \A i \in 1 .. Len(s) : i = 1 \/ i - 1 \in 1 .. Len(s) - 1
  BY <1>1
<1>5. In(Tail(s)) = In(s) \ {Head(s)}
  <2>1. ASSUME NEW x \in In(Tail(s)) PROVE x \in In(s) \ {Head(s)}
    <3>1. PICK i \in 1 .. Len(s) - 1 : x = s[i + 1]
      BY <1>1, <1>2, <2>1 DEF In
    <3> QED BY <1>1, <1>3, <3>1 DEF In, Distinct
  <2>2. ASSUME NEW x \in In(s), x # Head(s) PROVE x \in In(Tail(s))
    <3>1. PICK i \in 1 .. Len(s) : x = s[i]
      BY <1>1 DEF In
    <3>2. i - 1 \in 1 .. Len(s) - 1 /\ Tail(s)[i - 1] = x
      BY <1>1, <1>2, <1>3, <1>4, <2>2, <3>1
    <3> QED BY <1>1, <3>2 DEF In
  <2> QED BY <2>1, <2>2
<1>6. Distinct(Tail(s))
  BY <1>1, <1>2 DEF Distinct
<1>7. Head(s) \in In(s)
  BY <1>1, <1>3 DEF In
<1> QED BY <1>5, <1>6, <1>7

-----------------------------------------------------------------------------
(* The inductive invariant.                                                *)

Held == In(backlog) \cup In(pending)

\* A request that was not taken has no process.
Fresh == \A r \in Requests : http[r] # "closed" /\ r # serving => proc[r] = "none"

\* A connection is in one place: in a queue, in sendCanvas's hands, or in a page.
OnePlace ==
  /\ Distinct(backlog)
  /\ Distinct(pending)
  /\ In(backlog) \cap In(pending) = {}
  /\ reading \notin Held
  /\ \A r \in Requests : ports[r] # None => ports[r] \notin Held /\ ports[r] # reading

\* A process that has not connected is in none.
Unconnected ==
  \A c \in Requests : proc[c] \in {"none", "starting", "failed"} =>
    /\ c \notin Held
    /\ c # reading
    /\ \A r \in Requests : ports[r] # c

\* Without late processes, only the one of the request at hand has a connection.
Prompt ==
  late = {} =>
    /\ Held \subseteq {serving}
    /\ reading \in {serving, None}
    /\ \A r \in Requests : ports[r] \in {r, None}

LInv == LaunchTypeOK /\ Fresh /\ OnePlace /\ OnePagePerProcess /\ Unconnected /\ Prompt

LEMMA InitLInv == LaunchInit => LInv
BY AppLaunchAssumption
   DEF LaunchInit, LInv, LaunchTypeOK, Fresh, OnePlace, OnePagePerProcess, Unconnected, Prompt, Held, In, Distinct, Lines, ProcStates

LEMMA HeldRequests ==
  ASSUME LaunchTypeOK
  PROVE  Held \subseteq Requests
BY DEF LaunchTypeOK, Held, In

\* Steps that move no connection and let no process become unconnected again.
LEMMA ProcStep ==
  ASSUME LInv, NEW c \in Requests, NEW s \in ProcStates,
         proc' = [proc EXCEPT ![c] = s],
         proc[c] # "none",
         s \in {"starting", "failed", "none"} => proc[c] = "starting",
         UNCHANGED <<http, answer, ports, server, backlog, pending, buffered, late>>,
         missing' \subseteq Requests
  PROVE  LInv'
<1>1. LaunchTypeOK'
  BY DEF LInv, LaunchTypeOK, server
<1>2. Fresh'
  BY DEF LInv, LaunchTypeOK, Fresh, server
<1>3. OnePlace' /\ OnePagePerProcess' /\ Prompt'
  BY DEF LInv, OnePlace, OnePagePerProcess, Prompt, Held, In, Distinct, server
<1>4. Unconnected'
  BY DEF LInv, LaunchTypeOK, Unconnected, Held, In, server
<1> QED BY <1>1, <1>2, <1>3, <1>4 DEF LInv

LEMMA ConnectStep ==
  ASSUME LInv, NEW r \in Requests, Connect(r)
  PROVE  LInv'
<1> USE DEF Connect
<1>1. backlog \in Seq(Requests) /\ Distinct(backlog) /\ r \notin In(backlog)
  BY DEF LInv, LaunchTypeOK, OnePlace, Unconnected, Held
<1>2. In(backlog') = In(backlog) \cup {r} /\ Distinct(backlog') /\ backlog' \in Seq(Requests)
  BY <1>1, AppendElements
<1>3. Held' = Held \cup {r}
  BY <1>2 DEF Held
<1>4. r \notin Held /\ r # reading /\ \A q \in Requests : ports[q] # r
  BY DEF LInv, Unconnected
<1>5. LaunchTypeOK'
  BY <1>2 DEF LInv, LaunchTypeOK, server, ProcStates
<1>6. Fresh'
  BY DEF LInv, LaunchTypeOK, Fresh, server
<1>7. OnePlace'
  BY <1>2, <1>3, <1>4 DEF LInv, OnePlace, Held, server
<1>8. OnePagePerProcess' /\ Unconnected'
  BY <1>3 DEF LInv, LaunchTypeOK, OnePagePerProcess, Unconnected, server
<1>9. Prompt'
  <2>1. CASE serving = r
    BY <1>3, <2>1 DEF LInv, Prompt, server
  <2>2. CASE serving # r
    BY <2>2 DEF Prompt
  <2> QED BY <2>1, <2>2
<1> QED BY <1>5, <1>6, <1>7, <1>8, <1>9 DEF LInv

LEMMA RequestStep ==
  ASSUME LInv, NEW r \in Requests, NEW line \in Lines, Request(r, line)
  PROVE  LInv'
<1> USE DEF Request
<1>1. LaunchTypeOK'
  BY DEF LInv, LaunchTypeOK, server
<1>2. Fresh'
  BY DEF LInv, LaunchTypeOK, Fresh, server
<1>3. OnePlace' /\ OnePagePerProcess' /\ Unconnected' /\ Prompt'
  BY DEF LInv, OnePlace, OnePagePerProcess, Unconnected, Prompt, Held, In, Distinct, server
<1> QED BY <1>1, <1>2, <1>3 DEF LInv

LEMMA ReadClientStep ==
  ASSUME LInv, NEW r \in Requests, ReadClient(r)
  PROVE  LInv'
<1>0. LaunchTypeOK /\ Fresh /\ OnePlace /\ OnePagePerProcess /\ Unconnected /\ Prompt
  BY DEF LInv
<1>1. serving = None /\ http[r] \in Lines /\ r # serving /\ http[r] # "closed"
  BY AppLaunchAssumption DEF ReadClient, Lines
<1>2. UNCHANGED <<ports, reading, backlog, pending, buffered, missing, late>>
  BY DEF ReadClient
<1>3. proc[r] = "none"
  BY <1>0, <1>1 DEF Fresh
<1>4. OnePlace' /\ OnePagePerProcess'
  BY <1>0, <1>2 DEF OnePlace, OnePagePerProcess, Held, In, Distinct
<1>5. Held = {} \/ late # {}
  BY <1>0, <1>1, HeldRequests, AppLaunchAssumption DEF Prompt
<1>6. Prompt'
  <2>1. Held' = Held
    BY <1>2 DEF Held, In
  <2>2. reading = None
    BY <1>0, <1>1 DEF LaunchTypeOK
  <2> QED BY <1>0, <1>2, <1>5, <2>1, <2>2 DEF Prompt
<1>7. CASE http[r] = "application"
  <2>1. serving' = r /\ proc' = [proc EXCEPT ![r] = "starting"] /\ UNCHANGED <<http, answer>>
    BY <1>7 DEF ReadClient
  <2>2. LaunchTypeOK'
    BY <1>0, <1>1, <1>2, <2>1 DEF LaunchTypeOK, ProcStates
  <2>3. Fresh'
    <3>1. \A q \in Requests : q # r => q # serving /\ proc'[q] = proc[q] /\ http'[q] = http[q]
      BY <1>0, <1>1, <2>1, AppLaunchAssumption DEF LaunchTypeOK
    <3> QED BY <1>0, <2>1, <3>1 DEF Fresh
  <2>4. Unconnected'
    BY <1>0, <1>2, <1>3, <2>1 DEF LaunchTypeOK, Unconnected, Held, In
  <2> QED BY <1>4, <1>6, <2>2, <2>3, <2>4 DEF LInv
<1>8. CASE http[r] # "application"
  <2>1. /\ http' = [http EXCEPT ![r] = "closed"]
        /\ answer' = [answer EXCEPT ![r] = IF http[r] = "other" THEN "other" ELSE "none"]
        /\ UNCHANGED <<serving, proc>>
    BY <1>8 DEF ReadClient
  <2>2. LaunchTypeOK'
    BY <1>0, <1>2, <2>1 DEF LaunchTypeOK
  <2>3. Fresh'
    BY <1>0, <2>1 DEF LaunchTypeOK, Fresh
  <2>4. Unconnected'
    BY <1>0, <1>2, <2>1 DEF Unconnected, Held, In
  <2> QED BY <1>4, <1>6, <2>2, <2>3, <2>4 DEF LInv
<1> QED BY <1>7, <1>8

\* A connection out of the queues into the server's hands.
LEMMA TakeStep ==
  ASSUME LInv, NEW connections \in Seq(Requests), serving # None, reading = None,
         Distinct(connections), In(connections) \cup In(backlog') = Held,
         In(connections) \cap In(backlog') = {},
         Distinct(backlog'), backlog' \in Seq(Requests),
         Take(connections),
         UNCHANGED <<http, answer, ports, serving, buffered, proc, missing, late>>
  PROVE  LInv'
<1>0. LaunchTypeOK /\ Fresh /\ OnePlace /\ OnePagePerProcess /\ Unconnected /\ Prompt
  BY DEF LInv
<1>1. /\ reading' \in In(connections)
      /\ In(pending') = In(connections) \ {reading'}
      /\ Distinct(pending')
      /\ pending' \in Seq(Requests)
  BY TailElements DEF Take
<1>2. Held' = Held \ {reading'}
  BY <1>1 DEF Held
<1>3. reading' \in Held /\ Held \subseteq Requests
  BY <1>0, <1>1, HeldRequests
<1>4. LaunchTypeOK'
  BY <1>0, <1>1, <1>3 DEF LaunchTypeOK
<1>5. Fresh'
  BY <1>0 DEF Fresh
<1>6. OnePlace'
  BY <1>0, <1>1, <1>2, <1>3 DEF OnePlace
<1>7. OnePagePerProcess' /\ Unconnected'
  BY <1>0, <1>2, <1>3 DEF OnePagePerProcess, Unconnected
<1>8. Prompt'
  BY <1>0, <1>2, <1>3 DEF Prompt
<1> QED BY <1>4, <1>5, <1>6, <1>7, <1>8 DEF LInv

\* The head of the backlog behind the pending connections.
LEMMA AcceptElements ==
  ASSUME LInv, backlog # <<>>, backlog' = Tail(backlog)
  PROVE  LET connections == Append(pending, Head(backlog)) IN
         /\ connections \in Seq(Requests)
         /\ Distinct(connections)
         /\ In(connections) \cup In(backlog') = Held
         /\ In(connections) \cap In(backlog') = {}
         /\ Distinct(backlog')
         /\ backlog' \in Seq(Requests)
<1> DEFINE connections == Append(pending, Head(backlog))
<1>1. /\ backlog \in Seq(Requests) /\ pending \in Seq(Requests)
      /\ Distinct(backlog) /\ Distinct(pending) /\ In(backlog) \cap In(pending) = {}
  BY DEF LInv, LaunchTypeOK, OnePlace
<1>2. /\ Head(backlog) \in In(backlog)
      /\ In(backlog') = In(backlog) \ {Head(backlog)}
      /\ Distinct(backlog')
      /\ backlog' \in Seq(Requests)
  BY <1>1, TailElements
<1>3. Head(backlog) \in Requests /\ Head(backlog) \notin In(pending)
  BY <1>1, <1>2
<1>4. In(connections) = In(pending) \cup {Head(backlog)} /\ Distinct(connections)
  BY <1>1, <1>3, AppendElements
<1>5. connections \in Seq(Requests)
  BY <1>1, <1>3
<1> QED BY <1>1, <1>2, <1>4, <1>5 DEF Held

LEMMA CloseStep ==
  ASSUME LInv, NEW text \in {"page", "missing", "blank"}, serving # None, CloseSocket(text),
         ports' = ports \/ (reading # None /\ ports' = [ports EXCEPT ![serving] = reading]),
         reading # None \/ Held = {},
         UNCHANGED <<backlog, pending, buffered, proc, missing, late>>
  PROVE  LInv'
<1>0. LaunchTypeOK /\ Fresh /\ OnePlace /\ OnePagePerProcess /\ Unconnected /\ Prompt
  BY DEF LInv
<1>1. /\ answer' = [answer EXCEPT ![serving] = text]
      /\ http' = [http EXCEPT ![serving] = "closed"]
      /\ serving' = None
      /\ reading' = None
  BY DEF CloseSocket
<1>2. serving \in Requests /\ Held' = Held /\ None \notin Held
  BY <1>0, HeldRequests, AppLaunchAssumption DEF LaunchTypeOK, Held, In
<1>3. LaunchTypeOK'
  BY <1>0, <1>1, <1>2 DEF LaunchTypeOK
<1>4. Fresh'
  BY <1>0, <1>1, <1>2 DEF LaunchTypeOK, Fresh
<1>5. \A r \in Requests : ports'[r] = ports[r] \/ (r = serving /\ ports'[r] = reading /\ reading # None)
  BY <1>0, <1>2 DEF LaunchTypeOK
<1>6. OnePlace'
  BY <1>0, <1>1, <1>2, <1>5 DEF OnePlace, Distinct, In
<1>7. OnePagePerProcess'
  BY <1>0, <1>5 DEF OnePlace, OnePagePerProcess
<1>8. Unconnected'
  BY <1>0, <1>1, <1>2, <1>5, AppLaunchAssumption DEF Unconnected
<1>9. Prompt'
  <2>1. ASSUME late = {} PROVE Held = {}
    BY <1>0, <2>1 DEF Prompt, OnePlace
  <2> QED BY <1>0, <1>1, <1>2, <1>5, <2>1 DEF Prompt
<1> QED BY <1>3, <1>4, <1>6, <1>7, <1>8, <1>9 DEF LInv

LEMMA LInvStep == LInv /\ [LaunchNext]_launchVars => LInv'
<1> SUFFICES ASSUME LInv, [LaunchNext]_launchVars PROVE LInv'
  OBVIOUS
<1> USE DEF LInv
<1>1. ASSUME NEW r \in Requests, NEW line \in Lines, Request(r, line) PROVE LInv'
  BY <1>1, RequestStep
<1>2. ASSUME NEW r \in Requests, BrowserConnects(r) PROVE LInv'
  <2>1. ports[r] \in Requests
    BY <1>2 DEF BrowserConnects, LaunchTypeOK
  <2> QED BY <1>2, <2>1, ProcStep DEF BrowserConnects, ProcStates, LaunchTypeOK
<1>3. ASSUME NEW r \in Requests, ReadClient(r) PROVE LInv'
  BY <1>3, ReadClientStep
<1>4. ASSUME NEW r \in Requests, FailsToStart(r) PROVE LInv'
  BY <1>4, ProcStep DEF FailsToStart, ProcStates, LaunchTypeOK
<1>5. ASSUME NEW r \in Requests, WrapperEnds(r) PROVE LInv'
  BY <1>5, ProcStep DEF WrapperEnds, ProcStates, LaunchTypeOK
<1>6. ASSUME NEW r \in Requests, Connect(r) PROVE LInv'
  BY <1>6, ConnectStep
<1>7. ASSUME NEW r \in Requests, Announce(r) PROVE LInv'
  BY <1>7, ProcStep DEF Announce, ProcStates, LaunchTypeOK
<1>8. ASSUME NEW r \in Requests, Ends(r) PROVE LInv'
  <2>1. CASE proc[r] \in HasWritten
    BY <1>8, <2>1, ProcStep DEF Ends, ProcStates, LaunchTypeOK
  <2>2. CASE proc[r] \notin HasWritten
    BY <1>8, <2>2, ProcStep DEF Ends, ProcStates, LaunchTypeOK
  <2> QED BY <2>1, <2>2
<1>9. CASE NewConnection
  <2>1. backlog # <<>> /\ backlog' = Tail(backlog) /\ Take(Append(pending, Head(backlog)))
    BY <1>9 DEF NewConnection
  <2> QED BY <1>9, <2>1, AcceptElements, TakeStep DEF NewConnection
<1>10. CASE TakeOldConnection
  <2>1. In(pending) \cup In(backlog') = Held /\ backlog' = backlog
    BY <1>10 DEF TakeOldConnection, Held
  <2>2. In(pending) \cap In(backlog) = {}
    BY DEF OnePlace
  <2> QED BY <1>10, <2>1, <2>2, TakeStep DEF TakeOldConnection, OnePlace, LaunchTypeOK
<1>11. ASSUME NEW r \in Requests PROVE Failure(r) \in {"page", "missing", "blank"}
  BY DEF Failure
<1>12. CASE NoConnection
  <2>1. Held = {}
    BY <1>12 DEF NoConnection, Held, In
  <2>2. serving \in Requests
    BY <1>12 DEF NoConnection, LaunchTypeOK
  <2> QED BY <1>11, <1>12, <2>1, <2>2, CloseStep DEF NoConnection
<1>13. CASE ReadPorts
  BY <1>13, CloseStep DEF ReadPorts, LaunchTypeOK
<1>14. CASE ReadFails
  <2>1. serving \in Requests /\ serving # None
    BY <1>14, AppLaunchAssumption DEF ReadFails, LaunchTypeOK
  <2> QED BY <1>11, <1>14, <2>1, CloseStep DEF ReadFails
<1>15. CASE AcceptIdle
  <2>1. backlog # <<>> /\ backlog' = Tail(backlog) /\ pending' = Append(pending, Head(backlog))
    BY <1>15 DEF AcceptIdle
  <2>2. /\ pending' \in Seq(Requests) /\ backlog' \in Seq(Requests)
        /\ Distinct(pending') /\ Distinct(backlog')
        /\ Held' = Held
        /\ In(backlog') \cap In(pending') = {}
    BY <2>1, AcceptElements DEF Held
  <2>3. UNCHANGED <<http, answer, ports, serving, reading, buffered, proc, missing, late>>
    BY <1>15 DEF AcceptIdle, server
  <2>4. LaunchTypeOK' /\ Fresh'
    BY <2>2, <2>3 DEF LaunchTypeOK, Fresh
  <2>5. OnePlace' /\ OnePagePerProcess' /\ Unconnected' /\ Prompt'
    BY <2>2, <2>3 DEF OnePlace, OnePagePerProcess, Unconnected, Prompt
  <2> QED BY <2>4, <2>5
<1>16. CASE ReadIdle
  <2>1. PICK i \in DOMAIN pending : buffered' = buffered \cup {pending[i]}
    BY <1>16 DEF ReadIdle
  <2>2. UNCHANGED <<http, answer, ports, serving, reading, backlog, pending, proc, missing, late>>
    BY <1>16 DEF ReadIdle, server
  <2>3. LaunchTypeOK' /\ Fresh'
    BY <2>1, <2>2 DEF LaunchTypeOK, Fresh
  <2>4. OnePlace' /\ OnePagePerProcess' /\ Unconnected' /\ Prompt'
    BY <2>2 DEF OnePlace, OnePagePerProcess, Unconnected, Prompt, Held, In, Distinct
  <2> QED BY <2>3, <2>4
<1>17. CASE UNCHANGED launchVars
  <2>1. UNCHANGED <<http, answer, ports, serving, reading, backlog, pending, buffered,
                    proc, missing, late>>
    BY <1>17 DEF launchVars, server
  <2>2. LaunchTypeOK' /\ Fresh'
    BY <2>1 DEF LaunchTypeOK, Fresh
  <2>3. OnePlace' /\ OnePagePerProcess' /\ Unconnected' /\ Prompt'
    BY <2>1 DEF OnePlace, OnePagePerProcess, Unconnected, Prompt, Held, In, Distinct
  <2> QED BY <2>2, <2>3
<1> QED
  BY <1>1, <1>2, <1>3, <1>4, <1>5, <1>6, <1>7, <1>8, <1>9, <1>10, <1>12, <1>13, <1>14,
     <1>15, <1>16, <1>17 DEF LaunchNext, SendCanvas

LEMMA LaunchInvariant == LaunchSpec => []LInv
BY InitLInv, LInvStep, PTL DEF LaunchSpec

-----------------------------------------------------------------------------

\* The variables keep their types.
THEOREM LaunchTypes == LaunchSpec => []LaunchTypeOK
<1>1. LInv => LaunchTypeOK
  BY DEF LInv
<1> QED BY <1>1, LaunchInvariant, PTL

\* While every process connects in time or never, every page has the ports of the process
\* started for it (HttpServer.cpp sendCanvas()).
THEOREM PromptPages == LaunchSpec => []PromptPagesMatch
<1>1. LInv => PromptPagesMatch
  BY DEF LInv, Prompt, PromptPagesMatch
<1> QED BY <1>1, LaunchInvariant, PTL

\* No two pages have the ports of one process, late or not.
THEOREM PortsOnce == LaunchSpec => []OnePagePerProcess
<1>1. LInv => OnePagePerProcess
  BY DEF LInv
<1> QED BY <1>1, LaunchInvariant, PTL

=============================================================================
