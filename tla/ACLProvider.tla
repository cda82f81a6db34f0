---------------------------- MODULE ACLProvider ----------------------------
(***************************************************************************)
(* The access lists of the launcher (src/src/server/ACLProvider.cpp and    *)
(* main.cpp).  Every run of kappstream-server is a process: without        *)
(* arguments it is the server, which reads the list file at its first      *)
(* request and asks isAccepted from then on; with arguments it reads the   *)
(* file, changes the lists and writes the file anew.  Nothing keeps two of *)
(* them from running at a time, and save() truncates the file before it    *)
(* writes it.  save() makes the directory of the file, the constructor     *)
(* does not: without the directory the first process reads nothing.        *)
(***************************************************************************)

CONSTANTS
  Names,      \* command lines of applications
  Testapp,    \* the name that createPermissionsFile accepts
  Processes   \* runs of kappstream-server

ASSUME ACLProviderAssumption == Testapp \in Names

\* What the file says and what an ACLProvider holds: which of the attributes "all" of
\* accepted and rejected are set (_acceptAll, _rejectAll), and the names of both.
Lists == [all : SUBSET {"accept", "reject"},
          accepted : SUBSET Names, rejected : SUBSET Names]

VARIABLES
  dir,     \* the directory of the file exists
  disk,    \* the file: absent, truncated, garbled by two writers, or whole
  file,    \* the lists in it; those of Closed unless it is whole
  step,    \* per process, where it is
  mem,     \* per process, its ACLProvider
  granted, \* history: names that accept commands named
  opened,  \* history: an accept-all command was given
  alone,   \* history: no other process was between its start and its end, none was
           \* killed and no save failed, since the last quiet state
  due      \* history: the verdicts the commands asked for, since the last quiet state,
           \* over those of the lists there were: the file's, those of a new file, or
           \* those of Closed if the file could not be made

history == <<granted, opened, alone, due>>
vars == <<dir, disk, file, step, mem, history>>

\* The lists of the constructor before it reads, and of a file that is no XML document.
Closed == [all |-> {"reject"}, accepted |-> {}, rejected |-> {}]

\* createPermissionsFile.  Its element "reject all" is not the one the constructor
\* looks for.
Installed == [all |-> {}, accepted |-> {Testapp}, rejected |-> {}]

InMode(l, mode) == [all |-> {mode}, accepted |-> l.accepted, rejected |-> l.rejected]

\* Mutant: applications are accepted unless the file says otherwise.
ParsedMutant(l) == InMode(l, IF "reject" \in l.all THEN "reject" ELSE "accept")

\* The constructor: the attribute of rejected has the last word, and without either
\* attribute the mode is reject-all.
Parsed(l) == InMode(l, IF l.all = {"accept"} THEN "accept" ELSE "reject")

IsAccepted(l, n) == IF "reject" \in l.all THEN n \in l.accepted ELSE n \notin l.rejected

-----------------------------------------------------------------------------
(* What an administrator means: a mode, and one verdict or none per name.  *)

Verdicts == {"none", "accepted", "rejected"}
Rules == [mode : {"accept", "reject"}, verdict : [Names -> Verdicts]]

RulesOf(l) ==
  [mode |-> IF "reject" \in l.all THEN "reject" ELSE "accept",
   verdict |-> [n \in Names |-> IF n \in l.accepted THEN "accepted"
                                ELSE IF n \in l.rejected THEN "rejected" ELSE "none"]]

Ruled(rules, n, v) ==
  [mode |-> rules.mode, verdict |-> [rules.verdict EXCEPT ![n] = v]]

RuledInMode(rules, mode) == [mode |-> mode, verdict |-> rules.verdict]

Allowed(rules, n) ==
  \/ rules.verdict[n] = "accepted"
  \/ rules.mode = "accept" /\ rules.verdict[n] = "none"

-----------------------------------------------------------------------------

Steps == {"off", "missing", "creating", "reading", "loaded", "saving", "writing", "serving"}

TypeOK ==
  /\ dir \in BOOLEAN
  /\ disk \in {"absent", "empty", "garbled", "whole"}
  /\ file \in Lists
  /\ step \in [Processes -> Steps]
  /\ mem \in [Processes -> Lists]
  /\ \A p \in Processes : mem[p].all \in {{"accept"}, {"reject"}}
  /\ granted \subseteq Names
  /\ opened \in BOOLEAN
  /\ alone \in BOOLEAN
  /\ due \in Rules

Init ==
  /\ dir \in BOOLEAN
  /\ disk = "absent"
  /\ file = Closed
  /\ step = [p \in Processes |-> "off"]
  /\ mem = [p \in Processes |-> Closed]
  /\ granted = {}
  /\ opened = FALSE
  /\ alone = TRUE
  /\ due = RulesOf(Parsed(Installed))

At(p, s) == step[p] = s
Goto(p, s) == step' = [step EXCEPT ![p] = s]

\* No process is between its start and its end, but for servers that have read the file.
Quiet == \A p \in Processes : step[p] \in {"off", "serving"}

-----------------------------------------------------------------------------
(* The constructor.                                                        *)

\* QFile::exists.
Start(p) ==
  /\ At(p, "off")
  /\ Goto(p, IF disk = "absent" THEN "missing" ELSE "reading")
  /\ alone' = Quiet
  /\ due' = RulesOf(Parsed(IF disk = "absent" THEN Installed ELSE file))
  /\ UNCHANGED <<dir, disk, file, mem, granted, opened>>

Truncate ==
  /\ disk' = "empty"
  /\ file' = Closed

\* The text goes to offset 0 of the file.  If another process has written since this
\* one truncated, the end of the longer text may stay behind the shorter one.
Write(l) ==
  \/ disk' = "whole" /\ file' = l
  \/ disk # "empty" /\ disk' = "garbled" /\ file' = Closed

CreateOpen(p) ==
  /\ At(p, "missing")
  /\ dir
  /\ Goto(p, "creating")
  /\ Truncate
  /\ UNCHANGED <<dir, mem, history>>

\* The file cannot be opened: the directory is missing, or something else stands in
\* the way.  The constructor goes on to read a file that is not there.
CreateFails(p) ==
  /\ At(p, "missing")
  /\ Goto(p, "reading")
  /\ due' = RulesOf(Parsed(file))
  /\ UNCHANGED <<dir, disk, file, mem, granted, opened, alone>>

CreateWrite(p) ==
  /\ At(p, "creating")
  /\ Goto(p, "reading")
  /\ Write(Installed)
  /\ UNCHANGED <<dir, mem, history>>

Load(p) ==
  /\ At(p, "reading")
  /\ Goto(p, "loaded")
  /\ mem' = [mem EXCEPT ![p] = Parsed(file)]
  /\ UNCHANGED <<dir, disk, file, history>>

-----------------------------------------------------------------------------
(* What main() does next.                                                  *)

WithAccepted(l, n) ==
  [all |-> l.all, accepted |-> l.accepted \cup {n}, rejected |-> l.rejected \ {n}]

\* accept x; the file is not written when x is accepted already.
Accept(p, n) ==
  /\ At(p, "loaded")
  /\ Goto(p, IF n \in mem[p].accepted THEN "off" ELSE "saving")
  /\ mem' = [mem EXCEPT ![p] = WithAccepted(mem[p], n)]
  /\ granted' = granted \cup {n}
  /\ due' = Ruled(due, n, "accepted")
  /\ UNCHANGED <<dir, disk, file, opened, alone>>

WithRejected(l, n) ==
  [all |-> l.all, accepted |-> l.accepted \ {n}, rejected |-> l.rejected \cup {n}]

\* reject x.
Reject(p, n) ==
  /\ At(p, "loaded")
  /\ Goto(p, IF n \in mem[p].rejected THEN "off" ELSE "saving")
  /\ mem' = [mem EXCEPT ![p] = WithRejected(mem[p], n)]
  /\ due' = Ruled(due, n, "rejected")
  /\ UNCHANGED <<dir, disk, file, granted, opened, alone>>

\* Mutant: the other mode is not left.
AcceptAllMutant(p) ==
  /\ At(p, "loaded")
  /\ Goto(p, "saving")
  /\ mem' = [mem EXCEPT ![p].all = @ \cup {"accept"}]
  /\ opened' = TRUE
  /\ due' = RuledInMode(due, "accept")
  /\ UNCHANGED <<dir, disk, file, granted, alone>>

AcceptAll(p) ==
  /\ At(p, "loaded")
  /\ Goto(p, "saving")
  /\ mem' = [mem EXCEPT ![p] = InMode(mem[p], "accept")]
  /\ opened' = TRUE
  /\ due' = RuledInMode(due, "accept")
  /\ UNCHANGED <<dir, disk, file, granted, alone>>

RejectAll(p) ==
  /\ At(p, "loaded")
  /\ Goto(p, "saving")
  /\ mem' = [mem EXCEPT ![p] = InMode(mem[p], "reject")]
  /\ due' = RuledInMode(due, "reject")
  /\ UNCHANGED <<dir, disk, file, granted, opened, alone>>

\* Any other arguments: the lists are printed.
PrintInfo(p) ==
  /\ At(p, "loaded")
  /\ Goto(p, "off")
  /\ UNCHANGED <<dir, disk, file, mem, history>>

\* The server answers requests by what it has read, until it stops.
Serve(p) ==
  /\ At(p, "loaded")
  /\ Goto(p, "serving")
  /\ UNCHANGED <<dir, disk, file, mem, history>>

-----------------------------------------------------------------------------
(* save().                                                                 *)

\* mkpath comes first.
SaveOpen(p) ==
  /\ At(p, "saving")
  /\ Goto(p, "writing")
  /\ dir' = TRUE
  /\ Truncate
  /\ UNCHANGED <<mem, history>>

\* The file cannot be opened, in a directory that was there, was made or was not.
SaveFails(p) ==
  /\ At(p, "saving")
  /\ Goto(p, "off")
  /\ dir' \in {dir, TRUE}
  /\ alone' = FALSE
  /\ UNCHANGED <<disk, file, mem, granted, opened, due>>

\* Mutant: the mode is not written.
SaveWriteMutant(p) ==
  /\ At(p, "writing")
  /\ Goto(p, "off")
  /\ Write([mem[p] EXCEPT !.all = {}])
  /\ UNCHANGED <<dir, mem, history>>

SaveWrite(p) ==
  /\ At(p, "writing")
  /\ Goto(p, "off")
  /\ Write(mem[p])
  /\ UNCHANGED <<dir, mem, history>>

\* The process is killed or stopped, the server too.
Kill(p) ==
  /\ ~ At(p, "off")
  /\ Goto(p, "off")
  /\ alone' = (alone /\ At(p, "serving"))
  /\ UNCHANGED <<dir, disk, file, mem, granted, opened, due>>

Run(p) ==
  \/ Start(p) \/ CreateOpen(p) \/ CreateFails(p) \/ CreateWrite(p) \/ Load(p)
  \/ \E n \in Names : Accept(p, n) \/ Reject(p, n)
  \/ AcceptAll(p) \/ RejectAll(p) \/ PrintInfo(p) \/ Serve(p)
  \/ SaveOpen(p) \/ SaveFails(p) \/ SaveWrite(p)
  \/ Kill(p)

Next == \E p \in Processes : Run(p)

Spec == Init /\ [][Next]_vars

-----------------------------------------------------------------------------
(* Correctness.                                                            *)

\* No list, in the file or in a process, has a name on both sides, however processes
\* overlap and die.  accept and reject return without saving when the name is on their
\* own list already: they rely on it not being on the other one.
OneVerdictPerName ==
  /\ file.accepted \cap file.rejected = {}
  /\ \A p \in Processes : mem[p].accepted \cap mem[p].rejected = {}

\* A lost update, a truncated file or a garbled one never lets an application run
\* that no command has allowed: what the readers make of a broken file is a closed
\* list.
NothingUngranted ==
  \A p \in Processes, n \in Names :
    At(p, "serving") /\ IsAccepted(mem[p], n) => opened \/ n \in granted \cup {Testapp}

\* Commands that run one at a time and are left to finish have the effect the
\* administrator asked for: the last verdict on a name holds, in both modes, and no
\* other name is touched.  What they start from is what the first of them found: the
\* file, a new file, which accepts testapp, or, where createPermissionsFile could not
\* make one (a missing directory), closed lists, on which testapp never comes by
\* itself.
LastVerdictHolds ==
  alone /\ Quiet /\ disk # "absent" =>
    \A n \in Names : IsAccepted(Parsed(file), n) <=> Allowed(due, n)

=============================================================================
