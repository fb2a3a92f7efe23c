--------------------------- MODULE ProfilingProofs ---------------------------
(***************************************************************************)
(* A profiling session with any number of tests and profile types and any  *)
(* number of restarts: which run the profile of a run may really be from,  *)
(* which steps alone may lose a profile, that every profile is analysed    *)
(* once, and that the link to the latest report leads to a whole one.  Inv *)
(* is the inductive invariant.                                             *)
(***************************************************************************)
EXTENDS Profiling, TLAPS

-------------------------------------------------------------------------------
(* The inductive invariant *)

InChild == pc \in {"child", "stat", "read", "write", "remove"}

\* The runs whose child may have been started.
Started(run) ==
    \/ run[1] < test
    \/ run[1] = test /\ run[2] < k
    \/ run = This /\ pc # "run"

\* A file in profiles has been left behind or is the one the child in hand has
\* created, which then has replaced what was left under its name.
FilesOK ==
    /\ \A name \in Names : \A f, g \in profiles[name] : f = g
    /\ \A name \in Names : \A f \in profiles[name] :
          f.left = "profiles" \/ (InChild /\ name = Name)
    /\ \A run \in opened : Started(run)
    /\ InChild => \A f \in profiles[Name] :
          IF This \in opened THEN f.run = This /\ f.left = "nowhere" ELSE f.left = "profiles"

\* The runs whose file may have been stored.
Past(run) ==
    \/ run[1] < test
    \/ run[1] = test /\ run[2] < k
    \/ run = This /\ pc \in {"remove", "next", "analyze", "report", "done"}

StoredOK ==
    /\ \A f \in stored : f.left = "session" \/ Past(f.at)
    /\ \A f, g \in stored : f.at = g.at => f = g
    /\ \A f \in stored : f.run # f.at => \/ f.left = "profiles" /\ f.at \notin opened
                                        \/ f.left = "session"

\* What is about to be removed has been copied.
CopyOK ==
    (pc = "remove" /\ ~writeErr) =>
        \A f \in profiles[Name] : f.whole =>
            \E g \in stored : g.at = This /\ g.run = f.run /\ g.whole

\* The results of this test so far.
ResultsOK ==
    /\ pc = "analyze" =>
          profileRuns = [j \in 1 .. Len(Types) |-> Run(test, j)] /\ analyzed \in 0 .. Len(Types)
    /\ pc # "analyze" => analyzed = 0
    /\ pc \in {"report", "done"} => test = NumTests
    /\ pc \in {"analyze", "report", "done"} => k = Len(Types)
    /\ pc \notin {"analyze", "report", "done"} =>
          profileRuns = [j \in 1 .. k - 1 |-> Run(test, j)]

\* The runs whose turn to be analysed has come.
Analyzed(run) ==
    \/ run[1] < test
    \/ pc \in {"report", "done"}
    \/ pc = "analyze" /\ run[1] = test /\ run[2] <= analyzed

AnalysesOK ==
    /\ \A i \in DOMAIN analyses : Analyzed(analyses[i].at)
    /\ \A i, j \in DOMAIN analyses : analyses[i].at = analyses[j].at => i = j
    /\ \A f \in stored : (Readable(f) /\ Analyzed(f.at)) =>
          f.at \in unread \/ \E i \in DOMAIN analyses : analyses[i] = f

\* The report in hand is whole before the link is touched.
ReportsOK ==
    /\ rpc \in {"idle", "execute", "unlink", "link", "returned"}
    /\ reports \in [Seconds -> {"none", "part", "whole"}]
    /\ rpc \in {"execute", "unlink", "link"} => stamp \in Seconds
    /\ rpc \in {"unlink", "link"} => reports[stamp] = "whole"
    /\ latest \in Seconds \cup {0}
    /\ LatestIsWhole

Inv ==
    /\ TypeOK
    /\ FilesOK
    /\ StoredOK
    /\ CopyOK
    /\ ResultsOK
    /\ AnalysesOK
    /\ ReportsOK

-------------------------------------------------------------------------------
(* Constants and runs *)

LEMMA Constants ==
  /\ NumTests \in Nat \ {0} /\ MaxSessions \in Nat \ {0}
  /\ Len(Types) \in Nat \ {0} /\ DOMAIN Types = 1 .. Len(Types)
BY ProfilingAssumption

\* The run in hand, and runs by their two parts.
LEMMA RunFacts ==
  ASSUME TypeOK
  PROVE  /\ This \in Runs /\ This[1] = test /\ This[2] = k
         /\ Name \in Names
         /\ \A run \in Runs : /\ run[1] \in 1 .. NumTests
                              /\ run[2] \in 1 .. Len(Types)
                              /\ run = Run(run[1], run[2])
         /\ test \in Nat /\ k \in Nat
<1>1. test \in 1 .. NumTests /\ k \in 1 .. Len(Types)
  BY DEF TypeOK
<1>2. This \in Runs /\ This[1] = test /\ This[2] = k
  BY <1>1 DEF This, Run, Runs
<1>3. Name \in Names
  BY <1>1, Constants DEF Name, Names
<1>4. ASSUME NEW run \in Runs
      PROVE  /\ run[1] \in 1 .. NumTests
             /\ run[2] \in 1 .. Len(Types)
             /\ run = Run(run[1], run[2])
  BY DEF Runs, Run
<1> QED
  BY <1>1, <1>2, <1>3, <1>4, Constants

LEMMA FileFacts ==
  ASSUME NEW run \in Runs, NEW whole \in BOOLEAN
  PROVE  /\ File(run, whole) \subseteq Files
         /\ \A f, g \in File(run, whole) : f = g
         /\ \A f \in File(run, whole) : f.run = run /\ f.whole = whole /\ f.left = "nowhere"
BY DEF File, Files

\* A file that is left behind differs in nothing else.
LEMMA LeftFacts ==
  ASSUME NEW f \in Files, NEW run \in Runs \cup {Earlier}
  PROVE  /\ LeftIn("profiles", run, f) = [run |-> run, whole |-> f.whole, left |-> "profiles"]
         /\ LeftIn("profiles", run, f) \in Files
<1> DEFINE g == LeftIn("profiles", run, f)
<1>1. g \in Files /\ g.run = run /\ g.left = "profiles" /\ g.whole = f.whole
  BY DEF LeftIn, Files
<1> HIDE DEF g
<1>2. g = [run |-> run, whole |-> f.whole, left |-> "profiles"]
  BY <1>1 DEF Files
<1> QED
  BY <1>1, <1>2 DEF g

\* A sequence all of whose elements lie in a set is one over that set.
LEMMA SeqOf ==
  ASSUME NEW S, NEW T, NEW s \in Seq(S), \A i \in DOMAIN s : s[i] \in T
  PROVE  s \in Seq(T)
OBVIOUS

-------------------------------------------------------------------------------
(* The parts of the invariant when their variables hardly change *)

Late == {"remove", "next", "analyze", "report", "done"}

LEMMA SameStored ==
  ASSUME StoredOK, UNCHANGED <<place, stored, opened>>, pc \in Late => pc' \in Late
  PROVE  StoredOK'
BY DEF StoredOK, Past, place, This, Run, Late

LEMMA SameResults ==
  ASSUME ResultsOK, UNCHANGED <<place, profileRuns, analyzed>>,
         pc \notin {"analyze", "report", "done"}, pc' \notin {"analyze", "report", "done"}
  PROVE  ResultsOK'
BY DEF ResultsOK, place, Run

\* Before the analysis of a test: what is stored meanwhile is of this test.
LEMMA SameAnalyses ==
  ASSUME TypeOK, AnalysesOK, UNCHANGED <<place, analyses, unread>>,
         \A f \in stored' \ stored : f.at = This,
         pc \notin {"analyze", "report", "done"}, pc' \notin {"analyze", "report", "done"}
  PROVE  AnalysesOK'
<1>1. \A run : Analyzed(run) <=> run[1] < test
  BY DEF Analyzed
<1>2. \A run : Analyzed(run)' <=> run[1] < test
  BY DEF Analyzed, place
<1>3. This[1] = test /\ test \in Nat
  BY RunFacts
<1> QED
  BY <1>1, <1>2, <1>3 DEF AnalysesOK, Readable

LEMMA SameReports == ASSUME ReportsOK, UNCHANGED reportVars PROVE ReportsOK'
BY DEF ReportsOK, LatestIsWhole, reportVars

\* A file is stored at the target, in place of what lies there.
LEMMA NewStored ==
  ASSUME Inv, pc \in {"stat", "write"}, pc' \in {"next", "remove"},
         UNCHANGED <<place, outcome, opened>>,
         NEW new, new \subseteq Stored, stored' = {f \in stored : f.at # This} \cup new,
         \A c \in new : c.at = This /\ \E f \in profiles[Name] : c.run = f.run /\ c.left = f.left,
         \A c, d \in new : c = d
  PROVE  /\ stored' \subseteq Stored /\ analyses' \in Seq(stored')
         /\ StoredOK' /\ ResultsOK' /\ AnalysesOK'
<1>1. This' = This /\ TypeOK /\ FilesOK /\ StoredOK /\ AnalysesOK
  BY DEF Inv, This, place
<1>2. \A f \in stored : f.left = "session" \/ Past(f.at)'
  BY <1>1 DEF StoredOK, Past, place
<1>3. \A c \in new : Past(c.at)'
  BY <1>1 DEF Past
<1>4. ASSUME NEW c \in new, c.run # c.at PROVE c.at \notin opened /\ c.left = "profiles"
  BY <1>1, <1>4 DEF FilesOK, InChild
<1>5. StoredOK'
  <2>1. \A f, g \in stored' : f.at = g.at => f = g
    BY <1>1 DEF StoredOK
  <2>2. \A f \in stored' : f.left = "session" \/ Past(f.at)'
    BY <1>2, <1>3
  <2>3. \A f \in stored' : f.run # f.at => \/ f.left = "profiles" /\ f.at \notin opened
                                           \/ f.left = "session"
    BY <1>1, <1>4 DEF StoredOK
  <2> QED
    BY <2>1, <2>2, <2>3 DEF StoredOK
<1>6. stored' \subseteq Stored
  BY <1>1 DEF TypeOK
\* Nothing of this test has been analysed.
<1>7. analyses' \in Seq(stored')
  <2>1. analyses \in Seq(stored)
    BY <1>1 DEF TypeOK
  <2>2. \A i \in DOMAIN analyses : Analyzed(analyses[i].at)
    BY <1>1 DEF AnalysesOK
  <2>3. \A i \in DOMAIN analyses : analyses[i] \in stored /\ analyses[i].at # This
    BY <1>1, <2>1, <2>2, RunFacts DEF Analyzed
  <2>4. \A i \in DOMAIN analyses : analyses[i] \in stored'
    BY <2>3
  <2> QED
    BY <2>1, <2>4, SeqOf DEF outcome
<1>8. AnalysesOK'
  BY <1>1, SameAnalyses DEF outcome
<1>9. ResultsOK'
  BY SameResults DEF Inv, outcome
<1> QED
  BY <1>5, <1>6, <1>7, <1>8, <1>9

\* The file in profiles as it is stored, whole if it was or cut short.
Copy == {[at |-> This, run |-> f.run, whole |-> f.whole, left |-> f.left] : f \in profiles[Name]}

Part == {[at |-> This, run |-> f.run, whole |-> FALSE, left |-> f.left] : f \in profiles[Name]}

LEMMA StoredWithIs ==
  ASSUME TypeOK
  PROVE  /\ StoredWith(TRUE) = {f \in stored : f.at # This} \cup Copy
         /\ StoredWith(FALSE) = {f \in stored : f.at # This} \cup Part
<1>1. profiles[Name] \subseteq Files
  BY RunFacts DEF TypeOK
<1>2. \A f \in profiles[Name] : f.whole \in BOOLEAN
  BY <1>1 DEF Files
<1>3. \A f \in profiles[Name] : (f.whole /\ TRUE) = f.whole
  BY <1>2
<1>4. \A f \in profiles[Name] : (f.whole /\ FALSE) = FALSE
  OBVIOUS
<1>5. {[at |-> This, run |-> f.run, whole |-> f.whole /\ TRUE, left |-> f.left] : f \in profiles[Name]} = Copy
  BY <1>3, Zenon DEF Copy
<1>6. {[at |-> This, run |-> f.run, whole |-> f.whole /\ FALSE, left |-> f.left] : f \in profiles[Name]} = Part
  BY <1>4, Zenon DEF Part
<1> QED
  BY <1>5, <1>6, Zenon DEF StoredWith, Target

LEMMA CopyFacts ==
  ASSUME TypeOK, FilesOK, NEW new \in {Copy, Part}
  PROVE  /\ new \subseteq Stored
         /\ \A c \in new : c.at = This /\ \E f \in profiles[Name] : c.run = f.run /\ c.left = f.left
         /\ \A c, d \in new : c = d
         /\ \A f \in profiles[Name] : f.whole =>
               \E g \in Copy : g.at = This /\ g.run = f.run /\ g.whole
<1>1. /\ Name \in Names /\ This \in Runs /\ profiles[Name] \subseteq Files
      /\ \A f, g \in profiles[Name] : f = g
  BY RunFacts DEF TypeOK, FilesOK
<1>2. ASSUME NEW f \in profiles[Name], NEW whole \in BOOLEAN
      PROVE  [at |-> This, run |-> f.run, whole |-> whole, left |-> f.left] \in Stored
  BY <1>1 DEF Files, Stored
<1>3. Copy \subseteq Stored /\ Part \subseteq Stored
  <2>1. \A f \in profiles[Name] : f.whole \in BOOLEAN
    BY <1>1 DEF Files
  <2> QED
    BY <1>2, <2>1 DEF Copy, Part
<1>4. \A c \in Copy \cup Part : c.at = This /\ \E f \in profiles[Name] : c.run = f.run /\ c.left = f.left
  BY DEF Copy, Part
<1>5. (\A c, d \in Copy : c = d) /\ (\A c, d \in Part : c = d)
  BY <1>1 DEF Copy, Part
<1>6. ASSUME NEW f \in profiles[Name], f.whole
      PROVE  \E g \in Copy : g.at = This /\ g.run = f.run /\ g.whole
  <2>1. [at |-> This, run |-> f.run, whole |-> f.whole, left |-> f.left] \in Copy
    BY DEF Copy
  <2> QED
    BY <1>6, <2>1
<1> QED
  BY <1>3, <1>4, <1>5, <1>6

-------------------------------------------------------------------------------
(* Reports *)

LEMMA ReportStep ==
  ASSUME ReportsOK, NEW second \in Seconds, GenerateReport(second)
  PROVE  ReportsOK'
<1>1. CASE CreateReport(second)
  BY <1>1 DEF CreateReport, ReportsOK, LatestIsWhole
<1>2. CASE Fail("idle") \/ Fail("execute")
  BY <1>2 DEF Fail, ReportsOK, LatestIsWhole
<1>3. CASE ExecuteTemplate
  BY <1>3 DEF ExecuteTemplate, ReportsOK, LatestIsWhole
<1>4. CASE RemoveLatest
  BY <1>4 DEF RemoveLatest, ReportsOK, LatestIsWhole
<1>5. CASE LinkLatest
  BY <1>5 DEF LinkLatest, ReportsOK, LatestIsWhole
<1> QED
  BY <1>1, <1>2, <1>3, <1>4, <1>5 DEF GenerateReport

-------------------------------------------------------------------------------
(* The initial state and the steps that only go on *)

LEMMA InitInv == Init => Inv
<1> SUFFICES ASSUME Init PROVE Inv
  OBVIOUS
<1>1. ASSUME NEW name \in Names
      PROVE  /\ profiles[name] \subseteq Files
             /\ \A f, g \in profiles[name] : f = g
             /\ \A f \in profiles[name] : f.left = "profiles"
  <2> DEFINE old == LeftIn("profiles", Earlier, [run |-> Earlier, whole |-> TRUE, left |-> "nowhere"])
  <2>1. profiles[name] = {} \/ profiles[name] = {old}
    BY DEF Init, NoFile, File
  <2>2. [run |-> Earlier, whole |-> TRUE, left |-> "nowhere"] \in Files
    BY DEF Files
  <2>3. old \in Files /\ old.left = "profiles"
    BY <2>2, LeftFacts
  <2> HIDE DEF old
  <2> QED
    BY <2>1, <2>3
<1>2. TypeOK
  <2>1. profiles \in [Names -> SUBSET Files]
    <3>1. profiles \in [Names -> {NoFile, {LeftIn("profiles", Earlier, f) : f \in File(Earlier, TRUE)}}]
      BY DEF Init
    <3> QED
      BY <1>1, <3>1
  <2>2. analyses \in Seq(stored)
    BY DEF Init, NoFile
  <2>3. session \in 1 .. MaxSessions /\ test \in 1 .. NumTests /\ k \in 1 .. Len(Types)
    BY Constants DEF Init
  <2> QED
    BY <2>1, <2>2, <2>3 DEF Init, TypeOK, NoFile
<1>3. FilesOK
  BY <1>1 DEF Init, FilesOK, InChild
<1>4. StoredOK /\ CopyOK
  BY DEF Init, StoredOK, CopyOK, NoFile
<1>5. ResultsOK
  <2>1. 1 .. 0 = {}
    OBVIOUS
  <2>2. profileRuns = [j \in 1 .. k - 1 |-> Run(test, j)]
    BY <2>1 DEF Init
  <2> QED
    BY <2>2 DEF Init, ResultsOK
<1>6. AnalysesOK
  BY DEF Init, AnalysesOK, NoFile
<1>7. ReportsOK
  BY DEF Init, ReportsInit, ReportsOK, LatestIsWhole
<1> QED
  BY <1>2, <1>3, <1>4, <1>5, <1>6, <1>7 DEF Inv

\* StartChild, ChildEnds, NoProfile, RenameFails and ReadOriginal.
LEMMA GoOnInv ==
  ASSUME Inv, UNCHANGED <<place, profiles, stored, writeErr, outcome, opened, reportVars>>,
         \/ pc = "run" /\ pc' = "child"
         \/ pc = "child" /\ pc' = "stat"
         \/ pc = "stat" /\ pc' = "next" /\ profiles[Name] = NoFile
         \/ pc = "stat" /\ pc' = "read"
         \/ pc = "read" /\ pc' = "write"
  PROVE  Inv'
<1>1. TypeOK'
  BY DEF Inv, TypeOK, place, outcome
<1>2. FilesOK'
  <2>1. This' = This /\ Name' = Name /\ Name \in Names
    BY RunFacts DEF Inv, place, This, Name
  <2>2. pc = "run" => This \notin opened
    BY RunFacts DEF Inv, FilesOK, Started
  <2>3. \A run \in opened : Started(run)'
    BY <2>1 DEF Inv, FilesOK, Started, place
  <2>4. \A name \in Names : \A f, g \in profiles[name] : f = g
    BY DEF Inv, FilesOK
  <2>5. ASSUME NEW name \in Names, NEW f \in profiles[name]
        PROVE  f.left = "profiles" \/ (InChild' /\ name = Name)
    BY DEF Inv, FilesOK, InChild, NoFile
  <2>6. InChild' => \A f \in profiles[Name] :
            IF This \in opened THEN f.run = This /\ f.left = "nowhere" ELSE f.left = "profiles"
    BY <2>1, <2>2 DEF Inv, FilesOK, InChild
  <2> QED
    BY <2>1, <2>3, <2>4, <2>5, <2>6 DEF FilesOK
<1>3. StoredOK' /\ CopyOK'
  BY SameStored DEF Inv, Late, CopyOK
<1>4. ResultsOK' /\ AnalysesOK'
  BY SameResults, SameAnalyses DEF Inv, outcome
<1>5. ReportsOK'
  BY SameReports DEF Inv
<1> QED
  BY <1>1, <1>2, <1>3, <1>4, <1>5 DEF Inv

-------------------------------------------------------------------------------
(* The child and its file *)

\* The child's file replaces what lies in profiles under its name.
LEMMA NewFile ==
  ASSUME TypeOK, FilesOK, NEW whole \in BOOLEAN, pc = "child", pc' = pc,
         UNCHANGED place, opened' = opened \cup {This},
         profiles' = [profiles EXCEPT ![Name] = File(This, whole)]
  PROVE  profiles' \in [Names -> SUBSET Files] /\ FilesOK'
<1>1. This \in Runs /\ Name \in Names /\ This' = This /\ Name' = Name
  BY RunFacts DEF place, This, Name
<1>2. File(This, whole) \in SUBSET Files
  BY <1>1, FileFacts
<1>3. /\ profiles' \in [Names -> SUBSET Files]
      /\ profiles'[Name] = File(This, whole)
      /\ \A name \in Names : name # Name => profiles'[name] = profiles[name]
  BY <1>1, <1>2 DEF TypeOK
<1>4. ASSUME NEW name \in Names
      PROVE  /\ \A f, g \in profiles'[name] : f = g
             /\ \A f \in profiles'[name] : f.left = "profiles" \/ name = Name
  BY <1>1, <1>3, FileFacts DEF FilesOK
<1>5. \A run \in opened' : Started(run)'
  BY <1>1 DEF FilesOK, Started, place
<1>6. \A f \in profiles'[Name] : f.run = This /\ f.left = "nowhere"
  BY <1>1, <1>3, FileFacts
<1> QED
  BY <1>1, <1>3, <1>4, <1>5, <1>6 DEF FilesOK, InChild

LEMMA OpenProfileInv == ASSUME Inv, OpenProfile, UNCHANGED reportVars PROVE Inv'
<1>1. /\ TypeOK /\ pc = "child" /\ This \notin opened /\ opened' = opened \cup {This}
      /\ UNCHANGED <<place, pc, stored, writeErr, outcome>>
      /\ profiles' = [profiles EXCEPT ![Name] = File(This, FALSE)]
  BY DEF Inv, OpenProfile
<1>2. FilesOK' /\ profiles' \in [Names -> SUBSET Files]
  BY <1>1, NewFile DEF Inv
<1>3. TypeOK'
  BY <1>1, <1>2, RunFacts DEF TypeOK, place, outcome
<1>4. StoredOK' /\ CopyOK'
  <2>1. \A f \in stored : f.at = This => f.left = "session"
    BY <1>1, RunFacts DEF Inv, StoredOK, Past
  <2> QED
    BY <1>1, <2>1 DEF Inv, StoredOK, CopyOK, Past, place, This, Run
<1>5. ResultsOK' /\ AnalysesOK'
  BY <1>1, SameResults, SameAnalyses DEF Inv, outcome
<1>6. ReportsOK'
  BY SameReports DEF Inv
<1> QED
  BY <1>2, <1>3, <1>4, <1>5, <1>6 DEF Inv

LEMMA WriteProfileInv == ASSUME Inv, WriteProfile, UNCHANGED reportVars PROVE Inv'
<1>1. /\ TypeOK /\ pc = "child" /\ This \in opened
      /\ UNCHANGED <<place, pc, stored, writeErr, outcome, opened>>
      /\ profiles' = [profiles EXCEPT ![Name] = File(This, TRUE)]
  BY DEF Inv, WriteProfile
<1>2. FilesOK' /\ profiles' \in [Names -> SUBSET Files]
  <2>1. opened' = opened \cup {This}
    BY <1>1
  <2> QED
    BY <1>1, <2>1, NewFile DEF Inv
<1>3. TypeOK'
  BY <1>1, <1>2 DEF TypeOK, place, outcome
<1>4. StoredOK' /\ CopyOK'
  BY <1>1, SameStored DEF Inv, CopyOK
<1>5. ResultsOK' /\ AnalysesOK'
  BY <1>1, SameResults, SameAnalyses DEF Inv, outcome
<1>6. ReportsOK'
  BY SameReports DEF Inv
<1> QED
  BY <1>2, <1>3, <1>4, <1>5, <1>6 DEF Inv

-------------------------------------------------------------------------------
(* The move into the session *)

\* The file is no longer in profiles, or is said to be left there.
LEMMA FileGone ==
  ASSUME TypeOK, FilesOK, pc \in {"stat", "read", "remove"}, pc' = "next",
         UNCHANGED <<place, opened>>,
         profiles' = [profiles EXCEPT ![Name] = NoFile] \/ LeaveOriginal
  PROVE  profiles' \in [Names -> SUBSET Files] /\ FilesOK'
<1>1. Name \in Names /\ This' = This /\ Name' = Name /\ ~InChild'
  BY RunFacts DEF place, This, Name, InChild
<1>2. \A run \in opened : Started(run)'
  BY <1>1 DEF FilesOK, Started, place
<1>3. PICK new \in SUBSET Files :
          /\ profiles' = [profiles EXCEPT ![Name] = new]
          /\ \A f, g \in new : f = g
          /\ \A f \in new : f.left = "profiles"
  <2>1. CASE profiles' = [profiles EXCEPT ![Name] = NoFile]
    <3>1. NoFile \in SUBSET Files /\ (\A f, g \in NoFile : f = g) /\ \A f \in NoFile : f.left = "profiles"
      BY DEF NoFile
    <3> QED
      BY <2>1, <3>1
  <2>2. CASE LeaveOriginal
    <3> DEFINE new == {LeftIn("profiles", f.run, f) : f \in profiles[Name]}
    <3>1. profiles' = [profiles EXCEPT ![Name] = new]
      BY <1>1, <2>2 DEF LeaveOriginal, TypeOK
    <3>2. \A f \in profiles[Name] : /\ LeftIn("profiles", f.run, f) \in Files
                                    /\ LeftIn("profiles", f.run, f).left = "profiles"
      <4>1. \A f \in profiles[Name] : f \in Files /\ f.run \in Runs \cup {Earlier}
        BY <1>1 DEF TypeOK, Files
      <4> QED
        BY <4>1, LeftFacts
    <3>3. \A f, g \in profiles[Name] : f = g
      BY <1>1 DEF FilesOK
    <3>4. /\ new \in SUBSET Files
          /\ \A f, g \in new : f = g
          /\ \A f \in new : f.left = "profiles"
      BY <3>2, <3>3
    <3> HIDE DEF new
    <3> QED
      BY <3>1, <3>4
  <2> QED
    BY <2>1, <2>2
<1>4. /\ profiles' \in [Names -> SUBSET Files]
      /\ profiles'[Name] = new
      /\ \A name \in Names : name # Name => profiles'[name] = profiles[name]
  BY <1>1, <1>3 DEF TypeOK
<1>5. ASSUME NEW name \in Names
      PROVE  /\ \A f, g \in profiles'[name] : f = g
             /\ \A f \in profiles'[name] : f.left = "profiles"
  BY <1>3, <1>4 DEF FilesOK
<1> QED
  BY <1>1, <1>2, <1>4, <1>5 DEF FilesOK

LEMMA RenameInv == ASSUME Inv, Rename, UNCHANGED reportVars PROVE Inv'
<1>1. /\ TypeOK /\ FilesOK /\ pc = "stat" /\ pc' = "next"
      /\ stored' = {f \in stored : f.at # This} \cup Copy
      /\ profiles' = [profiles EXCEPT ![Name] = NoFile]
      /\ UNCHANGED <<place, writeErr, outcome, opened>>
  BY StoredWithIs DEF Inv, Rename
<1>2. FilesOK' /\ profiles' \in [Names -> SUBSET Files]
  BY <1>1, FileGone
<1>3. stored' \subseteq Stored /\ analyses' \in Seq(stored') /\ StoredOK' /\ ResultsOK' /\ AnalysesOK'
  BY <1>1, CopyFacts, NewStored
<1>4. TypeOK'
  BY <1>1, <1>2, <1>3 DEF TypeOK, place, outcome
<1>5. CopyOK' /\ ReportsOK'
  BY <1>1, SameReports DEF Inv, CopyOK
<1> QED
  BY <1>2, <1>3, <1>4, <1>5 DEF Inv

LEMMA ReadFailsInv == ASSUME Inv, ReadFails, UNCHANGED reportVars PROVE Inv'
<1>1. /\ TypeOK /\ FilesOK /\ pc = "read" /\ pc' = "next" /\ LeaveOriginal
      /\ UNCHANGED <<place, stored, writeErr, outcome, opened>>
  BY DEF Inv, ReadFails
<1>2. FilesOK' /\ profiles' \in [Names -> SUBSET Files]
  BY <1>1, FileGone
<1>3. TypeOK'
  BY <1>1, <1>2 DEF TypeOK, place, outcome
<1>4. StoredOK' /\ CopyOK'
  BY <1>1, SameStored DEF Inv, Late, CopyOK
<1>5. ResultsOK' /\ AnalysesOK'
  BY <1>1, SameResults, SameAnalyses DEF Inv, outcome
<1>6. ReportsOK'
  BY SameReports DEF Inv
<1> QED
  BY <1>2, <1>3, <1>4, <1>5, <1>6 DEF Inv

LEMMA WriteTargetInv == ASSUME Inv, WriteTarget, UNCHANGED reportVars PROVE Inv'
<1>1. /\ TypeOK /\ FilesOK /\ pc = "write" /\ pc' = "remove"
      /\ UNCHANGED <<place, profiles, outcome, opened>>
  BY DEF Inv, WriteTarget
<1>2. \/ stored' = {f \in stored : f.at # This} \cup Copy /\ writeErr' = FALSE
      \/ stored' = {f \in stored : f.at # This} \cup Part /\ writeErr' = TRUE
      \/ stored' = stored /\ writeErr' = TRUE
  BY <1>1, StoredWithIs DEF WriteTarget
<1>3. stored' \subseteq Stored /\ analyses' \in Seq(stored') /\ StoredOK' /\ ResultsOK' /\ AnalysesOK'
  <2>1. CASE stored' = stored
    <3>1. stored' \subseteq Stored /\ analyses' \in Seq(stored')
      BY <1>1, <2>1 DEF TypeOK, outcome
    <3>2. StoredOK'
      BY <1>1, <2>1, SameStored DEF Inv, Late
    <3>3. ResultsOK' /\ AnalysesOK'
      BY <1>1, <2>1, SameResults, SameAnalyses DEF Inv, outcome
    <3> QED
      BY <3>1, <3>2, <3>3
  <2>2. ASSUME NEW new \in {Copy, Part}, stored' = {f \in stored : f.at # This} \cup new
        PROVE  stored' \subseteq Stored /\ analyses' \in Seq(stored') /\ StoredOK' /\ ResultsOK' /\ AnalysesOK'
    BY <1>1, <2>2, CopyFacts, NewStored
  <2> QED
    BY <1>2, <2>1, <2>2
<1>4. TypeOK'
  BY <1>1, <1>2, <1>3 DEF TypeOK, place, outcome
<1>5. This' = This /\ Name' = Name /\ InChild /\ InChild'
  BY <1>1 DEF place, This, Name, InChild
<1>6. FilesOK'
  <2>1. \A run \in opened : Started(run)'
    BY <1>1, <1>5 DEF FilesOK, Started, place
  <2> QED
    BY <1>1, <1>5, <2>1 DEF FilesOK
<1>7. CopyOK'
  BY <1>1, <1>2, <1>5, CopyFacts DEF CopyOK
<1>8. ReportsOK'
  BY SameReports DEF Inv
<1> QED
  BY <1>3, <1>4, <1>6, <1>7, <1>8 DEF Inv

LEMMA RemoveOriginalInv == ASSUME Inv, RemoveOriginal, UNCHANGED reportVars PROVE Inv'
<1>1. /\ TypeOK /\ FilesOK /\ pc = "remove" /\ pc' = "next" /\ writeErr' = FALSE
      /\ UNCHANGED <<place, stored, outcome, opened>>
      /\ profiles' = [profiles EXCEPT ![Name] = NoFile] \/ LeaveOriginal
  BY DEF Inv, RemoveOriginal
<1>2. FilesOK' /\ profiles' \in [Names -> SUBSET Files]
  BY <1>1, FileGone
<1>3. TypeOK'
  BY <1>1, <1>2 DEF TypeOK, place, outcome
<1>4. StoredOK' /\ CopyOK'
  BY <1>1, SameStored DEF Inv, Late, CopyOK
<1>5. ResultsOK' /\ AnalysesOK'
  BY <1>1, SameResults, SameAnalyses DEF Inv, outcome
<1>6. ReportsOK'
  BY SameReports DEF Inv
<1> QED
  BY <1>2, <1>3, <1>4, <1>5, <1>6 DEF Inv

-------------------------------------------------------------------------------
(* The loops *)

\* On to another type or test: no child is running, every run has been moved.
LEMMA OtherPlace ==
  ASSUME TypeOK, FilesOK, StoredOK, ~InChild, ~InChild', pc' # "remove",
         UNCHANGED <<profiles, stored, writeErr, opened>>,
         \A run \in Runs : Started(run) => Started(run)',
         \A run \in Runs : Past(run) => Past(run)'
  PROVE  FilesOK' /\ StoredOK' /\ CopyOK'
<1>1. FilesOK'
  BY DEF FilesOK, TypeOK
<1>2. StoredOK'
  <2>1. \A f \in stored : f.at \in Runs
    BY DEF TypeOK, Stored
  <2> QED
    BY <2>1 DEF StoredOK
<1>3. CopyOK'
  BY DEF CopyOK
<1> QED
  BY <1>1, <1>2, <1>3

LEMMA NextTypeInv == ASSUME Inv, NextType, UNCHANGED reportVars PROVE Inv'
<1>1. /\ TypeOK /\ ResultsOK /\ AnalysesOK /\ pc = "next" /\ profileRuns' = Append(profileRuns, This)
      /\ UNCHANGED <<session, test, profiles, stored, writeErr, analyzed, analyses, opened, unread>>
      /\ \/ k < Len(Types) /\ k' = k + 1 /\ pc' = "run"
         \/ k = Len(Types) /\ k' = k /\ pc' = "analyze"
  <2>1. k \in 1 .. Len(Types) /\ Len(Types) \in Nat
    BY Constants DEF Inv, TypeOK
  <2>2. CASE k < Len(Types)
    BY <2>2 DEF Inv, NextType
  <2>3. CASE k = Len(Types)
    BY <2>1, <2>3 DEF Inv, NextType
  <2> QED
    BY <2>1, <2>2, <2>3
<1>2. /\ test \in Nat /\ k \in 1 .. Len(Types) /\ Len(Types) \in Nat
      /\ \A run \in Runs : run[1] \in Nat /\ run[2] \in 1 .. Len(Types)
      /\ This[1] = test /\ This[2] = k
  <2>1. k \in 1 .. Len(Types) /\ Len(Types) \in Nat /\ test \in Nat
    <3>1. k \in 1 .. Len(Types)
      BY <1>1 DEF TypeOK
    <3>2. test \in Nat
      BY <1>1, RunFacts
    <3> QED
      BY <3>1, <3>2, Constants
  <2>2. \A run \in Runs : run[1] \in Nat /\ run[2] \in 1 .. Len(Types)
    BY <1>1, RunFacts, Constants
  <2>3. This[1] = test /\ This[2] = k
    BY <1>1, RunFacts
  <2> QED
    BY <2>1, <2>2, <2>3
<1>3. TypeOK'
  BY <1>1, <1>2 DEF TypeOK
<1>4. FilesOK' /\ StoredOK' /\ CopyOK'
  <2>1. \A run \in Runs : (Started(run) => Started(run)') /\ (Past(run) => Past(run)')
    BY <1>1, <1>2 DEF Started, Past, This
  <2> QED
    BY <1>1, <2>1, OtherPlace DEF Inv, InChild
<1>5. ResultsOK'
  <2>1. profileRuns = [j \in 1 .. k - 1 |-> Run(test, j)] /\ analyzed = 0
    BY <1>1 DEF ResultsOK
  <2>2. profileRuns' = [j \in 1 .. k |-> Run(test, j)]
    <3>1. profileRuns \in Seq(Runs \cup {This}) /\ Len(profileRuns) = k - 1
      <4>1. \A j \in 1 .. k - 1 : Run(test, j) \in Runs \cup {This}
        BY <1>1, <1>2 DEF Run, Runs, TypeOK
      <4> QED
        BY <4>1, <2>1, <1>2
    <3>2. /\ Len(profileRuns') = k /\ DOMAIN profileRuns' = 1 .. k
          /\ profileRuns'[k] = This
          /\ \A j \in 1 .. k - 1 : profileRuns'[j] = profileRuns[j]
      BY <1>1, <1>2, <3>1
    <3>3. profileRuns' \in Seq(Runs \cup {This})
      BY <1>1, <3>1
    <3>4. \A j \in 1 .. k : profileRuns'[j] = Run(test, j)
      BY <1>2, <2>1, <3>2 DEF This
    <3>5. profileRuns' = [j \in 1 .. k |-> profileRuns'[j]]
      BY <3>2, <3>3
    <3> QED
      BY <3>4, <3>5
  <2> QED
    BY <1>1, <1>2, <2>1, <2>2 DEF ResultsOK, Run
<1>6. AnalysesOK'
  <2>1. ASSUME NEW run \in Runs PROVE Analyzed(run) <=> Analyzed(run)'
    BY <1>1, <1>2 DEF Analyzed, ResultsOK
  <2>2. \A f \in stored : f.at \in Runs
    BY <1>1 DEF TypeOK, Stored
  <2>3. \A i \in DOMAIN analyses : analyses[i].at \in Runs
    BY <1>1, <2>2 DEF TypeOK
  <2> QED
    BY <1>1, <2>1, <2>2, <2>3 DEF AnalysesOK, Readable
<1>7. ReportsOK'
  BY SameReports DEF Inv
<1> QED
  BY <1>3, <1>4, <1>5, <1>6, <1>7 DEF Inv

LEMMA AnalyzeRunInv == ASSUME Inv, AnalyzeRun, UNCHANGED reportVars PROVE Inv'
<1>1. /\ TypeOK /\ ResultsOK /\ AnalysesOK /\ pc = "analyze" /\ pc' = "analyze"
      /\ UNCHANGED <<place, profiles, stored, writeErr, profileRuns, opened>>
      /\ analyzed' = analyzed + 1 /\ analyzed < Len(profileRuns)
  BY DEF Inv, AnalyzeRun, RunsToAnalyze
<1> DEFINE next == Run(test, analyzed + 1)
<1>2. /\ Len(Types) \in Nat /\ analyzed \in 0 .. Len(Types) - 1
      /\ profileRuns[analyzed + 1] = next
  <2>1. profileRuns = [j \in 1 .. Len(Types) |-> Run(test, j)] /\ analyzed \in 0 .. Len(Types)
    BY <1>1 DEF ResultsOK
  <2>2. Len(profileRuns) = Len(Types)
    BY <2>1, Constants
  <2>3. analyzed + 1 \in 1 .. Len(Types) /\ analyzed \in 0 .. Len(Types) - 1
    BY <1>1, <2>1, <2>2, Constants
  <2> QED
    BY <2>1, <2>3, Constants
<1>3. /\ \A run \in Runs : run[1] \in Nat /\ run[2] \in Nat /\ run = Run(run[1], run[2])
      /\ test \in Nat /\ next \in Runs
      /\ \A f \in stored : f.at \in Runs
      /\ analyses \in Seq(stored) /\ next[1] = test /\ next[2] = analyzed + 1
  <2>1. \A run \in Runs : run[1] \in Nat /\ run[2] \in Nat /\ run = Run(run[1], run[2])
    BY <1>1, RunFacts, Constants
  <2>2. test \in Nat
    BY <1>1, RunFacts
  <2>3. next \in Runs
    BY <1>1, <1>2 DEF TypeOK, Run, Runs
  <2> QED
    BY <1>1, <2>1, <2>2, <2>3 DEF TypeOK, Run, Stored
\* What the step adds to the runs whose turn has come.
<1>4. ASSUME NEW run \in Runs PROVE Analyzed(run)' <=> (Analyzed(run) \/ run = next)
  <2>1. Analyzed(run)' <=> (run[1] < test \/ (run[1] = test /\ run[2] <= analyzed + 1))
    BY <1>1 DEF Analyzed, place
  <2>2. Analyzed(run) <=> (run[1] < test \/ (run[1] = test /\ run[2] <= analyzed))
    BY <1>1 DEF Analyzed
  <2>3. run[1] \in Nat /\ run[2] \in Nat /\ run = Run(run[1], run[2])
    BY <1>3
  <2>4. (run[1] = test /\ run[2] = analyzed + 1) <=> run = next
    BY <1>3, <2>3
  <2> HIDE DEF next
  <2> QED
    BY <1>2, <1>3, <2>1, <2>2, <2>3, <2>4
<1>5. ~Analyzed(next)
  BY <1>1, <1>2, <1>3 DEF Analyzed
<1> HIDE DEF next
<1>6. analyses' \in Seq(stored) /\ unread' \subseteq Runs /\ AnalysesOK'
  <2> DEFINE readable == {f \in stored : f.at = next /\ Readable(f)}
  <2>1. \/ readable = {} /\ UNCHANGED <<analyses, unread>>
        \/ readable # {} /\ unread' = unread \cup {next} /\ UNCHANGED analyses
        \/ \E f \in readable : analyses' = Append(analyses, f) /\ UNCHANGED unread
    BY <1>2 DEF AnalyzeRun, RunsToAnalyze
  <2>2. \A i \in DOMAIN analyses : analyses[i] \in stored /\ analyses[i].at \in Runs
    BY <1>3
  <2>3. \A f \in stored : Readable(f)' <=> Readable(f)
    BY DEF Readable
  <2>4. unread \subseteq Runs
    BY <1>1 DEF TypeOK
  <2>5. CASE readable = {} /\ UNCHANGED <<analyses, unread>>
    BY <1>1, <1>3, <1>4, <2>2, <2>3, <2>4, <2>5 DEF AnalysesOK
  <2>6. CASE unread' = unread \cup {next} /\ UNCHANGED analyses
    BY <1>1, <1>3, <1>4, <2>2, <2>3, <2>4, <2>6 DEF AnalysesOK
  <2>7. ASSUME NEW f \in readable, analyses' = Append(analyses, f), UNCHANGED unread
        PROVE  analyses' \in Seq(stored) /\ AnalysesOK'
    <3>1. f \in stored /\ f.at = next
      OBVIOUS
    <3> HIDE DEF readable
    <3> DEFINE m == Len(analyses)
    <3>2. /\ m \in Nat /\ DOMAIN analyses = 1 .. m
          /\ analyses' \in Seq(stored) /\ DOMAIN analyses' = 1 .. m + 1
          /\ analyses'[m + 1] = f
          /\ \A i \in 1 .. m : analyses'[i] = analyses[i]
      BY <1>3, <2>7, <3>1
    <3> HIDE DEF m
    <3>3. ASSUME NEW i \in 1 .. m PROVE analyses[i].at # next
      <4>1. Analyzed(analyses[i].at)
        BY <1>1, <3>2 DEF AnalysesOK
      <4> QED
        BY <1>5, <4>1
    <3>4. \A i \in DOMAIN analyses' : Analyzed(analyses[i].at)'
      <4>1. \A i \in 1 .. m + 1 : \E run \in Runs : run = analyses'[i].at /\ Analyzed(run)'
        <5>1. ASSUME NEW i \in 1 .. m PROVE \E run \in Runs : run = analyses'[i].at /\ Analyzed(run)'
          <6>1. PICK run \in Runs : run = analyses[i].at
            BY <2>2, <3>2
          <6>2. Analyzed(run)
            BY <1>1, <3>2, <6>1 DEF AnalysesOK
          <6> QED
            BY <1>4, <3>2, <6>1, <6>2
        <5>2. f.at \in Runs /\ Analyzed(f.at)'
          BY <1>3, <1>4, <3>1
        <5> QED
          BY <3>2, <5>1, <5>2
      <4> SUFFICES ASSUME NEW i \in DOMAIN analyses' PROVE Analyzed(analyses[i].at)'
        OBVIOUS
      <4>2. PICK run \in Runs : run = analyses'[i].at /\ Analyzed(run)'
        BY <3>2, <4>1
      <4> QED
        BY <4>2 DEF Analyzed
    <3>5. \A i, j \in 1 .. m + 1 : analyses'[i].at = analyses'[j].at => i = j
      <4>1. \A i, j \in 1 .. m : analyses[i].at = analyses[j].at => i = j
        BY <1>1, <3>2 DEF AnalysesOK
      <4> QED
        BY <3>1, <3>2, <3>3, <4>1
    <3>6. ASSUME NEW g \in stored, Readable(g), Analyzed(g.at)'
          PROVE  g.at \in unread \/ \E i \in 1 .. m + 1 : analyses'[i] = g
      <4>1. CASE g.at = next
        <5>1. g = f
          BY <3>1, <4>1 DEF Inv, StoredOK
        <5> QED
          BY <3>2, <5>1
      <4>2. CASE g.at # next
        <5>1. Analyzed(g.at)
          BY <1>3, <1>4, <3>6, <4>2
        <5>2. g.at \in unread \/ \E i \in 1 .. m : analyses[i] = g
          BY <1>1, <3>2, <3>6, <5>1 DEF AnalysesOK
        <5> QED
          BY <3>2, <5>2
      <4> QED
        BY <4>1, <4>2
    <3> QED
      BY <1>1, <2>3, <2>7, <3>2, <3>4, <3>5, <3>6 DEF AnalysesOK
  <2> QED
    BY <1>3, <2>1, <2>4, <2>5, <2>6, <2>7
<1>7. TypeOK'
  BY <1>1, <1>6 DEF TypeOK, place
<1>8. FilesOK'
  <2>1. This' = This /\ Name' = Name
    BY <1>1 DEF place, This, Name
  <2>2. \A run \in opened : Started(run)'
    BY <1>1, <2>1 DEF Inv, FilesOK, Started, place
  <2> QED
    BY <1>1, <2>1, <2>2 DEF Inv, FilesOK, InChild
<1>9. StoredOK' /\ CopyOK'
  BY <1>1, SameStored DEF Inv, Late, CopyOK
<1>10. ResultsOK'
  BY <1>1, <1>2 DEF ResultsOK, place, Run
<1>11. ReportsOK'
  BY SameReports DEF Inv
<1> QED
  BY <1>6, <1>7, <1>8, <1>9, <1>10, <1>11 DEF Inv

LEMMA NextTestInv == ASSUME Inv, NextTest, UNCHANGED reportVars PROVE Inv'
<1>1. /\ TypeOK /\ ResultsOK /\ AnalysesOK /\ pc = "analyze" /\ profileRuns' = <<>> /\ analyzed' = 0
      /\ analyzed = Len(profileRuns)
      /\ UNCHANGED <<session, profiles, stored, writeErr, analyses, opened, unread>>
  BY DEF Inv, NextTest, RunsToAnalyze
<1>2. \/ test < NumTests /\ test' = test + 1 /\ k' = 1 /\ pc' = "run"
      \/ test = NumTests /\ test' = test /\ k' = k /\ pc' = "report"
  <2>1. test \in 1 .. NumTests /\ NumTests \in Nat
    BY <1>1, Constants DEF TypeOK
  <2>2. CASE test < NumTests
    BY <2>2 DEF NextTest
  <2>3. CASE test = NumTests
    BY <2>1, <2>3 DEF NextTest
  <2> QED
    BY <2>1, <2>2, <2>3
<1>3. /\ \A run \in Runs : run[1] \in 1 .. NumTests /\ run[2] \in 1 .. Len(Types)
      /\ test \in 1 .. NumTests /\ NumTests \in Nat /\ Len(Types) \in Nat \ {0}
      /\ k = Len(Types) /\ analyzed = Len(Types)
      /\ This[1] = test
  <2>1. \A run \in Runs : run[1] \in 1 .. NumTests /\ run[2] \in 1 .. Len(Types)
    BY <1>1, RunFacts
  <2>2. This[1] = test
    BY <1>1, RunFacts
  <2>3. profileRuns = [j \in 1 .. Len(Types) |-> Run(test, j)] /\ k = Len(Types)
    BY <1>1 DEF ResultsOK
  <2>4. Len(profileRuns) = Len(Types)
    BY <2>3, Constants
  <2>5. test \in 1 .. NumTests
    BY <1>1 DEF TypeOK
  <2> QED
    BY <1>1, <2>1, <2>2, <2>3, <2>4, <2>5, Constants
<1>4. TypeOK'
  <2>1. test' \in 1 .. NumTests /\ k' \in 1 .. Len(Types)
    BY <1>2, <1>3
  <2> QED
    BY <1>1, <1>2, <2>1 DEF TypeOK
<1>5. FilesOK' /\ StoredOK' /\ CopyOK'
  <2>1. \A run \in Runs : (Started(run) => Started(run)') /\ (Past(run) => Past(run)')
    <3>1. CASE test' = test + 1
      BY <1>1, <1>3, <3>1 DEF Started, Past
    <3>2. CASE pc' = "report" /\ test' = test /\ k' = k
      BY <1>1, <1>3, <3>2 DEF Started, Past, This
    <3> QED
      BY <1>2, <3>1, <3>2
  <2> QED
    BY <1>1, <1>2, <2>1, OtherPlace DEF Inv, InChild
<1>6. ResultsOK'
  <2>1. CASE pc' = "report" /\ test' = test /\ k' = k
    BY <1>1, <1>2, <1>3, <2>1 DEF ResultsOK
  <2>2. CASE pc' = "run" /\ k' = 1
    <3>1. 1 .. k' - 1 = {}
      BY <2>2
    <3>2. profileRuns' = [j \in 1 .. k' - 1 |-> Run(test', j)]
      BY <1>1, <3>1
    <3> QED
      BY <1>1, <2>2, <3>2 DEF ResultsOK
  <2> QED
    BY <1>2, <2>1, <2>2
<1>7. AnalysesOK'
  <2>1. ASSUME NEW run \in Runs PROVE Analyzed(run) <=> Analyzed(run)'
    BY <1>1, <1>2, <1>3 DEF Analyzed
  <2>2. \A f \in stored : f.at \in Runs
    BY <1>1 DEF TypeOK, Stored
  <2>3. \A i \in DOMAIN analyses : analyses[i].at \in Runs
    BY <1>1, <2>2 DEF TypeOK
  <2> QED
    BY <1>1, <2>1, <2>2, <2>3 DEF AnalysesOK, Readable
<1>8. ReportsOK'
  BY SameReports DEF Inv
<1> QED
  BY <1>4, <1>5, <1>6, <1>7, <1>8 DEF Inv

LEMMA WriteReportInv == ASSUME Inv, WriteReport PROVE Inv'
<1>1. /\ TypeOK /\ pc = "report" /\ pc' \in {"report", "done"}
      /\ UNCHANGED <<place, profiles, stored, writeErr, outcome, opened>>
  BY DEF Inv, WriteReport
<1>2. ReportsOK'
  BY ReportStep DEF Inv, WriteReport
<1>3. TypeOK'
  BY <1>1 DEF TypeOK, place, outcome
<1>4. This' = This /\ Name' = Name
  BY <1>1 DEF place, This, Name
<1>5. FilesOK'
  <2>1. \A run \in opened : Started(run)'
    BY <1>1, <1>4 DEF Inv, FilesOK, Started, place
  <2> QED
    BY <1>1, <1>4, <2>1 DEF Inv, FilesOK, InChild
<1>6. StoredOK' /\ CopyOK'
  BY <1>1, SameStored DEF Inv, Late, CopyOK
<1>7. ResultsOK'
  BY <1>1 DEF Inv, ResultsOK, place, outcome
<1>8. AnalysesOK'
  <2>1. \A run : Analyzed(run) /\ Analyzed(run)'
    BY <1>1 DEF Analyzed
  <2> QED
    BY <1>1, <2>1 DEF Inv, AnalysesOK, Readable, outcome
<1> QED
  BY <1>2, <1>3, <1>5, <1>6, <1>7, <1>8 DEF Inv

\* After an interruption the files that are left are all of earlier runs.
LEMMA RestartInv == ASSUME Inv, Restart PROVE Inv'
<1>1. /\ TypeOK /\ session' = session + 1 /\ session < MaxSessions /\ test' = 1 /\ k' = 1
      /\ pc' = "run" /\ profileRuns' = <<>> /\ analyzed' = 0 /\ analyses' = <<>>
      /\ writeErr' = FALSE /\ opened' = {} /\ unread' = {}
      /\ stored' \in {{}, {LeftIn("session", Earlier, f) : f \in stored}}
      /\ profiles' = [name \in Names |-> {LeftIn("profiles", Earlier, f) : f \in profiles[name]}]
  BY DEF Inv, Restart, NoFile
<1>2. ASSUME NEW name \in Names
      PROVE  /\ profiles'[name] \subseteq Files
             /\ \A f, g \in profiles'[name] : f = g
             /\ \A f \in profiles'[name] : f.left = "profiles"
  <2>1. profiles'[name] = {LeftIn("profiles", Earlier, f) : f \in profiles[name]}
    BY <1>1
  <2>2. ASSUME NEW f \in profiles[name]
        PROVE  /\ LeftIn("profiles", Earlier, f) \in Files
               /\ LeftIn("profiles", Earlier, f).left = "profiles"
    <3>1. f \in Files
      BY <1>1 DEF TypeOK
    <3> QED
      BY <3>1, LeftFacts
  <2>3. \A f, g \in profiles[name] : f = g
    BY DEF Inv, FilesOK
  <2> QED
    BY <2>1, <2>2, <2>3
<1>3. /\ stored' \subseteq Stored
      /\ \A f, g \in stored' : f.at = g.at => f = g
      /\ \A f \in stored' : f.left = "session"
  <2>1. ASSUME NEW f \in stored
        PROVE  /\ LeftIn("session", Earlier, f) \in Stored
               /\ LeftIn("session", Earlier, f).left = "session"
               /\ LeftIn("session", Earlier, f).at = f.at
    <3>1. f \in Stored
      BY <1>1 DEF TypeOK
    <3> QED
      BY <3>1 DEF LeftIn, Stored
  <2>2. \A f, g \in stored : f.at = g.at => f = g
    BY DEF Inv, StoredOK
  <2>3. CASE stored' = {LeftIn("session", Earlier, f) : f \in stored}
    BY <2>1, <2>2, <2>3
  <2> QED
    BY <1>1, <2>3
<1>4. TypeOK'
  <2>1. session' \in 1 .. MaxSessions /\ test' \in 1 .. NumTests /\ k' \in 1 .. Len(Types)
    BY <1>1, Constants DEF TypeOK
  <2>2. profiles' \in [Names -> SUBSET Files]
    BY <1>1, <1>2
  <2>3. analyses' \in Seq(stored')
    BY <1>1
  <2> QED
    BY <1>1, <1>3, <2>1, <2>2, <2>3 DEF TypeOK
<1>5. FilesOK'
  BY <1>1, <1>2 DEF FilesOK, InChild
<1>6. StoredOK' /\ CopyOK'
  BY <1>1, <1>3 DEF StoredOK, CopyOK
<1>7. AnalysesOK'
  <2>1. \A f \in stored' : ~Analyzed(f.at)'
    <3>1. \A f \in stored' : f.at \in Runs
      BY <1>3 DEF Stored
    <3>2. \A run \in Runs : ~(run[1] < 1)
      BY Constants DEF Runs
    <3> QED
      BY <1>1, <3>1, <3>2 DEF Analyzed
  <2> QED
    BY <1>1, <2>1 DEF AnalysesOK
<1>8. ResultsOK'
  <2>1. 1 .. k' - 1 = {}
    BY <1>1
  <2>2. profileRuns' = [j \in 1 .. k' - 1 |-> Run(test', j)]
    BY <1>1, <2>1
  <2> QED
    BY <1>1, <2>2 DEF ResultsOK
<1>9. ReportsOK'
  BY DEF Inv, Restart, ForgetReport, ReportsOK, LatestIsWhole
<1> QED
  BY <1>4, <1>5, <1>6, <1>7, <1>8, <1>9 DEF Inv

LEMMA SameInv == ASSUME Inv, UNCHANGED vars PROVE Inv'
<1>1. UNCHANGED <<place, profiles, stored, writeErr, outcome, opened, reportVars, pc>>
  BY DEF vars, place, outcome
<1>2. This' = This /\ Name' = Name
  BY <1>1 DEF place, This, Name
<1>3. TypeOK'
  BY <1>1 DEF Inv, TypeOK, place, outcome
<1>4. FilesOK'
  <2>1. \A run \in opened : Started(run)'
    BY <1>1, <1>2 DEF Inv, FilesOK, Started, place
  <2> QED
    BY <1>1, <1>2, <2>1 DEF Inv, FilesOK, InChild
<1>5. StoredOK' /\ CopyOK'
  BY <1>1, <1>2, SameStored DEF Inv, CopyOK
<1>6. ResultsOK'
  BY <1>1 DEF Inv, ResultsOK, place, outcome, Run
<1>7. AnalysesOK'
  BY <1>1 DEF Inv, AnalysesOK, Analyzed, Readable, place, outcome
<1>8. ReportsOK'
  BY <1>1, SameReports DEF Inv
<1> QED
  BY <1>3, <1>4, <1>5, <1>6, <1>7, <1>8 DEF Inv

LEMMA NextInv == Inv /\ [Next]_vars => Inv'
<1> SUFFICES ASSUME Inv, [Next]_vars PROVE Inv'
  OBVIOUS
<1>1. CASE /\ StartChild \/ ChildEnds \/ NoProfile \/ RenameFails \/ ReadOriginal
           /\ UNCHANGED reportVars
  BY <1>1, GoOnInv DEF StartChild, ChildEnds, NoProfile, RenameFails, ReadOriginal
<1>2. CASE OpenProfile /\ UNCHANGED reportVars
  BY <1>2, OpenProfileInv
<1>3. CASE WriteProfile /\ UNCHANGED reportVars
  BY <1>3, WriteProfileInv
<1>4. CASE Rename /\ UNCHANGED reportVars
  BY <1>4, RenameInv
<1>5. CASE ReadFails /\ UNCHANGED reportVars
  BY <1>5, ReadFailsInv
<1>6. CASE WriteTarget /\ UNCHANGED reportVars
  BY <1>6, WriteTargetInv
<1>7. CASE RemoveOriginal /\ UNCHANGED reportVars
  BY <1>7, RemoveOriginalInv
<1>8. CASE NextType /\ UNCHANGED reportVars
  BY <1>8, NextTypeInv
<1>9. CASE AnalyzeRun /\ UNCHANGED reportVars
  BY <1>9, AnalyzeRunInv
<1>10. CASE NextTest /\ UNCHANGED reportVars
  BY <1>10, NextTestInv
<1>11. CASE WriteReport
  BY <1>11, WriteReportInv
<1>12. CASE Restart
  BY <1>12, RestartInv
<1>13. CASE UNCHANGED vars
  BY <1>13, SameInv
<1> QED
  BY <1>1, <1>2, <1>3, <1>4, <1>5, <1>6, <1>7, <1>8, <1>9, <1>10, <1>11, <1>12, <1>13 DEF Next

-------------------------------------------------------------------------------
(* What a step may lose *)

\* The file in profiles is stored, or an earlier fault's is replaced.
LEMMA StoreKeeps ==
  ASSUME Inv, pc \in {"stat", "write"}, stored \subseteq stored' \cup {f \in stored : f.at = This}
  PROVE  \A f \in stored : f \in stored' \/ (f.at = This /\ f.left = "session")
<1>1. \A f \in stored : f.at = This => f.left = "session"
  BY RunFacts DEF Inv, StoredOK, Past
<1> QED
  BY <1>1

\* The original goes only when it has been copied, or its copy has failed.
LEMMA RemoveKeeps ==
  ASSUME Inv, pc = "remove", UNCHANGED stored,
         profiles' = [profiles EXCEPT ![Name] = NoFile] \/ LeaveOriginal
  PROVE  \A name \in Names : \A f \in profiles[name] : f.whole =>
            \/ \E g \in profiles'[name] : g.run = f.run /\ g.whole
            \/ \E g \in stored' : g.at = This /\ g.run = f.run /\ g.whole
            \/ writeErr
<1> SUFFICES ASSUME NEW name \in Names, NEW f \in profiles[name], f.whole, ~writeErr
             PROVE  \/ \E g \in profiles'[name] : g.run = f.run /\ g.whole
                    \/ \E g \in stored : g.at = This /\ g.run = f.run /\ g.whole
  OBVIOUS
<1>1. CASE name = Name
  BY <1>1 DEF Inv, CopyOK
<1>2. CASE name # Name
  BY <1>2 DEF LeaveOriginal, Inv, TypeOK
<1> QED
  BY <1>1, <1>2

\* A file that is left behind is as whole as it was.
LEMMA LeaveKeeps ==
  ASSUME Inv, LeaveOriginal
  PROVE  \A name \in Names : \A f \in profiles[name] : f.whole =>
            \E g \in profiles'[name] : g.run = f.run /\ g.whole
<1> SUFFICES ASSUME NEW name \in Names, NEW f \in profiles[name], f.whole
             PROVE  \E g \in profiles'[name] : g.run = f.run /\ g.whole
  OBVIOUS
<1>1. f \in Files /\ f.run \in Runs \cup {Earlier} /\ profiles \in [Names -> SUBSET Files]
  BY DEF Inv, TypeOK, Files
<1>2. CASE name = Name
  <2> DEFINE g == LeftIn("profiles", f.run, f)
  <2>1. g \in profiles'[name]
    BY <1>1, <1>2 DEF LeaveOriginal
  <2>2. g = [run |-> f.run, whole |-> f.whole, left |-> "profiles"]
    BY <1>1, LeftFacts
  <2> HIDE DEF g
  <2> QED
    BY <2>1, <2>2
<1>3. CASE name # Name
  <2>1. profiles'[name] = profiles[name]
    BY <1>1, <1>3 DEF LeaveOriginal
  <2> QED
    BY <2>1
<1> QED
  BY <1>2, <1>3

LEMMA StepKeeps == Inv /\ [Next]_vars => [LosesNothing]_vars
<1> SUFFICES ASSUME Inv, Next PROVE LosesNothing
  OBVIOUS
<1>1. /\ TypeOK /\ FilesOK /\ Name \in Names /\ profiles \in [Names -> SUBSET Files]
      /\ session \in Nat
  BY RunFacts, Constants DEF Inv, TypeOK
<1>2. CASE UNCHANGED <<profiles, stored>>
  BY <1>2 DEF LosesNothing
<1>3. CASE OpenProfile
  <2>1. \A f \in profiles[Name] : f.left = "profiles"
    BY <1>1, <1>3 DEF OpenProfile, FilesOK, InChild
  <2>2. \A name \in Names : name # Name => profiles'[name] = profiles[name]
    BY <1>1, <1>3 DEF OpenProfile
  <2> QED
    BY <1>3, <2>1, <2>2 DEF OpenProfile, LosesNothing
<1>4. CASE WriteProfile
  <2>1. \A f \in profiles[Name] : ~f.whole
    BY <1>4 DEF WriteProfile, File
  <2>2. \A name \in Names : name # Name => profiles'[name] = profiles[name]
    BY <1>1, <1>4 DEF WriteProfile
  <2> QED
    BY <1>4, <2>1, <2>2 DEF WriteProfile, LosesNothing
<1>5. CASE Rename
  <2>1. stored' = {f \in stored : f.at # This} \cup Copy /\ pc = "stat"
    BY <1>1, <1>5, StoredWithIs DEF Rename
  <2>2. \A f \in profiles[Name] : f.whole => \E g \in stored' : g.at = This /\ g.run = f.run /\ g.whole
    BY <1>1, <2>1, CopyFacts
  <2>3. \A name \in Names : name # Name => profiles'[name] = profiles[name]
    BY <1>1, <1>5 DEF Rename
  <2>4. \A f \in stored : f \in stored' \/ (f.at = This /\ f.left = "session")
    BY <2>1, StoreKeeps
  <2> QED
    BY <2>2, <2>3, <2>4 DEF LosesNothing
<1>6. CASE ReadFails
  BY <1>6, LeaveKeeps DEF ReadFails, LosesNothing
<1>7. CASE WriteTarget
  <2>1. /\ pc = "write" /\ profiles' = profiles
        /\ stored \subseteq stored' \cup {f \in stored : f.at = This}
    BY <1>7 DEF WriteTarget, StoredWith, Target
  <2> QED
    BY <2>1, StoreKeeps DEF LosesNothing
<1>8. CASE RemoveOriginal
  BY <1>8, RemoveKeeps DEF RemoveOriginal, LosesNothing
<1>9. CASE Restart
  BY <1>1, <1>9 DEF Restart, LosesNothing
<1> QED
  BY <1>2, <1>3, <1>4, <1>5, <1>6, <1>7, <1>8, <1>9
     DEF Next, StartChild, ChildEnds, NoProfile, RenameFails, ReadOriginal, NextType, AnalyzeRun,
         NextTest, WriteReport

-------------------------------------------------------------------------------
(* Theorems *)

\* The invariant behind the others: whose the files in the two directories are,
\* and which runs the analysis has reached (profiler.go:104-161, 255-263).
THEOREM Invariance == Spec => []Inv
BY InitInv, NextInv, PTL DEF Spec

\* A profile is taken for that of another run only if the child of that run never
\* created its file and an earlier fault had left one of the same name, or a session
\* of the same second had left one at its path, whichever types share file names and
\* wherever a move fails or the session is interrupted.
THEOREM ForeignProfiles == Spec => []ForeignOnlyIfLeftBehind
<1>1. Inv => ForeignOnlyIfLeftBehind
  <2> SUFFICES ASSUME Inv, NEW i \in DOMAIN analyses, analyses[i].run # analyses[i].at
               PROVE  \/ analyses[i].left = "profiles" /\ analyses[i].at \notin opened
                      \/ analyses[i].left = "session"
    BY DEF ForeignOnlyIfLeftBehind
  <2>1. analyses[i] \in stored
    BY DEF Inv, TypeOK
  <2> QED
    BY <2>1 DEF Inv, StoredOK
<1> QED
  BY <1>1, Invariance, PTL

\* No step of a session loses a whole profile, in whichever directory it lies and
\* whoever has left it, but the three that NothingLost names (profiler.go:104-161).
THEOREM ProfilesKept == Spec => NothingLost
BY StepKeeps, Invariance, PTL DEF Spec, NothingLost

\* Every readable profile of a test that is done has been analysed, and only once,
\* unless pprof failed on it.
THEOREM Analyses == Spec => []AnalysedOnce
<1>1. Inv => AnalysedOnce
  <2> SUFFICES ASSUME Inv, NEW f \in stored, Readable(f), f.at[1] < test \/ pc \in {"report", "done"},
                      f.at \notin unread
               PROVE  \E i \in DOMAIN analyses :
                          /\ analyses[i] = f
                          /\ \A j \in DOMAIN analyses \ {i} : analyses[j].at # f.at
    BY DEF AnalysedOnce
  <2>1. PICK i \in DOMAIN analyses : analyses[i] = f
    BY DEF Inv, AnalysesOK, Analyzed
  <2> QED
    BY <2>1 DEF Inv, AnalysesOK
<1> QED
  BY <1>1, Invariance, PTL

\* Whoever opens report-latest.html finds a whole report, at any moment and after
\* any failure or interruption, unless it was opened again within its second and
\* that did not finish (reporter.go:79-117).
THEOREM LatestReport == Spec => []LatestIsWhole
<1>1. Inv => LatestIsWhole
  BY DEF Inv, ReportsOK
<1> QED
  BY <1>1, Invariance, PTL
===============================================================================
