------------------------------ MODULE Profiling ------------------------------
(***************************************************************************)
(* ProfileTestSuite.Run and RunWithProfiling (profiler.go): every test is  *)
(* run once per profile type, the file the child leaves in the profiles    *)
(* directory is moved into the directory of the session, and the profiles  *)
(* of the test are analysed (analyzer.go).  In the end the report of the   *)
(* session is written (Reports).                                           *)
(*                                                                         *)
(* The profiles directory outlives the session.  Profile types share file  *)
(* names there, children die before, while or after they write, moving     *)
(* takes several steps of which each may fail, and the harness itself may  *)
(* be interrupted and started again.  The child is external: pkg/profile   *)
(* creates (and truncates) its file when it starts and fills it when it    *)
(* stops.  RunTest without a profile leaves no file and is left out, and   *)
(* so is the alternative path of profiler.go:152, which nothing writes.    *)
(***************************************************************************)
EXTENDS Integers, Sequences, Reports

CONSTANTS
    NumTests,       \* len(pts.Tests)
    Types,          \* pts.ProfileTypes, a sequence without repetitions: the name of
                    \* a stored profile is made of the test and the type
    MaxSessions     \* bound of the model: sessions, the first included

ASSUME ProfilingAssumption ==
    /\ NumTests \in Nat \ {0}
    /\ Types \in Seq({"cpu", "mem", "heap", "allocs", "mutex", "block", "trace"})
    /\ Types # <<>>
    /\ \A i, j \in DOMAIN Types : Types[i] = Types[j] => i = j
    /\ MaxSessions \in Nat \ {0}

\* getProfileFileName: three types share mem.pprof, the others have names of their own.
FileName(type) == IF type \in {"mem", "heap", "allocs"} THEN "mem" ELSE type

Names == {FileName(Types[k]) : k \in DOMAIN Types}

\* A run of a child of this session, and any run before this session.
Run(test, k) == <<test, k>>
Earlier == Run(0, 0)

VARIABLES
    session,    \* the number of this session
    test, k,    \* the loops over the tests and the profile types
    pc,         \* "run", "child", "stat", "read", "write", "remove", "next",
                \* "analyze", "report" or "done"
    profiles,   \* per file name: what lies in the profiles directory
    stored,     \* what lies in the directory of the session
    writeErr,   \* os.WriteFile has failed
    profileRuns,    \* the results of RunWithProfiling for this test
    analyzed,   \* how many of them have been analysed
    analyses,   \* ProfileSuiteResult.ProfileAnalysis
    opened,     \* history: the runs of this session whose child created its file
    unread      \* history: the runs whose profile pprof failed on, though it could
                \* have read it

place == <<session, test, k>>
outcome == <<profileRuns, analyzed, analyses, unread>>
vars == <<session, test, k, pc, profiles, stored, writeErr, profileRuns, analyzed,
          analyses, opened, unread, reportVars>>

\* A file is of a run and whole or not; left (history) says whether a fault left it
\* behind, and in which of the two directories.
NoFile == {}
File(run, whole) == {[run |-> run, whole |-> whole, left |-> "nowhere"]}
LeftIn(directory, run, f) == [f EXCEPT !.run = run, !.left = directory]

\* The run in hand and its file.
This == Run(test, k)
Name == FileName(Types[k])

Init ==
    /\ session = 1
    /\ test = 1
    /\ k = 1
    /\ pc = "run"
    /\ profiles \in [Names -> {NoFile, {LeftIn("profiles", Earlier, f) : f \in File(Earlier, TRUE)}}]
    /\ stored = NoFile
    /\ writeErr = FALSE
    /\ profileRuns = <<>>
    /\ analyzed = 0
    /\ analyses = <<>>
    /\ opened = {}
    /\ unread = {}
    /\ ReportsInit

-------------------------------------------------------------------------------
(* The child *)

StartChild ==
    /\ pc = "run"
    /\ pc' = "child"
    /\ UNCHANGED <<place, profiles, stored, writeErr, outcome, opened>>

OpenProfile ==
    /\ pc = "child"
    /\ This \notin opened
    /\ profiles' = [profiles EXCEPT ![Name] = File(This, FALSE)]
    /\ opened' = opened \cup {This}
    /\ UNCHANGED <<place, pc, stored, writeErr, outcome>>

WriteProfile ==
    /\ pc = "child"
    /\ This \in opened
    /\ profiles[Name] = File(This, FALSE)
    /\ profiles' = [profiles EXCEPT ![Name] = File(This, TRUE)]
    /\ UNCHANGED <<place, pc, stored, writeErr, outcome, opened>>

\* It exits, is killed, or was never started; the harness does not ask which.
ChildEnds ==
    /\ pc = "child"
    /\ pc' = "stat"
    /\ UNCHANGED <<place, profiles, stored, writeErr, outcome, opened>>

-------------------------------------------------------------------------------
(* The move into the session *)

NoProfile ==
    /\ pc = "stat"
    /\ profiles[Name] = NoFile
    /\ pc' = "next"
    /\ UNCHANGED <<place, profiles, stored, writeErr, outcome, opened>>

\* Mutant: the path is made of the type alone.
TargetOfType == Run(1, k)

\* targetPath is made of the test and the type.
Target == This

\* The session's directory with the file, or a part of it, at the target, in place of
\* what may lie there.
StoredWith(all) ==
    {f \in stored : f.at # Target}
        \cup {[at |-> Target, run |-> f.run, whole |-> f.whole /\ all, left |-> f.left] :
                  f \in profiles[Name]}

\* Mutant: the file is copied and stays.
RenameKeeping ==
    /\ pc = "stat"
    /\ profiles[Name] # NoFile
    /\ stored' = StoredWith(TRUE)
    /\ pc' = "next"
    /\ UNCHANGED <<place, profiles, writeErr, outcome, opened>>

Rename ==
    /\ pc = "stat"
    /\ profiles[Name] # NoFile
    /\ stored' = StoredWith(TRUE)
    /\ profiles' = [profiles EXCEPT ![Name] = NoFile]
    /\ pc' = "next"
    /\ UNCHANGED <<place, writeErr, outcome, opened>>

RenameFails ==
    /\ pc = "stat"
    /\ profiles[Name] # NoFile
    /\ pc' = "read"
    /\ UNCHANGED <<place, profiles, stored, writeErr, outcome, opened>>

ReadOriginal ==
    /\ pc = "read"
    /\ pc' = "write"
    /\ UNCHANGED <<place, profiles, stored, writeErr, outcome, opened>>

\* The file stays in profiles.
LeaveOriginal ==
    profiles' = [profiles EXCEPT ![Name] = {LeftIn("profiles", f.run, f) : f \in @}]

\* Mutant: the original is removed although it could not be read.
ReadFailsRemoving ==
    /\ pc = "read"
    /\ pc' = "remove"
    /\ UNCHANGED <<place, profiles, stored, writeErr, outcome, opened>>

ReadFails ==
    /\ pc = "read"
    /\ pc' = "next"
    /\ LeaveOriginal
    /\ UNCHANGED <<place, stored, writeErr, outcome, opened>>

\* os.WriteFile; its error is not looked at, and it may leave a part of the file or
\* what was there before.
WriteTarget ==
    /\ pc = "write"
    /\ pc' = "remove"
    /\ \/ stored' = StoredWith(TRUE) /\ writeErr' = FALSE
       \/ stored' \in {stored, StoredWith(FALSE)} /\ writeErr' = TRUE
    /\ UNCHANGED <<place, profiles, outcome, opened>>

\* os.Remove, whose error is not looked at either.
RemoveOriginal ==
    /\ pc = "remove"
    /\ profiles' = [profiles EXCEPT ![Name] = NoFile] \/ LeaveOriginal
    /\ writeErr' = FALSE
    /\ pc' = "next"
    /\ UNCHANGED <<place, stored, outcome, opened>>

-------------------------------------------------------------------------------
(* The loops *)

NextType ==
    /\ pc = "next"
    /\ profileRuns' = Append(profileRuns, This)
    /\ IF k < Len(Types)
       THEN k' = k + 1 /\ pc' = "run"
       ELSE k' = k /\ pc' = "analyze"
    /\ UNCHANGED <<session, test, profiles, stored, writeErr, analyzed, analyses, opened, unread>>

\* go tool pprof can read a whole file, but not a trace.
Readable(f) == f.whole /\ Types[f.at[2]] # "trace"

\* Mutant: the runs of the session (ps.Results) for those of the test.
RunsOfSession == [i \in 1 .. test * Len(Types) |->
                     Run(1 + (i - 1) \div Len(Types), 1 + ((i - 1) % Len(Types)))]

RunsToAnalyze == profileRuns

\* Analyze of what lies at the path of the run; failed analyses are left out.
AnalyzeRun ==
    /\ pc = "analyze"
    /\ analyzed < Len(RunsToAnalyze)
    /\ analyzed' = analyzed + 1
    /\ LET run == RunsToAnalyze[analyzed + 1]
           readable == {f \in stored : f.at = run /\ Readable(f)}
       IN  \/ readable = {} /\ UNCHANGED <<analyses, unread>>
           \/ readable # {} /\ unread' = unread \cup {run} /\ UNCHANGED analyses
           \/ \E f \in readable : analyses' = Append(analyses, f) /\ UNCHANGED unread
    /\ UNCHANGED <<place, pc, profiles, stored, writeErr, profileRuns, opened>>

NextTest ==
    /\ pc = "analyze"
    /\ analyzed = Len(RunsToAnalyze)
    /\ profileRuns' = <<>>
    /\ analyzed' = 0
    /\ IF test < NumTests
       THEN test' = test + 1 /\ k' = 1 /\ pc' = "run"
       ELSE test' = test /\ k' = k /\ pc' = "report"
    /\ UNCHANGED <<session, profiles, stored, writeErr, analyses, opened, unread>>

\* The report is written in the second of the session's end, which may be that
\* of the session before.
WriteReport ==
    /\ pc = "report"
    /\ \E second \in {session - 1, session} \cap Seconds : GenerateReport(second)
    /\ pc' = IF rpc' = "returned" THEN "done" ELSE "report"
    /\ UNCHANGED <<place, profiles, stored, writeErr, outcome, opened>>

\* The harness is interrupted, together with its child, and a new session begun.
\* Its directory is named by the second: it is a new one, or that of the session
\* before.  Which earlier run a file is from matters no more.
Restart ==
    /\ session < MaxSessions
    /\ session' = session + 1
    /\ test' = 1
    /\ k' = 1
    /\ pc' = "run"
    /\ stored' \in {NoFile, {LeftIn("session", Earlier, f) : f \in stored}}
    /\ writeErr' = FALSE
    /\ profileRuns' = <<>>
    /\ analyzed' = 0
    /\ analyses' = <<>>
    /\ opened' = {}
    /\ unread' = {}
    /\ profiles' = [name \in Names |-> {LeftIn("profiles", Earlier, f) : f \in profiles[name]}]
    /\ ForgetReport

Next ==
    \/ /\ \/ StartChild \/ OpenProfile \/ WriteProfile \/ ChildEnds
          \/ NoProfile \/ Rename \/ RenameFails
          \/ ReadOriginal \/ ReadFails \/ WriteTarget \/ RemoveOriginal
          \/ NextType \/ AnalyzeRun \/ NextTest
       /\ UNCHANGED reportVars
    \/ WriteReport
    \/ Restart

Spec == Init /\ [][Next]_vars

-------------------------------------------------------------------------------
(* Properties *)

\* What is reported as the profile of a run is that run's, unless its child never
\* came to create the file and an earlier fault had left one of that name in profiles
\* (a move that failed, an interrupted session, a run outside of any session), or a
\* session of the same second had left one at its path and no other came to replace it.
\* profiler.go:131 says "Check if profile file was created", and the test there,
\* whether one exists, cannot tell.
ForeignOnlyIfLeftBehind ==
    \A i \in DOMAIN analyses :
        LET f == analyses[i]
        IN  f.run # f.at => \/ f.left = "profiles" /\ f.at \notin opened
                            \/ f.left = "session"

\* No step of a session loses a whole profile of either directory, not even one an
\* earlier session has left, with three exceptions: the original is removed although
\* its copy failed (profiler.go:143); a child creates its file where a fault has left
\* another; a file is moved to where a session of the same second had put one.  A move
\* that fails otherwise, in any of its steps, loses nothing.
LosesNothing ==
    session' = session =>
        /\ \A name \in Names : \A f \in profiles[name] : f.whole =>
              \/ \E g \in profiles'[name] : g.run = f.run /\ g.whole
              \/ \E g \in stored' : g.at = This /\ g.run = f.run /\ g.whole
              \/ pc = "remove" /\ writeErr
              \/ pc = "child" /\ f.left = "profiles"
        /\ \A f \in stored : f.whole =>
              \/ f \in stored'
              \/ f.at = This /\ f.left = "session"

NothingLost == [][LosesNothing]_vars

\* When a test is done, every run with a readable profile has been analysed, once,
\* unless pprof failed on it.
AnalysedOnce ==
    \A f \in stored : (Readable(f) /\ (f.at[1] < test \/ pc \in {"report", "done"})) =>
        \/ f.at \in unread
        \/ \E i \in DOMAIN analyses :
              /\ analyses[i] = f
              /\ \A j \in DOMAIN analyses \ {i} : analyses[j].at # f.at

-------------------------------------------------------------------------------
(* The types of the variables *)

\* The runs of this session, and the files of the two directories.
Runs == (1 .. NumTests) \X (1 .. Len(Types))

Files == [run : Runs \cup {Earlier}, whole : BOOLEAN, left : {"nowhere", "profiles"}]

Stored == [at : Runs, run : Runs \cup {Earlier}, whole : BOOLEAN,
           left : {"nowhere", "profiles", "session"}]

TypeOK ==
    /\ session \in 1 .. MaxSessions
    /\ test \in 1 .. NumTests
    /\ k \in 1 .. Len(Types)
    /\ pc \in {"run", "child", "stat", "read", "write", "remove", "next",
               "analyze", "report", "done"}
    /\ profiles \in [Names -> SUBSET Files]
    /\ stored \subseteq Stored
    /\ writeErr \in BOOLEAN
    /\ analyses \in Seq(stored)
    /\ opened \subseteq Runs
    /\ unread \subseteq Runs
===============================================================================
