------------------------------- MODULE Reports -------------------------------
(***************************************************************************)
(* The files of a report (GenerateReport of reporter.go, and the same      *)
(* steps in GenerateStrategyComparisonReport of strategy_runner.go): the   *)
(* report is written under a name made of the date and the second, then    *)
(* report-latest.html is removed and made a link to it.  Every step may    *)
(* fail, two reports may fall into one second, and the process may end     *)
(* between any two steps.  What the report says is left out.               *)
(***************************************************************************)
EXTENDS Integers

CONSTANTS Seconds    \* the seconds in which reports are written

ASSUME SecondsAssumption == Seconds \subseteq Nat \ {0}

VARIABLES
    rpc,        \* "idle", "execute", "unlink", "link" or "returned"
    stamp,      \* the second in the name of this report
    reports,    \* per second: "none", "part" or "whole"
    latest,     \* the report that report-latest.html links to, 0 for none
    rewritten   \* history: linked reports opened again in the same second, and
                \* not finished since

reportVars == <<rpc, stamp, reports, latest, rewritten>>

ReportsInit ==
    /\ rpc = "idle"
    /\ stamp = 0
    /\ reports = [s \in Seconds |-> "none"]
    /\ latest = 0
    /\ rewritten = {}

\* Mutant: the link is made as soon as there is a file.
CreateAndLink(second) ==
    /\ rpc = "idle"
    /\ rpc' = "execute"
    /\ stamp' = second
    /\ reports' = [reports EXCEPT ![second] = "part"]
    /\ latest' = second
    /\ UNCHANGED rewritten

\* os.Create truncates a report of the same second.
CreateReport(second) ==
    /\ rpc = "idle"
    /\ rpc' = "execute"
    /\ stamp' = second
    /\ reports' = [reports EXCEPT ![second] = "part"]
    /\ rewritten' = IF latest = second THEN rewritten \cup {second} ELSE rewritten
    /\ UNCHANGED latest

Fail(at) ==
    /\ rpc = at
    /\ rpc' = "returned"
    /\ UNCHANGED <<stamp, reports, latest, rewritten>>

\* Template.Execute has written everything.
ExecuteTemplate ==
    /\ rpc = "execute"
    /\ rpc' = "unlink"
    /\ reports' = [reports EXCEPT ![stamp] = "whole"]
    /\ rewritten' = rewritten \ {stamp}
    /\ UNCHANGED <<stamp, latest>>

\* os.Remove, whose error is not looked at.
RemoveLatest ==
    /\ rpc = "unlink"
    /\ rpc' = "link"
    /\ latest' \in {0, latest}
    /\ UNCHANGED <<stamp, reports, rewritten>>

\* os.Symlink, which leaves an existing link alone; its error is not looked at.
LinkLatest ==
    /\ rpc = "link"
    /\ rpc' = "returned"
    /\ latest' \in IF latest = 0 THEN {0, stamp} ELSE {latest}
    /\ UNCHANGED <<stamp, reports, rewritten>>

GenerateReport(second) ==
    \/ CreateReport(second)
    \/ Fail("idle")
    \/ ExecuteTemplate
    \/ Fail("execute")
    \/ RemoveLatest
    \/ LinkLatest

\* A new process.
ForgetReport ==
    /\ rpc' = "idle"
    /\ stamp' = 0
    /\ UNCHANGED <<reports, latest, rewritten>>

-------------------------------------------------------------------------------
\* Whoever opens report-latest.html sees a whole report, also after an error and
\* after an interruption at any point (reporter.go:104-117), unless the report it
\* links to was opened a second time within its second and that did not finish.
LatestIsWhole ==
    latest # 0 => reports[latest] = "whole" \/ latest \in rewritten
===============================================================================
