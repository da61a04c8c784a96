------------------------- MODULE AttestationSummary -------------------------
(***************************************************************************)
(* main.go's GET /privasys/attestation over depset.go: the summary the     *)
(* browser shows of the dependency set, put together from three reads,     *)
(* Enabled, Fold and Pinned, each under its own lock, while the refresher  *)
(* runs.  One handler at a time: handlers share nothing but the set.       *)
(***************************************************************************)
EXTENDS DependencySet

VARIABLES
    read,       \* how far the handler has read: "none", "enabled", "fold" or "all"
    report      \* the summary: deps_enabled, dependency_fold, dependencies

summaryVars == <<read, report>>

SummaryInit ==
    /\ DepInit
    /\ read = "none"
    /\ report = [enabled |-> FALSE, fold |-> NoDeps, deps |-> NoDeps]

\* A request arrives at the ingress, which listens once main has got there.
SummarizeEnabled ==
    /\ main = "serve"
    /\ read \in {"none", "all"}
    /\ report' = [enabled |-> Enabled, fold |-> NoDeps, deps |-> NoDeps]
    /\ read' = "enabled"
    /\ UNCHANGED depVars

\* Fold: the empty string, here NoDeps, when no set is loaded or it is empty.
Fold == IF Enabled THEN depset ELSE NoDeps

SummarizeFold ==
    /\ read = "enabled"
    /\ report' = [report EXCEPT !.fold = Fold]
    /\ read' = "fold"
    /\ UNCHANGED depVars

\* Pinned: the entries of the set, whether loaded or not.
SummarizePinned ==
    /\ read = "fold"
    /\ report' = [report EXCEPT !.deps = depset]
    /\ read' = "all"
    /\ UNCHANGED depVars

SummaryNext ==
    \/ SummarizeEnabled \/ SummarizeFold \/ SummarizePinned
    \/ DepNext /\ UNCHANGED summaryVars

SummarySpec == SummaryInit /\ [][SummaryNext]_<<depVars, summaryVars>> /\ DepFairness

-----------------------------------------------------------------------------
\* main.go:307-309, a summary shows "the live attested dependency set the agent
\* loop is fenced to": its flag, its fold and its entries are those of one set.
\* The code does not keep this: the three reads take the lock three times, and
\* the refresher may install another set between two of them.
SummaryOfOneSet ==
    read = "all" =>
        /\ report.fold = report.deps
        /\ report.enabled <=> report.deps # NoDeps
=============================================================================
