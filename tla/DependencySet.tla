--------------------------- MODULE DependencySet ---------------------------
(***************************************************************************)
(* depset.go: the declared dependency set as the proxy reads it from the   *)
(* enclave manager.  Start loads it once, synchronously, and then a single *)
(* ticker goroutine refreshes it; Refresh keeps the previous set on every  *)
(* kind of failure and calls OnChange, outside the lock, when the fold of  *)
(* a set that was already loaded moves.                                    *)
(*                                                                         *)
(* The fold (rc.FoldIdentityHex) identifies a set, so two sets have the    *)
(* same fold exactly when they are the same value of Sets, and the fold of *)
(* an empty set is the empty string.                                       *)
(***************************************************************************)
EXTENDS DependencyPolicy

CONSTANT OnPlatform     \* managerURL, container and token are all present

VARIABLES
    declared,   \* the manager's set: what the leaf certificate advertises
    main,       \* main.go: "start" in deps.Start, "wire" before OnChange, "serve"
    phase,      \* the refresher: "sleep", "fetch", "install" or "notify"
    answer,     \* the payload it parsed, from the answer until the install
    depset,     \* d.set
    loaded      \* d.loaded

depVars == <<declared, main, phase, answer, depset, loaded>>

DepTypeOK ==
    /\ declared \in Sets
    /\ main \in {"start", "wire", "serve"}
    /\ phase \in {"sleep", "fetch", "install", "notify"}
    /\ answer \in Sets
    /\ depset \in Sets
    /\ loaded \in BOOLEAN

Enabled == loaded /\ depset # NoDeps

\* main has called deps.Start, which is in its own Refresh.
DepInit ==
    /\ declared \in Sets
    /\ main = "start"
    /\ phase = "fetch"
    /\ answer = NoDeps
    /\ depset = NoDeps
    /\ loaded = FALSE

-----------------------------------------------------------------------------
\* An operator signs off another set: the manager re-mints the certificate.
SignOff(s) ==
    /\ s # declared
    /\ declared' = s
    /\ UNCHANGED <<main, phase, answer, depset, loaded>>

\* The ticker fires; its goroutine exists once Start's own Refresh is over.
Tick ==
    /\ phase = "sleep"
    /\ main # "start"
    /\ phase' = "fetch"
    /\ UNCHANGED <<declared, main, answer, depset, loaded>>

\* Mutant: a failed refresh forgets the set.
RefreshDropsSet ==
    /\ phase = "fetch"
    /\ phase' = "sleep"
    /\ depset' = NoDeps
    /\ UNCHANGED <<declared, main, answer, loaded>>

\* Off platform, no answer in 10 s, a read error, a 404, another status, or a
\* payload that does not parse: Refresh returns and the set stays.
RefreshKeepsSet ==
    /\ phase = "fetch"
    /\ phase' = "sleep"
    /\ UNCHANGED <<declared, main, answer, depset, loaded>>

\* A 200 with a well-formed payload; "dependencies": null is the empty set.
\* The manager may sign off another set before this answer is installed.
FetchAnswer ==
    /\ phase = "fetch"
    /\ OnPlatform
    /\ answer' = declared
    /\ phase' = "install"
    /\ UNCHANGED <<declared, main, depset, loaded>>

\* Mutant: an empty previous fold is taken for a first load.
InstallFoldOnly ==
    /\ phase = "install"
    /\ loaded' = TRUE
    /\ depset' = answer
    /\ phase' = IF depset # NoDeps /\ depset # answer THEN "notify" ELSE "sleep"
    /\ answer' = NoDeps
    /\ UNCHANGED <<declared, main>>

\* The critical section of Refresh and the comparison that follows it: the
\* first load is not a change, and neither is a set with the same fold.
Install ==
    /\ phase = "install"
    /\ loaded' = TRUE
    /\ depset' = answer
    /\ phase' = IF loaded /\ depset # answer THEN "notify" ELSE "sleep"
    /\ answer' = NoDeps
    /\ UNCHANGED <<declared, main>>

\* The end of the call of OnChange, or of its absence when it is still nil.
Notify ==
    /\ phase = "notify"
    /\ phase' = "sleep"
    /\ UNCHANGED <<declared, main, answer, depset, loaded>>

\* Mutant: Start waits for a set instead of giving up its first load.
StartWaitsForSet ==
    /\ main = "start"
    /\ phase = "sleep"
    /\ loaded
    /\ main' = "wire"
    /\ UNCHANGED <<declared, phase, answer, depset, loaded>>

\* Start returns: its synchronous Refresh is over, whatever it returned.
StartReturns ==
    /\ main = "start"
    /\ phase = "sleep"
    /\ main' = "wire"
    /\ UNCHANGED <<declared, phase, answer, depset, loaded>>

\* main builds the transport, sets deps.OnChange and begins to listen.
WireAndServe ==
    /\ main = "wire"
    /\ main' = "serve"
    /\ UNCHANGED <<declared, phase, answer, depset, loaded>>

Refresher == Tick \/ RefreshKeepsSet \/ FetchAnswer \/ Install \/ Notify

DepNext ==
    \/ \E s \in Sets : SignOff(s)
    \/ Refresher
    \/ StartReturns
    \/ WireAndServe

\* The proxy's goroutines run and the client's timeout ends every request; a
\* manager that is asked again and again answers well again and again.
DepFairness ==
    /\ WF_depVars(Tick)
    /\ WF_depVars(RefreshKeepsSet \/ FetchAnswer)
    /\ WF_depVars(Install)
    /\ WF_depVars(Notify)
    /\ SF_depVars(FetchAnswer)
    /\ WF_depVars(StartReturns)
    /\ WF_depVars(WireAndServe)

-----------------------------------------------------------------------------
\* depset.go:138-140 and 214-216: whatever fails in between, the set in force
\* is at last the one the manager settles on, and stays it.
ConvergesToManager ==
    \A s \in Sets : <>[](declared = s) => <>[](loaded /\ depset = s)

\* A manager that does not answer delays the proxy but does not stop it from
\* listening: deps.Start gives up its first load.
ListensAtLast == <>(main = "serve")
=============================================================================
