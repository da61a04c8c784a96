-------------------------------- MODULE Boot --------------------------------
(***************************************************************************)
(* app/entrypoint.sh with the start of main.go: the script starts the      *)
(* proxy in the background and probes it, runs one headless model turn,    *)
(* and becomes dsh; the proxy loads the dependency set before it listens,  *)
(* on its inner edge and, in a goroutine, on the port that the platform    *)
(* and the browser reach: that front answers for dsh until dsh listens.    *)
(* Time is in ticks, and the limits below are those of the code: 50 tries  *)
(* 0.2 s apart, the 10 s of the manager's client, timeout 240.             *)
(* Between two ticks the script and the proxy do what is theirs to do.     *)
(***************************************************************************)
EXTENDS Integers

CONSTANTS
    Tries,          \* of the probe loop, one for each tick
    RefreshLimit,   \* ticks the manager's client waits at most
    SmokeLimit,     \* ticks the boot smoke runs at most
    Horizon         \* bound: ticks in a run

ASSUME BootAssumption ==
    /\ Tries \in Nat \ {0} /\ RefreshLimit \in Nat /\ SmokeLimit \in Nat \ {0}
    /\ Horizon \in Nat

VARIABLES
    script,     \* "probe", "smoke", "dsh" (exec'ed) or "exited"
    tries,      \* probes made
    ran,        \* ticks the smoke has run
    verdict,    \* of the smoke: "none", "PASS" or "FAIL"
    proxy,      \* "loading" (deps.Start), "started", "serving" (its inner edge) or "dead"
    front,      \* serveIngress: "closed" or "listening"
    dsh,        \* "down", "booting" or "up"
    clock       \* ticks since the proxy was started

vars == <<script, tries, ran, verdict, proxy, front, dsh, clock>>

BootTypeOK ==
    /\ script \in {"probe", "smoke", "dsh", "exited"}
    /\ tries \in 0..Tries /\ ran \in 0..SmokeLimit /\ clock \in 0..Horizon
    /\ verdict \in {"none", "PASS", "FAIL"}
    /\ proxy \in {"loading", "started", "serving", "dead"}
    /\ front \in {"closed", "listening"}
    /\ dsh \in {"down", "booting", "up"}

\* PORT is set and the browser's configuration is written; the proxy starts.
Init ==
    /\ script = "probe" /\ tries = 0 /\ ran = 0 /\ verdict = "none"
    /\ proxy = "loading" /\ front = "closed"
    /\ dsh = "down" /\ clock = 0

-----------------------------------------------------------------------------
\* The initial Refresh is over, with or without a set: main goes on to listen.
LoadEnds ==
    /\ proxy = "loading"
    /\ proxy' = "started"
    /\ UNCHANGED <<script, tries, ran, verdict, front, dsh, clock>>

EdgeListens ==
    /\ proxy = "started"
    /\ proxy' = "serving"
    /\ UNCHANGED <<script, tries, ran, verdict, front, dsh, clock>>

\* go serveIngress, before or after the other edge.
FrontListens ==
    /\ proxy \in {"started", "serving"} /\ front = "closed"
    /\ front' = "listening"
    /\ UNCHANGED <<script, tries, ran, verdict, proxy, dsh, clock>>

\* One of the edges cannot listen and log.Fatalf ends both; or the process dies.
\* After the probe nobody in the container notices.
ProxyDies ==
    /\ proxy # "dead"
    /\ proxy' = "dead" /\ front' = "closed"
    /\ UNCHANGED <<script, tries, ran, verdict, dsh, clock>>

\* What follows the probe loop; HARNESS_SKIP_BOOT_SMOKE skips the smoke.
GoOn == \/ script' = "smoke" /\ UNCHANGED dsh
        \/ script' = "dsh" /\ dsh' = "booting"

ProbeAnswered ==
    /\ script = "probe" /\ proxy = "serving"
    /\ GoOn
    /\ UNCHANGED <<tries, ran, verdict, proxy, front, clock>>

\* kill -0 finds no process: the script gives up.
ProbeFindsNoProxy ==
    /\ script = "probe" /\ proxy = "dead"
    /\ script' = "exited"
    /\ UNCHANGED <<tries, ran, verdict, proxy, front, dsh, clock>>

\* The loop ends without an answer: the script goes on all the same.
ProbesExhausted ==
    /\ script = "probe" /\ tries = Tries
    /\ GoOn
    /\ UNCHANGED <<tries, ran, verdict, proxy, front, clock>>

\* Mutant: a turn that fails ends the script ("set -e" without "|| true").
SmokeFatal(v) ==
    /\ script = "smoke"
    /\ v = "PASS" => proxy = "serving"
    /\ verdict' = v
    /\ script' = IF v = "PASS" THEN "dsh" ELSE "exited"
    /\ dsh' = IF v = "PASS" THEN "booting" ELSE dsh
    /\ UNCHANGED <<tries, ran, proxy, front, clock>>

\* The headless turn ends, or `timeout` ends it; only a proxy that serves can
\* let it pass.
SmokeEnds(v) ==
    /\ script = "smoke"
    /\ v = "PASS" => proxy = "serving"
    /\ verdict' = v
    /\ script' = "dsh"
    /\ dsh' = "booting"
    /\ UNCHANGED <<tries, ran, proxy, front, clock>>

DshListens ==
    /\ dsh = "booting"
    /\ dsh' = "up"
    /\ UNCHANGED <<script, tries, ran, verdict, proxy, front, clock>>

\* The exec'ed dsh was the container's first process: the rest ends with it.
DshExits ==
    /\ script = "dsh"
    /\ script' = "exited" /\ dsh' = "down"
    /\ proxy' = "dead" /\ front' = "closed"
    /\ UNCHANGED <<tries, ran, verdict, clock>>

\* Mutant: the smoke runs without `timeout`.
TickNoTimeout ==
    /\ clock < Horizon
    /\ proxy = "loading" => clock < RefreshLimit
    /\ proxy # "started" /\ (proxy = "serving" => front = "listening")
    /\ script = "probe" => proxy = "loading" /\ tries < Tries
    /\ clock' = clock + 1
    /\ tries' = IF script = "probe" THEN tries + 1 ELSE tries
    /\ UNCHANGED <<script, ran, verdict, proxy, front, dsh>>

\* Mutant: the manager's client has no limit.
TickNoClientLimit ==
    /\ clock < Horizon
    /\ proxy # "started" /\ (proxy = "serving" => front = "listening")
    /\ script = "probe" => proxy = "loading" /\ tries < Tries
    /\ script = "smoke" => ran < SmokeLimit
    /\ clock' = clock + 1
    /\ tries' = IF script = "probe" THEN tries + 1 ELSE tries
    /\ ran' = IF script = "smoke" THEN ran + 1 ELSE ran
    /\ UNCHANGED <<script, verdict, proxy, front, dsh>>

\* Time passes when no limit is due: the client's, the loop's, the smoke's; what
\* can listen does, and a probe that would be answered or would find no process
\* has been made.
Tick ==
    /\ clock < Horizon
    /\ proxy = "loading" => clock < RefreshLimit
    /\ proxy # "started" /\ (proxy = "serving" => front = "listening")
    /\ script = "probe" => proxy = "loading" /\ tries < Tries
    /\ script = "smoke" => ran < SmokeLimit
    /\ clock' = clock + 1
    /\ tries' = IF script = "probe" THEN tries + 1 ELSE tries
    /\ ran' = IF script = "smoke" THEN ran + 1 ELSE ran
    /\ UNCHANGED <<script, verdict, proxy, front, dsh>>

Next ==
    \/ LoadEnds \/ EdgeListens \/ FrontListens \/ ProxyDies
    \/ ProbeAnswered \/ ProbeFindsNoProxy \/ ProbesExhausted
    \/ \E v \in {"PASS", "FAIL"} : SmokeEnds(v)
    \/ DshListens \/ DshExits \/ Tick

\* The processes run, and each limit ends what it limits.
Spec ==
    /\ Init /\ [][Next]_vars
    /\ WF_vars(LoadEnds) /\ WF_vars(EdgeListens) /\ WF_vars(FrontListens)
    /\ WF_vars(ProbeAnswered \/ ProbeFindsNoProxy \/ ProbesExhausted)
    /\ WF_vars(\E v \in {"PASS", "FAIL"} : SmokeEnds(v))
    /\ WF_vars(DshListens) /\ WF_vars(Tick)

-----------------------------------------------------------------------------
\* What a request to $PORT gets: /health and the summary come from the proxy
\* itself, any other path from dsh, or from the error handler when the reverse
\* proxy cannot reach it.
FrontAnswer(path) ==
    CASE front = "closed" -> "refused"
      [] path = "health" -> "ok"
      [] path = "summary" -> "summary"
      [] OTHER -> IF dsh = "up" THEN "dsh" ELSE "starting"

\* entrypoint.sh:68-72 and 80-81: neither the manager, nor a proxy that is late,
\* nor a model that does not answer keeps dsh from starting: it starts within
\* the two limits, unless the proxy died while it was probed.
StartsInTime ==
    clock > Tries + SmokeLimit => script \in {"dsh", "exited"}

\* depset.go:57 and 217-225: the port that the platform probes is open when the
\* limit of the manager's client has passed, with a set or without, unless the
\* proxy died.  Not "from second one" (main.go:225): the front waits for the load.
PortOpensInTime ==
    clock > RefreshLimit => front = "listening" \/ proxy = "dead"

\* main.go:224-227, "503 until the backend is ready": whoever reaches the port is
\* not told "starting" for ever.  The way from the first such answer to the page
\* leads through the probe loop and the smoke; each ends although the manager,
\* the network or the model may not answer, and then dsh listens, unless the
\* container's processes die.
StartingEnds ==
    FrontAnswer("page") = "starting" ~> FrontAnswer("page") = "dsh" \/ proxy = "dead"
=============================================================================
