-------------------------- MODULE AttestationView --------------------------
(***************************************************************************)
(* The attestation surface of the browser: the sidebar row, whose panel    *)
(* shows the report of the harness, and the tab of a tool call, which is   *)
(* given one tool after another, tools of the harness itself among them.   *)
(* Each has one useAttestation hook, the roll-up of its state into a badge *)
(* and the token mint the verification needs.  The hook inspects on its    *)
(* own when it is given a target, and verifies the quote of a result on    *)
(* its own when one arrives; both are effects, which React runs after the  *)
(* page has been painted and before anything else renders.                 *)
(*                                                                         *)
(* An answer of the attestation endpoint is a record: its number, the      *)
(* target it is about, whether its quote is real, a mock or missing (it    *)
(* may be null, or come without its raw bytes), whether the attestation    *)
(* server will find its signature good, and whether its code is the pinned *)
(* one.  The report, when it is on display, hashes its report_data in an   *)
(* effect of its own.  The challenge is not modelled: regenerating it only *)
(* changes the identity of inspect, and so makes its effect due.           *)
(***************************************************************************)
EXTENDS Naturals, FiniteSets

CONSTANTS
    Views,          \* "row", "tab": the views that are looked at, one in a run
    Tools,          \* the fleet's tools (SERVER_APPS)
    Quotes,         \* the kinds of quote in an answer: "real", "mock", "none"
    MaxInspects,    \* bound: inspections in a run
    MaxReturns      \* bound: how often a local tool gives way to one of the fleet

VARIABLES
    view,           \* of Views
    target,         \* whom attestUrl asks: a tool, the harness, or nobody
    open,           \* the row's panel is open; the tab is
    lastAuto,       \* lastAutoUrlRef: the target inspected automatically
    result, verdict, loading, verifying, failed, unverified,
                    \* result, quoteVerify, ..., error and quoteVerifyError set
    effects,        \* effects that are due: "inspect", "verify", "check"
    inspects,       \* inspections under way: <<number, target>>
    verifies,       \* verifications under way: number and goodness of their results
    mint,           \* mintPromise: "none", "pending", "token" or "rejected"
    pinned,         \* the tools the dependency summary, once it arrived, pins
    check,          \* the report view: "idle", "verifying", or "told" that the
                    \* report_data of report n is fresh, or that it is not
    checks,         \* hashes under way: of these reports, and not cancelled
    begun, tried, minted, returned, overlapped
                    \* history: inspections begun, verifications per result,
                    \* mints, returns from a local tool, and what was ever
                    \* under way twice at a time

stateVars == <<result, verdict, loading, verifying, failed, unverified>>
report == <<check, checks>>
history == <<begun, tried, minted, returned, overlapped>>
place == <<view, target, open>>
vars == <<place, lastAuto, stateVars, effects, inspects, verifies, mint,
          pinned, report, history>>

NoTarget == "none"
Harness == "harness"

\* A tool of the fleet has a name of its own.
ASSUME ViewAssumption ==
    /\ Views \subseteq {"row", "tab"} /\ Quotes \subseteq {"real", "mock", "none"}
    /\ NoTarget \notin Tools
    /\ MaxInspects \in Nat /\ MaxReturns \in Nat

Targets == Tools \cup {Harness}
None == [n |-> 0]
Numbers == 1..MaxInspects
Results ==
    {r \in [n : Numbers, about : Targets, quote : Quotes, good : BOOLEAN, code : BOOLEAN] :
        /\ r.quote # "real" => ~r.good    \* nobody is asked about it
        /\ r.about = Harness => r.code}  \* nothing is expected of it
Verdicts == [n : Numbers, success : BOOLEAN]
Checks == [state : {"idle", "verifying", "told"}, n : 0..MaxInspects]
Idle == [state |-> "idle", n |-> 0]

ViewTypeOK ==
    /\ view \in Views /\ open \in BOOLEAN
    /\ target \in Targets \cup {NoTarget} /\ lastAuto \in Targets \cup {NoTarget}
    /\ result \in Results \cup {None} /\ verdict \in Verdicts \cup {None}
    /\ {loading, verifying, failed, unverified} \subseteq BOOLEAN
    /\ pinned \subseteq Tools
    /\ effects \subseteq {"inspect", "verify", "check"}
    /\ check \in Checks /\ checks \subseteq Numbers
    /\ inspects \subseteq Numbers \X Targets
    /\ verifies \subseteq Numbers \X BOOLEAN
    /\ mint \in {"none", "pending", "token", "rejected"}
    /\ begun \in 0..MaxInspects /\ minted \in Nat /\ returned \in Nat
    /\ tried \in [Numbers -> Nat]
    /\ overlapped \subseteq {"inspections", "verifications"}

\* attestUrl is that of the one harness, or of the tool of the call on display;
\* a tool of the harness itself has none.
Choices(v) == IF v = "row" THEN {Harness} ELSE Tools \cup {NoTarget}

\* The view is mounted, the row with its panel closed.
Init ==
    /\ view \in Views
    /\ target \in Choices(view)
    /\ open = (view = "tab")
    /\ lastAuto = NoTarget
    /\ result = None /\ verdict = None
    /\ loading = FALSE /\ verifying = FALSE /\ failed = FALSE /\ unverified = FALSE
    /\ effects = {"inspect", "verify"}
    /\ inspects = {} /\ verifies = {}
    /\ mint = "none"
    /\ pinned = {} /\ check = Idle /\ checks = {}
    /\ begun = 0 /\ tried = [n \in Numbers |-> 0] /\ minted = 0
    /\ returned = 0 /\ overlapped = {}

-----------------------------------------------------------------------------
(* inspect *)

\* The state inspect sets before its first await; the result stays.
StartInspect ==
    /\ begun < MaxInspects
    /\ begun' = begun + 1
    /\ inspects' = inspects \cup {<<begun', target>>}
    /\ loading' = TRUE
    /\ failed' = FALSE
    /\ verdict' = None
    /\ unverified' = FALSE
    /\ overlapped' = IF inspects = {} THEN overlapped
                      ELSE overlapped \cup {"inspections"}
    /\ UNCHANGED <<place, report, result, verifying, verifies, mint, pinned, tried, minted,
                   returned>>

\* Mutant: the effect runs for the first target only.
InspectEffectOnce ==
    /\ "inspect" \in effects
    /\ effects' = effects \ {"inspect"}
    /\ IF target = NoTarget \/ lastAuto # NoTarget
       THEN UNCHANGED <<place, report, lastAuto, stateVars, inspects, verifies, mint,
                        pinned, history>>
       ELSE /\ lastAuto' = target
            /\ StartInspect

\* The automatic inspection, at most once for a target in a row.
InspectEffect ==
    /\ "inspect" \in effects
    /\ effects' = effects \ {"inspect"}
    /\ IF target = NoTarget \/ lastAuto = target
       THEN UNCHANGED <<place, report, lastAuto, stateVars, inspects, verifies, mint,
                        pinned, history>>
       ELSE /\ lastAuto' = target
            /\ StartInspect

\* The report and its controls are on display.
Displayed == open /\ target # NoTarget

\* Refresh, offered when there is a result and nothing loads; Retry, offered
\* when there is an error and no result.
Refresh ==
    /\ effects = {} /\ Displayed
    /\ IF result = None THEN failed ELSE ~loading
    /\ StartInspect
    /\ UNCHANGED <<lastAuto, effects>>

\* A new challenge is a new inspect, whose effect runs and finds nothing to do.
RegenerateChallenge ==
    /\ effects = {} /\ Displayed
    /\ result # None /\ ~loading
    /\ effects' = {"inspect"}
    /\ UNCHANGED <<place, report, lastAuto, stateVars, inspects, verifies, mint, pinned, history>>

\* The report comes and goes with the panel, or with the tool; its hash is
\* cancelled when it goes, and due again when it is back.
ShowReport == check' = Idle /\ checks' = {}

\* The tab is given another tool: nothing it knows is cleared.  Between a tool
\* of the harness and one of the fleet autoVerifyQuote changes, and the effect
\* that verifies is due for the result that is there.
SelectTarget(t) ==
    /\ effects = {}
    /\ view = "tab" /\ t \in Choices(view) \ {target}
    /\ target' = t
    /\ IF NoTarget \in {t, target}
       THEN /\ ShowReport
            /\ effects' = {"inspect", "verify"} \cup
                  (IF target = NoTarget /\ result # None THEN {"check"} ELSE {})
       ELSE effects' = {"inspect"} /\ UNCHANGED report
    /\ returned' = IF target = NoTarget THEN returned + 1 ELSE returned
    /\ returned' <= MaxReturns
    /\ UNCHANGED <<view, open, lastAuto, stateVars, inspects, verifies, mint, pinned,
                   begun, tried, minted, overlapped>>

\* The row is clicked; the panel is closed by its button, its backdrop or Escape.
TogglePanel ==
    /\ effects = {} /\ view = "row"
    /\ open' = ~open
    /\ ShowReport
    /\ effects' = IF ~open /\ result # None THEN {"check"} ELSE {}
    /\ UNCHANGED <<view, target, lastAuto, stateVars, inspects, verifies, mint, pinned,
                   history>>

\* The answer replaces whatever result there is.
InspectAnswered(i, r) ==
    /\ effects = {}
    /\ i \in inspects
    /\ r.n = i[1] /\ r.about = i[2]
    /\ inspects' = inspects \ {i}
    /\ result' = r
    /\ loading' = FALSE
    /\ effects' = {"verify"} \cup (IF Displayed THEN {"check"} ELSE {})
    /\ UNCHANGED <<place, report, lastAuto, verdict, verifying, failed, unverified,
                   verifies, mint, pinned, history>>

\* Mutant: loading is reset on success only.
InspectFailsLoading(i) ==
    /\ effects = {}
    /\ i \in inspects
    /\ inspects' = inspects \ {i}
    /\ failed' = TRUE
    /\ UNCHANGED <<place, report, lastAuto, result, verdict, loading, verifying, unverified,
                   effects, verifies, mint, pinned, history>>

\* A malformed challenge, a network error, a status that is not 2xx, bad JSON.
InspectFails(i) ==
    /\ effects = {}
    /\ i \in inspects
    /\ inspects' = inspects \ {i}
    /\ failed' = TRUE
    /\ loading' = FALSE
    /\ UNCHANGED <<place, report, lastAuto, result, verdict, verifying, unverified, effects,
                   verifies, mint, pinned, history>>

-----------------------------------------------------------------------------
(* verifyQuoteSignature *)

\* What the effect verifies: a mock quote is skipped, and a report without one.
Verifiable == target # NoTarget /\ result # None /\ result.quote = "real"

\* Mutant: the quote of a later result is not verified.
VerifyEffectOnce ==
    /\ "verify" \in effects
    /\ effects' = effects \ {"verify"}
    /\ IF ~Verifiable \/ mint # "none"
       THEN UNCHANGED <<place, report, lastAuto, stateVars, inspects, verifies, mint,
                        pinned, history>>
       ELSE /\ verifying' = TRUE
            /\ unverified' = FALSE
            /\ verifies' = verifies \cup {<<result.n, result.good>>}
            /\ mint' = "pending"
            /\ minted' = minted + 1
            /\ tried' = [tried EXCEPT ![result.n] = @ + 1]
            /\ UNCHANGED <<place, report, lastAuto, result, verdict, loading, failed,
                           inspects, pinned, begun, returned, overlapped>>

\* A result with a real quote is sent to the attestation server, with a token
\* that is minted once for the page.
VerifyEffect ==
    /\ "verify" \in effects
    /\ effects' = effects \ {"verify"}
    /\ IF ~Verifiable
       THEN UNCHANGED <<place, report, lastAuto, stateVars, inspects, verifies, mint,
                        pinned, history>>
       ELSE /\ verifying' = TRUE
            /\ unverified' = FALSE
            /\ verifies' = verifies \cup {<<result.n, result.good>>}
            /\ mint' = IF mint = "none" THEN "pending" ELSE mint
            /\ minted' = IF mint = "none" THEN minted + 1 ELSE minted
            /\ tried' = [tried EXCEPT ![result.n] = @ + 1]
            /\ overlapped' = IF verifies = {} THEN overlapped
                              ELSE overlapped \cup {"verifications"}
            /\ UNCHANGED <<place, report, lastAuto, result, verdict, loading, failed,
                           inspects, pinned, begun, returned>>

MintSettles(m) ==
    /\ mint = "pending"
    /\ mint' = m
    /\ UNCHANGED <<place, report, lastAuto, stateVars, effects, inspects, verifies, pinned,
                   history>>

VerifyAnswered(r) ==
    /\ effects = {}
    /\ r \in verifies
    /\ mint = "token"
    /\ verifies' = verifies \ {r}
    /\ verdict' = [n |-> r[1], success |-> r[2]]
    /\ verifying' = FALSE
    /\ UNCHANGED <<place, report, lastAuto, result, loading, failed, unverified, effects,
                   inspects, mint, pinned, history>>

\* Mutant: an inline token thunk, a new one for each render.
VerifyFailsUnstable(r) ==
    /\ effects = {}
    /\ r \in verifies
    /\ mint \in {"token", "rejected"}
    /\ verifies' = verifies \ {r}
    /\ unverified' = TRUE
    /\ verifying' = FALSE
    /\ effects' = {"verify"}
    /\ UNCHANGED <<place, report, lastAuto, result, verdict, loading, failed,
                   inspects, mint, pinned, history>>

\* No token, a network error, a refusal of the attestation server.
VerifyFails(r) ==
    /\ effects = {}
    /\ r \in verifies
    /\ mint \in {"token", "rejected"}
    /\ verifies' = verifies \ {r}
    /\ unverified' = TRUE
    /\ verifying' = FALSE
    /\ UNCHANGED <<place, report, lastAuto, result, verdict, loading, failed, effects,
                   inspects, mint, pinned, history>>

\* Mutant: the effect has no cleanup.
CheckEffectUncancelled ==
    /\ "check" \in effects
    /\ effects' = effects \ {"check"}
    /\ \/ check' = Idle /\ UNCHANGED checks
       \/ check' = [state |-> "verifying", n |-> 0] /\ checks' = checks \cup {result.n}
    /\ UNCHANGED <<place, lastAuto, stateVars, inspects, verifies, mint, pinned, history>>

\* useReportDataCheck of the view that shows the result: the check of the last
\* one is cancelled; a result without a challenge in it needs none.
CheckEffect ==
    /\ "check" \in effects
    /\ effects' = effects \ {"check"}
    /\ \/ check' = Idle /\ checks' = {}
       \/ check' = [state |-> "verifying", n |-> 0] /\ checks' = {result.n}
    /\ UNCHANGED <<place, lastAuto, stateVars, inspects, verifies, mint, pinned, history>>

\* verifyReportData resolves, with a match, a mismatch or an error.
CheckSettles(n) ==
    /\ effects = {}
    /\ n \in checks
    /\ checks' = checks \ {n}
    /\ check' = [state |-> "told", n |-> n]
    /\ UNCHANGED <<place, lastAuto, stateVars, effects, inspects, verifies, mint, pinned,
                   history>>

\* The tab reads the dependency summary once: it names some tools, or it does
\* not come at all, and then the live report stands alone.
PinsArrive(ts) ==
    /\ view = "tab" /\ pinned = {}
    /\ pinned' = ts
    /\ UNCHANGED <<place, report, lastAuto, stateVars, effects, inspects, verifies, mint,
                   history>>

-----------------------------------------------------------------------------
(* The badge. *)

Ready == result # None \/ failed
QuoteOk == ~unverified /\ ~verifying /\ (verdict # None => verdict.success)
\* The pin is looked up for the current target in whatever result is there.
DigestsOk == target \in pinned => result.about = target /\ result.code
Status ==
    CASE target = NoTarget -> "unavailable"
      [] target # NoTarget /\ ~Ready -> "verifying"
      [] target # NoTarget /\ Ready /\ result = None -> "failed"
      [] OTHER -> IF QuoteOk /\ DigestsOk THEN "verified" ELSE "failed"

Next ==
    \/ InspectEffect \/ VerifyEffect \/ Refresh \/ RegenerateChallenge \/ TogglePanel
    \/ \E ts \in SUBSET Tools \ {{}} : PinsArrive(ts)
    \/ CheckEffect \/ \E n \in checks : CheckSettles(n)
    \/ \E t \in Tools \cup {NoTarget} : SelectTarget(t)
    \/ \E i \in inspects : InspectFails(i) \/ \E r \in Results : InspectAnswered(i, r)
    \/ \E r \in verifies : VerifyAnswered(r) \/ VerifyFails(r)
    \/ \E m \in {"token", "rejected"} : MintSettles(m)

Spec == Init /\ [][Next]_vars

-----------------------------------------------------------------------------
\* Nothing is under way and no effect is due: what is shown will stay.
Quiet == effects = {} /\ inspects = {} /\ verifies = {} /\ checks = {}

Vouched == verdict # None /\ verdict.n = result.n /\ verdict.success

\* use-attestation.ts, PrivasysAttestationTab.tsx:149-150: however inspections and
\* verifications overlap and end, and whichever tools are selected meanwhile, no
\* spinner is left turning and no "Verifying" standing when nothing is under way.
NoSpinnerLeft ==
    Quiet => ~loading /\ ~verifying /\ check.state # "verifying" /\ Status # "verifying"

\* attestation-result-view.tsx:311,320: "freshness verified" or "mismatch" is
\* said of the report that is shown, never of an earlier one whose hash was
\* computed late.
FreshnessOfShownReport ==
    effects = {} /\ check.state = "told" => Displayed /\ check.n = result.n

\* PrivasysAttestation.tsx:43-49: one mint for a view and a page, and for a result
\* one verification, and another for each return from a local tool, even when
\* they fail; never a loop of renders and requests.
NoRequestStorm ==
    /\ minted <= 1
    /\ \A n \in Numbers : tried[n] <= 1 + returned

\* composite-attestation-view.tsx:288-290: the badge at rest is green without a
\* verdict on the quote it stands for in four cases only: a mock quote, a report
\* without a quote, a refresh that failed and left the result of the last one,
\* and verifications that overlapped.
GreenUnlessExcused ==
    Quiet /\ Status = "verified" =>
        Vouched \/ result.quote \in {"mock", "none"} \/ failed
                \/ "verifications" \in overlapped

\* The report at rest is that of the tool it is shown for, unless the last
\* inspection failed or two of them overlapped and the earlier one came last.
ReportUnlessExcused ==
    Quiet /\ target # NoTarget /\ result # None /\ result.about # target =>
        failed \/ "inspections" \in overlapped

\* PrivasysAttestation.tsx:13-14: "green ONLY when verified".
GreenOnlyWhenVerified == Quiet /\ Status = "verified" => Vouched
=============================================================================
