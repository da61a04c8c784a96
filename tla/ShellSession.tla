---------------------------- MODULE ShellSession ----------------------------
(***************************************************************************)
(* privasys-shell.js: run and onAuthenticated, logout, and the mint of the *)
(* token for the attestation server, through the loads of a page; with     *)
(* what starts them in dsh's sidebar and trajectory: the menu of the user  *)
(* row, and the attestation row and tab, which mint once each.             *)
(*                                                                         *)
(* Of the SDK, which is vendored beside the shell, this is what AuthFrame  *)
(* does: connect, which asks for a stored session and resumes it, or goes  *)
(* through the ceremony; a session iframe that getSession loads, that      *)
(* clearSession and expiry remove and that a mint needs; and limits of 3,  *)
(* 5 and 15 s, after which clearSession and getSession resolve and a mint  *)
(* rejects.  What the iframe answers is the identity provider's, and a     *)
(* message to an iframe that is loading may be lost.                       *)
(*                                                                         *)
(* A task of the browser with its microtasks is one action, and what the   *)
(* page does between location.reload and its end is left out.              *)
(***************************************************************************)
EXTENDS Naturals

CONSTANT MaxLoads   \* bound: how often the page is loaded

ASSUME LoadsAssumption == MaxLoads \in Nat \ {0}

VARIABLES
    stored,     \* the identity provider remembers the session
    loads,      \* how often the page has been loaded
    sdk, hook,  \* AuthFrame and __PRIVASYS_BOOT__ are there
    running,    \* runs that have not settled
    button,     \* the gate shows "Sign in"
    hidden,     \* the gate is hidden
    dsh,        \* "none" before a sign-in; started over the "sealed" transport, or
                \* "plain" when its installation threw; its boot "threw", or its
                \* entry is "missing"
    connect,    \* of the run: "none", "get", "resume" or "ceremony"
    iframe,     \* the session iframe: "none", "loading" or "live"
    loggingOut, \* the flag of logout
    clear,      \* its clearSession: "none"; "posted" to the session iframe, or to an
                \* iframe of its "own" when there is none; "lost" or "heard"
    mint,       \* of each: "none", "prime", "asked", "lost", "token" or "refused"
    menu,       \* the menu of the user row is open
    signedOut   \* history: whether a sign-out loaded this page, until the next
                \* ceremony: "no", "yes", or "late" when the SDK's limit had passed

gate == <<running, button, hidden, dsh>>
load == <<loads, sdk, hook>>
shellVars == <<stored, load, gate, connect, iframe, loggingOut, clear, mint, menu,
              signedOut>>

Minters == {"row", "tab"}
Booted == dsh \in {"sealed", "plain"}

Flags ==
    /\ stored \in BOOLEAN /\ sdk \in BOOLEAN /\ hook \in BOOLEAN
    /\ button \in BOOLEAN /\ hidden \in BOOLEAN
    /\ loggingOut \in BOOLEAN /\ menu \in BOOLEAN

ShellTypeOK ==
    /\ Flags
    /\ loads \in 1..MaxLoads
    /\ running \in {0, 1} /\ (running = 0 <=> connect = "none")
    /\ connect \in {"none", "get", "resume", "ceremony"}
    /\ dsh \in {"none", "sealed", "plain", "threw", "missing"}
    /\ iframe \in {"none", "loading", "live"}
    /\ clear \in {"none", "posted", "own", "lost", "heard"}
    /\ mint \in [Minters -> {"none", "prime", "asked", "lost", "token", "refused"}]
    /\ signedOut \in {"no", "yes", "late"}

-----------------------------------------------------------------------------
(* Sign-in. *)

\* run: a new AuthFrame whose connect asks for the stored session, or, when the
\* SDK did not load, the fallback.
Run ==
    /\ running' = IF sdk' THEN 1 ELSE 0
    /\ button' = ~sdk'
    /\ hidden' = FALSE
    /\ connect' = IF sdk' THEN "get" ELSE "none"
    /\ iframe' = IF sdk' THEN "loading" ELSE "none"

\* The scripts of the page; the shell runs when they have loaded or failed.
Load ==
    /\ sdk' \in BOOLEAN /\ hook' \in BOOLEAN
    /\ dsh' = "none"
    /\ loggingOut' = FALSE /\ clear' = "none" /\ menu' = FALSE
    /\ mint' = [m \in Minters |-> "none"]
    /\ Run

Init ==
    /\ stored \in BOOLEAN /\ sdk \in BOOLEAN /\ hook \in BOOLEAN
    /\ loads = 1
    /\ running = (IF sdk THEN 1 ELSE 0) /\ button = ~sdk
    /\ hidden = FALSE /\ dsh = "none"
    /\ connect = (IF sdk THEN "get" ELSE "none")
    /\ iframe = (IF sdk THEN "loading" ELSE "none")
    /\ loggingOut = FALSE /\ clear = "none" /\ menu = FALSE /\ signedOut = "no"
    /\ mint = [m \in Minters |-> "none"]

\* The button of showAuthFallback, which run takes away with the gate's content.
ClickSignIn ==
    /\ button
    /\ UNCHANGED <<stored, load, dsh, loggingOut, clear, mint, menu, signedOut>>
    /\ Run

\* getSession resolves, with a session or without: connect and the mints that
\* were primed go on from there.  There is no mint without an iframe.
GetSessionResolves(found) ==
    /\ iframe = "loading"
    /\ iframe' = IF found THEN "live" ELSE "none"
    /\ connect' = IF connect # "get" THEN connect
                  ELSE IF found THEN "resume" ELSE "ceremony"
    /\ mint' = [m \in Minters |-> IF mint[m] # "prime" THEN mint[m]
                                  ELSE IF found THEN "asked" ELSE "refused"]
    /\ signedOut' = IF connect' = "ceremony" THEN "no" ELSE signedOut
    /\ UNCHANGED <<load, gate, loggingOut, menu>>

SessionAnswers ==
    /\ GetSessionResolves(stored)
    /\ UNCHANGED <<stored, clear>>

\* Its limit: the iframe is removed, and with it what was posted to it.
SessionTimesOut ==
    /\ GetSessionResolves(FALSE)
    /\ clear' = IF clear = "posted" THEN "lost" ELSE clear
    /\ UNCHANGED stored

ResumeRejected ==
    /\ connect = "resume"
    /\ connect' = "ceremony"
    /\ signedOut' = "no"
    /\ UNCHANGED <<stored, load, gate, iframe, loggingOut, clear, mint, menu>>

\* connect resolves with a sealed session: the gate goes first, then the
\* transport is installed and dsh is started, if its script has loaded.  What
\* either throws is caught and logged.
Authenticated ==
    /\ connect \in {"resume", "ceremony"}
    /\ stored' = (stored \/ connect = "ceremony")
    /\ connect' = "none" /\ running' = 0
    /\ hidden' = TRUE /\ button' = FALSE
    /\ dsh' \in (IF hook THEN {"sealed", "plain", "threw"} ELSE {"missing"})
    /\ UNCHANGED <<load, iframe, loggingOut, clear, mint, menu, signedOut>>

\* Mutant: a connect without a sealed session is not told to the user.
SettlesSilently ==
    /\ connect \in {"resume", "ceremony"}
    /\ stored' \in {stored, stored \/ connect = "ceremony"}
    /\ connect' = "none" /\ running' = 0
    /\ UNCHANGED <<load, button, hidden, dsh, iframe, loggingOut, clear, mint, menu, signedOut>>

\* connect rejects, cancelled or not, or has no sealed session; the provider
\* may remember a ceremony whose sealed session failed.
SettlesWithout ==
    /\ connect \in {"resume", "ceremony"}
    /\ stored' \in {stored, stored \/ connect = "ceremony"}
    /\ connect' = "none" /\ running' = 0
    /\ button' = TRUE /\ hidden' = FALSE
    /\ UNCHANGED <<load, dsh, iframe, loggingOut, clear, mint, menu, signedOut>>

-----------------------------------------------------------------------------
(* The mints of a booted page: each view's stableAttestationToken makes one. *)

\* Mutant: the mint goes to the iframe that there is.
MintUnprimed(m) ==
    /\ Booted /\ mint[m] = "none"
    /\ mint' = [mint EXCEPT ![m] = IF iframe = "live" THEN "asked" ELSE "refused"]
    /\ UNCHANGED <<stored, load, gate, connect, iframe, loggingOut, clear, menu, signedOut>>

\* getTokenForAudience: getSession first, at once when the iframe is live, and
\* together with whoever waits for the one that is loading.
Mint(m) ==
    /\ Booted /\ mint[m] = "none"
    /\ mint' = [mint EXCEPT ![m] = IF iframe = "live" THEN "asked" ELSE "prime"]
    /\ iframe' = IF iframe = "none" THEN "loading" ELSE iframe
    /\ UNCHANGED <<stored, load, gate, connect, loggingOut, clear, menu, signedOut>>

\* The iframe that was asked answers, or the limit of a mint passes.
MintSettles(m, outcome) ==
    /\ mint[m] = "asked" \/ (mint[m] = "lost" /\ outcome = "refused")
    /\ mint' = [mint EXCEPT ![m] = outcome]
    /\ UNCHANGED <<stored, load, gate, connect, iframe, loggingOut, clear, menu, signedOut>>

\* The iframe goes, and with it what it was asked and what was posted to it.
SessionExpires ==
    /\ iframe = "live"
    /\ iframe' = "none" /\ stored' = FALSE
    /\ mint' = [m \in Minters |-> IF mint[m] = "asked" THEN "lost" ELSE mint[m]]
    /\ clear' = IF clear = "posted" THEN "lost" ELSE clear
    /\ UNCHANGED <<load, gate, connect, loggingOut, menu, signedOut>>

-----------------------------------------------------------------------------
(* Sign-out. *)

\* The user row is clicked; an open menu also closes at a click elsewhere, at
\* Escape, and at a second "Sign out", of which logout makes nothing.
ToggleMenu ==
    /\ Booted
    /\ menu' = ~menu
    /\ UNCHANGED <<stored, load, gate, connect, iframe, loggingOut, clear, mint, signedOut>>

\* logout after its await: the page is reloaded, whatever clearSession came to.
Reload(how) ==
    /\ signedOut' = how
    /\ loads' = loads + 1
    /\ Load

\* Mutant: the page does not wait for clearSession.
SignOutAtOnce ==
    /\ Booted /\ menu /\ ~loggingOut /\ loads < MaxLoads
    /\ Reload("yes")
    /\ UNCHANGED stored

\* "Sign out" in the menu: it closes, and logout runs up to its await of
\* clearSession, which posts to the session iframe, also when that is loading
\* and may not hear it, or loads an iframe of its own.
\* bounded: not on the last load.
SignOut ==
    /\ Booted /\ menu /\ ~loggingOut /\ loads < MaxLoads
    /\ menu' = FALSE
    /\ loggingOut' = TRUE
    /\ clear' \in CASE iframe = "none" -> {"own"}
                    [] iframe = "loading" -> {"posted", "lost"}
                    [] iframe = "live" -> {"posted"}
    /\ UNCHANGED <<stored, load, gate, connect, iframe, mint, signedOut>>

\* The provider forgets the session.
ClearHeard ==
    /\ clear \in {"posted", "own"}
    /\ clear' = "heard" /\ stored' = FALSE
    /\ UNCHANGED <<load, gate, connect, iframe, loggingOut, mint, menu, signedOut>>

\* Its answer comes, clearSession resolves and logout goes on.
ClearAnswers ==
    /\ loggingOut /\ clear = "heard"
    /\ Reload("yes")
    /\ UNCHANGED stored

\* Mutant: the page is only reloaded when the provider has answered.
ClearTimesOutAsHeard ==
    /\ loggingOut /\ clear = "heard"
    /\ Reload("late")
    /\ UNCHANGED stored

\* The SDK's three seconds pass, heard or not, and clearSession resolves too.
ClearTimesOut ==
    /\ loggingOut
    /\ Reload("late")
    /\ UNCHANGED stored

\* The user reloads the page, a sign-out under way or not.
UserReloads ==
    /\ loads < MaxLoads
    /\ Reload("no")
    /\ UNCHANGED stored

Next ==
    \/ ClickSignIn \/ SessionAnswers \/ SessionTimesOut
    \/ ResumeRejected \/ Authenticated \/ SettlesWithout
    \/ SessionExpires
    \/ \E m \in Minters : Mint(m) \/ \E o \in {"token", "refused"} : MintSettles(m, o)
    \/ ToggleMenu \/ SignOut \/ ClearHeard \/ ClearAnswers \/ ClearTimesOut
    \/ UserReloads

\* The timer of clearSession fires.  Nothing is assumed of the provider.
Spec == Init /\ [][Next]_shellVars /\ WF_shellVars(ClearTimesOut)

-----------------------------------------------------------------------------
\* privasys-shell.js:232-233 and 221-223: the page never stays behind the gate.
\* When no sign-in is under way there is a button to start one, or the gate is
\* gone, also when the transport or dsh threw; never a second sign-in, and no
\* gate in front of a dsh that was started.
WayForward ==
    /\ running = 0 => button \/ hidden
    /\ running > 0 => ~button /\ ~hidden
    /\ hidden <=> dsh # "none"

\* privasys-shell.js:395-398: the page that a sign-out loads does not restore the
\* session silently, unless the SDK's limit passed before the provider's answer:
\* the reload waits for one of them.
RestoredOnlyLate == connect = "resume" => signedOut # "yes"

\* privasys-shell.js:397-398: a sign-out reloads the page, whether clearSession
\* is heard, lost on an iframe that is loading, or removed with its iframe.
SignOutEnds == loggingOut ~> ~loggingOut

\* privasys-shell.js:452-454: however the two mints, the expiry of the
\* session and a sign-out meet, none is refused for want of an iframe while the
\* provider has a session that it tells of in time.
MintRefusedForCause ==
    [][\A m \in Minters : mint[m] # "refused" /\ mint'[m] = "refused" =>
            mint[m] \in {"asked", "lost"} \/ ~stored \/ SessionTimesOut]_shellVars
=============================================================================
