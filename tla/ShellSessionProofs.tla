------------------------- MODULE ShellSessionProofs -------------------------
(***************************************************************************)
(* Proofs about ShellSession for any number of loads of the page: no page  *)
(* stays behind the gate, a sign-out that did not come to the SDK's limit  *)
(* is not undone by a silent restore, and a mint is refused for a cause.   *)
(***************************************************************************)
EXTENDS ShellSession, TLAPS

\* A sign-out under way belongs to a booted page, on which no sign-in goes on
\* and none can be started;
\* so nothing makes the provider remember a session it has cleared, until the
\* page has been loaded again and a ceremony has begun.
SignOutInv ==
    /\ button => ~hidden
    /\ loggingOut => Booted /\ loads < MaxLoads
    /\ clear # "none" => loggingOut
    /\ clear = "heard" => ~stored
    /\ signedOut = "yes" => ~stored /\ connect \in {"none", "get"}

ShellInv == ShellTypeOK /\ WayForward /\ SignOutInv

LEMMA ShellInit == Init => ShellInv
  <1> SUFFICES ASSUME Init PROVE ShellInv
    OBVIOUS
  <1>1. /\ button \in BOOLEAN /\ stored \in BOOLEAN /\ sdk \in BOOLEAN /\ hook \in BOOLEAN
        /\ loads = 1 /\ hidden = FALSE /\ dsh = "none"
        /\ loggingOut = FALSE /\ clear = "none" /\ menu = FALSE /\ signedOut = "no"
        /\ mint = [m \in Minters |-> "none"]
    BY DEF Init
  <1>2. \/ running = 1 /\ connect = "get" /\ iframe = "loading" /\ ~button
        \/ running = 0 /\ connect = "none" /\ iframe = "none" /\ button
    <2>1. CASE sdk
      <3>1. ~button
        BY <2>1 DEF Init
      <3> QED BY <2>1, <3>1 DEF Init
    <2>2. CASE ~sdk
      <3>1. button
        BY <2>2 DEF Init
      <3> QED BY <2>2, <3>1 DEF Init
    <2> QED BY <2>1, <2>2
  <1>3. ShellTypeOK
    <2>1. loads \in 1..MaxLoads
      BY <1>1, LoadsAssumption
    <2>2. running \in {0, 1} /\ (running = 0 <=> connect = "none")
      BY <1>2
    <2>3. connect \in {"none", "get"} /\ iframe \in {"none", "loading"}
      BY <1>2
    <2> QED BY <1>1, <2>1, <2>2, <2>3 DEF ShellTypeOK, Flags
  <1>4. WayForward
    BY <1>1, <1>2 DEF WayForward
  <1>5. SignOutInv
    BY <1>1 DEF SignOutInv
  <1> QED BY <1>3, <1>4, <1>5 DEF ShellInv

\* A run that starts, at the load of a page or at a click.
LEMMA RunStarts ==
    ASSUME sdk' \in BOOLEAN, Run
    PROVE  /\ button' \in BOOLEAN /\ hidden' \in BOOLEAN /\ ~hidden'
           /\ \/ running' = 1 /\ connect' = "get" /\ iframe' = "loading" /\ ~button'
              \/ running' = 0 /\ connect' = "none" /\ iframe' = "none" /\ button'
  <1>1. button' \in BOOLEAN /\ hidden' \in BOOLEAN
    BY DEF Run
  <1>2. ~hidden'
    BY DEF Run
  <1>3. CASE sdk'
    <2>1. ~button'
      BY <1>3 DEF Run
    <2>2. running' = 1 /\ connect' = "get" /\ iframe' = "loading"
      BY <1>3 DEF Run
    <2> QED BY <1>1, <1>2, <2>1, <2>2
  <1>4. CASE ~sdk'
    <2>1. button'
      BY <1>4 DEF Run
    <2>2. running' = 0 /\ connect' = "none" /\ iframe' = "none"
      BY <1>4 DEF Run
    <2> QED BY <1>1, <1>2, <2>1, <2>2
  <1> QED BY <1>3, <1>4

\* A page that has been loaded is as the first one, whatever the provider
\* remembers, unless a sign-out came to an answer.
LEMMA LoadKeeps ==
    ASSUME ShellInv, Load,
           loads < MaxLoads, loads' = loads + 1, stored' = stored,
           signedOut' \in {"no", "yes", "late"},
           signedOut' = "yes" => ~stored
    PROVE  ShellInv'
  <1>1. /\ sdk' \in BOOLEAN /\ hook' \in BOOLEAN /\ dsh' = "none"
        /\ loggingOut' = FALSE /\ clear' = "none" /\ menu' = FALSE /\ Run
        /\ mint' = [m \in Minters |-> "none"]
    BY DEF Load
  <1>2. /\ button' \in BOOLEAN /\ hidden' \in BOOLEAN /\ ~hidden'
        /\ \/ running' = 1 /\ connect' = "get" /\ iframe' = "loading" /\ ~button'
           \/ running' = 0 /\ connect' = "none" /\ iframe' = "none" /\ button'
    BY <1>1, RunStarts
  <1>3. Flags'
    BY <1>1, <1>2 DEF ShellInv, ShellTypeOK, Flags
  <1>4. loads' \in 1..MaxLoads
    BY LoadsAssumption DEF ShellInv, ShellTypeOK
  <1>5. running' \in {0, 1} /\ (running' = 0 <=> connect' = "none")
    BY <1>2
  <1>6. connect' \in {"none", "get"} /\ iframe' \in {"none", "loading"}
    BY <1>2
  <1>7. ShellTypeOK'
    BY <1>1, <1>3, <1>4, <1>5, <1>6 DEF ShellTypeOK
  <1>8. WayForward'
    BY <1>1, <1>2 DEF WayForward
  <1>9. SignOutInv'
    BY <1>1, <1>2, <1>6 DEF SignOutInv
  <1> QED BY <1>7, <1>8, <1>9 DEF ShellInv

\* A click starts a run again, on a page that is not booted.
LEMMA ClickKeeps == ASSUME ShellInv, ClickSignIn PROVE ShellInv'
  <1>1. /\ running = 0 /\ dsh = "none" /\ ~loggingOut /\ clear = "none"
        /\ stored \in BOOLEAN /\ sdk \in BOOLEAN /\ hook \in BOOLEAN
    BY DEF ClickSignIn, ShellInv, ShellTypeOK, Flags, WayForward, SignOutInv, Booted
  <1>2. /\ UNCHANGED <<stored, loads, sdk, hook, dsh, loggingOut, clear, mint, menu,
                       signedOut>>
        /\ Run
    BY DEF ClickSignIn, load
  <1>3. /\ button' \in BOOLEAN /\ hidden' \in BOOLEAN /\ ~hidden'
        /\ \/ running' = 1 /\ connect' = "get" /\ iframe' = "loading" /\ ~button'
           \/ running' = 0 /\ connect' = "none" /\ iframe' = "none" /\ button'
    BY <1>1, <1>2, RunStarts
  <1>4. Flags'
    BY <1>2, <1>3 DEF ShellInv, ShellTypeOK, Flags
  <1>5. running' \in {0, 1} /\ (running' = 0 <=> connect' = "none")
    BY <1>3
  <1>6. connect' \in {"none", "get"} /\ iframe' \in {"none", "loading"}
    BY <1>3
  <1>7. ShellTypeOK'
    BY <1>2, <1>4, <1>5, <1>6 DEF ShellInv, ShellTypeOK
  <1>8. WayForward'
    BY <1>1, <1>2, <1>3 DEF WayForward
  <1>9. SignOutInv'
    BY <1>1, <1>2, <1>3, <1>6 DEF ShellInv, SignOutInv, Booted
  <1> QED BY <1>7, <1>8, <1>9 DEF ShellInv

\* The end of a run: it was under way, so that there is no dsh to sign out of.
LEMMA RunEnds == ASSUME ShellInv, Authenticated \/ SettlesWithout PROVE ShellInv'
  <1>1. /\ connect \in {"resume", "ceremony"} /\ connect' = "none" /\ running' = 0
        /\ hook' = hook /\ loggingOut' = loggingOut /\ clear' = clear
        /\ signedOut' = signedOut
        /\ \/ /\ hidden' = TRUE /\ button' = FALSE
              /\ dsh' \in {"sealed", "plain", "threw", "missing"}
           \/ hidden' = FALSE /\ button' = TRUE /\ dsh' = dsh
    BY DEF Authenticated, SettlesWithout, load
  <1>2. dsh = "none" /\ ~loggingOut /\ clear = "none" /\ signedOut # "yes"
    BY <1>1 DEF ShellInv, ShellTypeOK, WayForward, SignOutInv, Booted
  <1>3. Flags'
    BY DEF Authenticated, SettlesWithout, load, ShellInv, ShellTypeOK, Flags
  <1>4. ShellTypeOK'
    BY <1>1, <1>3 DEF Authenticated, SettlesWithout, load, ShellInv, ShellTypeOK
  <1>5. WayForward'
    BY <1>1, <1>2 DEF WayForward
  <1>6. SignOutInv'
    BY <1>1, <1>2 DEF SignOutInv
  <1> QED BY <1>4, <1>5, <1>6 DEF ShellInv

\* The steps between the start of a run and its end, and of a booted page.
LEMMA PageKeeps ==
    ASSUME ShellInv,
           \/ SessionAnswers \/ SessionTimesOut \/ ResumeRejected
           \/ \E m \in Minters : Mint(m) \/ \E o \in {"token", "refused"} : MintSettles(m, o)
           \/ ToggleMenu \/ SignOut
    PROVE  ShellInv'
  <1> USE DEF ShellInv, ShellTypeOK, Flags, WayForward, SignOutInv, Booted, gate, load
  <1>1. CASE SessionAnswers
    BY <1>1 DEF SessionAnswers, GetSessionResolves
  <1>2. CASE SessionTimesOut
    BY <1>2 DEF SessionTimesOut, GetSessionResolves
  <1>3. CASE ResumeRejected
    BY <1>3 DEF ResumeRejected
  <1>4. ASSUME NEW m \in Minters, Mint(m) PROVE ShellInv'
    BY <1>4 DEF Mint
  <1>5. ASSUME NEW m \in Minters, NEW o \in {"token", "refused"}, MintSettles(m, o)
        PROVE ShellInv'
    BY <1>5 DEF MintSettles
  <1>6. CASE ToggleMenu
    BY <1>6 DEF ToggleMenu
  <1>7. CASE SignOut
    BY <1>7 DEF SignOut
  <1> QED BY <1>1, <1>2, <1>3, <1>4, <1>5, <1>6, <1>7

\* The provider forgets the session, told to or by itself.
LEMMA ForgetKeeps == ASSUME ShellInv, ClearHeard \/ SessionExpires PROVE ShellInv'
  <1>1. /\ stored' = FALSE
        /\ UNCHANGED <<loads, sdk, hook, running, button, hidden, dsh,
                       connect, loggingOut, menu, signedOut>>
    BY DEF ClearHeard, SessionExpires, gate, load
  <1>2. /\ clear' \in {"none", "posted", "own", "lost", "heard"}
        /\ clear' = "none" <=> clear = "none"
        /\ iframe' \in {"none", "loading", "live"}
        /\ mint' \in [Minters -> {"none", "prime", "asked", "lost", "token", "refused"}]
    BY DEF ClearHeard, SessionExpires, ShellInv, ShellTypeOK
  <1>3. Flags'
    BY <1>1 DEF ShellInv, ShellTypeOK, Flags
  <1>4. ShellTypeOK'
    BY <1>1, <1>2, <1>3 DEF ShellInv, ShellTypeOK
  <1>5. WayForward'
    BY <1>1 DEF ShellInv, WayForward
  <1>6. SignOutInv'
    BY <1>1, <1>2 DEF ShellInv, SignOutInv, Booted
  <1> QED BY <1>4, <1>5, <1>6 DEF ShellInv

\* The page is loaded again, by a sign-out that has ended or by the user.
LEMMA ReloadKeeps ==
    ASSUME ShellInv,
           UserReloads \/ ClearAnswers \/ ClearTimesOut
    PROVE  ShellInv'
  <1>1. /\ Load /\ loads' = loads + 1 /\ stored' = stored
        /\ signedOut' \in {"no", "yes", "late"}
    BY DEF UserReloads, ClearAnswers, ClearTimesOut, Reload
  <1>2. loads < MaxLoads
    BY DEF UserReloads, ClearAnswers, ClearTimesOut, ShellInv, SignOutInv
  <1>3. signedOut' = "yes" => ~stored
    BY DEF UserReloads, ClearAnswers, ClearTimesOut, Reload, ShellInv, SignOutInv
  <1> QED BY <1>1, <1>2, <1>3, LoadKeeps

LEMMA ShellKeeps == ShellInv /\ [Next]_shellVars => ShellInv'
  <1> SUFFICES ASSUME ShellInv, [Next]_shellVars PROVE ShellInv'
    OBVIOUS
  <1>1. CASE UNCHANGED shellVars
    BY <1>1 DEF shellVars, gate, load, ShellInv, ShellTypeOK, Flags, WayForward, SignOutInv, Booted
  <1> QED
    BY <1>1, ClickKeeps, RunEnds, PageKeeps, ForgetKeeps, ReloadKeeps DEF Next

LEMMA ShellInvariance == Spec => []ShellInv
  BY ShellInit, ShellKeeps, PTL DEF Spec

\* privasys-shell.js:232-233, through any number of loads: no page is left
\* behind the gate without a button, whatever throws, and no second sign-in is
\* started.
THEOREM NeverStuckBehindTheGate == Spec => []WayForward
  <1>1. ShellInv => WayForward
    BY DEF ShellInv
  <1> QED BY <1>1, ShellInvariance, PTL

\* privasys-shell.js:395-398, through any number of loads: no silent restore on
\* the page that a sign-out has loaded, unless the SDK's limit had passed.
THEOREM SignOutIsKept == Spec => []RestoredOnlyLate
  <1>1. ShellInv => RestoredOnlyLate
    BY DEF ShellInv, SignOutInv, RestoredOnlyLate
  <1> QED BY <1>1, ShellInvariance, PTL

\* A mint is refused by the iframe it asked, or because no session was found.
LEMMA RefusalHasCause ==
    ASSUME ShellInv, [Next]_shellVars, NEW m \in Minters,
           mint[m] # "refused", mint'[m] = "refused", ~SessionTimesOut
    PROVE  mint[m] \in {"asked", "lost"} \/ ~stored
  <1>1. CASE Load
    BY <1>1 DEF Load
  <1>2. CASE SessionAnswers
    BY <1>2 DEF SessionAnswers, GetSessionResolves
  <1>3. ASSUME NEW o \in {"token", "refused"}, NEW n \in Minters, MintSettles(n, o)
        PROVE  mint[m] \in {"asked", "lost"}
    BY <1>3 DEF MintSettles, ShellInv, ShellTypeOK
  <1>4. ASSUME NEW n \in Minters, Mint(n)
        PROVE  mint'[m] # "refused"
    BY <1>4 DEF Mint, ShellInv, ShellTypeOK
  <1>5. CASE SessionExpires
    BY <1>5 DEF SessionExpires
  <1>6. CASE UNCHANGED mint
    BY <1>6
  <1> QED
    BY <1>1, <1>2, <1>3, <1>4, <1>5, <1>6
    DEF Next, shellVars, ClickSignIn, ResumeRejected, Authenticated, SettlesWithout,
        ToggleMenu, SignOut, ClearHeard, ClearAnswers, ClearTimesOut, UserReloads, Reload

\* privasys-shell.js:452-454, through any number of loads: a mint that comes
\* before the iframe, or between two of them, waits for one, and is refused for
\* want of it only when the provider has no session or does not tell in time.
THEOREM RefusedForCauseOnly == Spec => MintRefusedForCause
  <1> DEFINE Caused ==
          \A m \in Minters : mint[m] # "refused" /\ mint'[m] = "refused" =>
              mint[m] \in {"asked", "lost"} \/ ~stored \/ SessionTimesOut
  <1>1. ShellInv /\ [Next]_shellVars => [Caused]_shellVars
    BY RefusalHasCause
  <1> QED BY <1>1, ShellInvariance, PTL DEF Spec, MintRefusedForCause
=============================================================================
