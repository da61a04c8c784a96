----------------------- MODULE AttestationViewProofs -----------------------
(***************************************************************************)
(* Proofs about AttestationView for any tools, any number of inspections   *)
(* and any number of returns from a local tool: what is left on display    *)
(* when nothing is under way, and how many requests the effects make.      *)
(***************************************************************************)
EXTENDS AttestationView, TLAPS

\* A spinner turns for something that is under way; and whoever is looked at
\* has been asked, with an answer, an error or an inspection to show for it.
SpinnerInv ==
    /\ loading => inspects # {}
    /\ verifying => verifies # {}
    /\ check.state = "verifying" => checks # {}
    /\ lastAuto # NoTarget => result # None \/ failed \/ inspects # {}
    /\ "inspect" \notin effects /\ target # NoTarget => lastAuto = target

\* Inspections have numbers of their own, and what has not been answered has not
\* been verified.  A verification that is due is a first one, or one for a return.
RequestInv ==
    /\ minted = IF mint = "none" THEN 0 ELSE 1
    /\ result.n <= begun
    /\ \A i \in inspects :
          /\ i[1] <= begun /\ i[1] # result.n /\ tried[i[1]] = 0
          /\ \A j \in inspects : i[1] = j[1] => i = j
    /\ \A n \in Numbers : n > begun => tried[n] = 0
    /\ \A n \in Numbers : tried[n] <= 1 + returned
    /\ "verify" \in effects /\ target # NoTarget /\ result # None =>
          tried[result.n] <= returned

\* Unless two verifications overlapped: one that is under way is of the result
\* on display, and without one there is its verdict, or a reason for none.
VerdictInv ==
    /\ "verifications" \notin overlapped
    /\ result # None /\ result.quote = "real" /\ target # NoTarget
    /\ "verify" \notin effects
    => /\ \A r \in verifies : r[1] = result.n
       /\ verifies = {} /\ inspects = {} /\ ~failed /\ ~unverified =>
              verdict # None /\ verdict.n = result.n

\* Unless two inspections overlapped: one that is under way is of the target
\* inspected last, and without one so is the report.
ReportInv ==
    "inspections" \notin overlapped =>
        /\ \A i \in inspects : i[2] = lastAuto
        /\ inspects = {} /\ ~failed /\ result # None => result.about = lastAuto

\* A hash under way, or told of, is that of the report on display, unless a new
\* one is due.
FreshInv ==
    /\ view = "tab" => open
    /\ view = "row" => target = Harness
    /\ ~Displayed => check = Idle /\ checks = {}
    /\ "check" \in effects => Displayed /\ result # None
    /\ "check" \notin effects =>
          /\ checks \subseteq {result.n}
          /\ check.state = "told" => check.n = result.n

ViewInv ==
    ViewTypeOK /\ SpinnerInv /\ RequestInv /\ VerdictInv /\ ReportInv /\ FreshInv

-----------------------------------------------------------------------------
(* What the types say, in the form the proofs below need it. *)

LEMMA ResultShape ==
    ASSUME ViewTypeOK
    PROVE  /\ result.n \in 0..MaxInspects
           /\ result # None => result \in Results /\ result.n \in Numbers
           /\ result.n \in Numbers => result # None
  <1>1. CASE result = None
    BY <1>1, ViewAssumption DEF None, Numbers
  <1>2. CASE result \in Results
    <2>1. result.n \in 1..MaxInspects
      BY <1>2 DEF Results, Numbers
    <2> QED BY <1>2, <2>1, ViewAssumption DEF None, Numbers
  <1> QED BY <1>1, <1>2 DEF ViewTypeOK

\* An inspection that is begun gets a number nobody has.
LEMMA BeginKeeps ==
    ASSUME ViewInv, target # NoTarget, StartInspect, lastAuto' = target,
           effects' = effects \ {"inspect"}
    PROVE  ViewInv'
  <1>1. /\ begun < MaxInspects /\ begun' = begun + 1 /\ begun' \in Numbers
        /\ inspects' = inspects \cup {<<begun', target>>}
        /\ loading' = TRUE /\ failed' = FALSE /\ unverified' = FALSE /\ verdict' = None
        /\ UNCHANGED <<view, target, open, check, checks, result, verifying, verifies,
                       mint, pinned, tried, minted, returned>>
        /\ overlapped' = IF inspects = {} THEN overlapped
                         ELSE overlapped \cup {"inspections"}
    BY ViewAssumption DEF StartInspect, place, report, ViewInv, ViewTypeOK, Numbers
  <1>2. begun \in Nat /\ target \in Targets /\ result.n <= begun
    BY ViewAssumption DEF ViewInv, ViewTypeOK, RequestInv
  <1>3. ViewTypeOK'
    <2>1. inspects' \subseteq Numbers \X Targets
      BY <1>1, <1>2 DEF ViewInv, ViewTypeOK
    <2>2. overlapped' \subseteq {"inspections", "verifications"}
      BY <1>1 DEF ViewInv, ViewTypeOK
    <2>3. {loading', verifying', failed', unverified'} \subseteq BOOLEAN
      BY <1>1 DEF ViewInv, ViewTypeOK
    <2> QED BY <1>1, <2>1, <2>2, <2>3 DEF ViewInv, ViewTypeOK, Numbers
  <1>4. SpinnerInv'
    BY <1>1 DEF ViewInv, SpinnerInv
  <1>5. RequestInv'
    <2>1. begun' > begun /\ begun' # result.n /\ tried[begun'] = 0
      BY <1>1, <1>2 DEF ViewInv, ViewTypeOK, RequestInv
    <2>2. \A i \in inspects : i[1] <= begun /\ i[1] \in Nat
      BY DEF ViewInv, ViewTypeOK, RequestInv, Numbers
    <2>3. ASSUME NEW i \in inspects'
          PROVE  /\ i[1] <= begun' /\ i[1] # result'.n /\ tried'[i[1]] = 0
                 /\ \A j \in inspects' : i[1] = j[1] => i = j
      <3>1. CASE i \in inspects
        BY <1>1, <1>2, <2>1, <2>2, <3>1 DEF ViewInv, RequestInv
      <3>2. CASE i = <<begun', target>>
        BY <1>1, <1>2, <2>1, <2>2, <3>2
      <3> QED BY <1>1, <3>1, <3>2
    <2>4. \A n \in Numbers : n > begun' => tried'[n] = 0
      BY <1>1, <1>2 DEF ViewInv, RequestInv, Numbers
    <2>5. "verify" \in effects' => "verify" \in effects
      OBVIOUS
    <2>6. "verify" \in effects' /\ target' # NoTarget /\ result' # None =>
              tried'[result'.n] <= returned'
      BY <1>1, <2>5 DEF ViewInv, RequestInv
    <2>7. minted' = (IF mint' = "none" THEN 0 ELSE 1) /\ result'.n <= begun'
      BY <1>1, <1>2, ResultShape, ViewAssumption DEF ViewInv, RequestInv
    <2>8. \A n \in Numbers : tried'[n] <= 1 + returned'
      BY <1>1 DEF ViewInv, RequestInv
    <2> QED BY <2>3, <2>4, <2>6, <2>7, <2>8 DEF RequestInv
  <1>6. VerdictInv'
    <2>1. "verify" \in effects' <=> "verify" \in effects
      OBVIOUS
    <2>2. "verifications" \in overlapped' <=> "verifications" \in overlapped
      BY <1>1
    <2>3. inspects' # {}
      BY <1>1
    <2>4. ASSUME "verifications" \notin overlapped', result' # None,
                 result'.quote = "real", target' # NoTarget, "verify" \notin effects'
          PROVE  /\ \A r \in verifies' : r[1] = result'.n
                 /\ inspects' # {}
      BY <1>1, <2>1, <2>2, <2>3, <2>4 DEF ViewInv, VerdictInv
    <2> QED BY <2>4 DEF VerdictInv
  <1>7. ReportInv'
    <2>1. inspects' # {}
      BY <1>1
    <2>2. ASSUME "inspections" \notin overlapped'
          PROVE  \A i \in inspects' : i[2] = target
      <3>1. inspects = {}
        BY <1>1, <2>2
      <3> QED BY <1>1, <3>1
    <2> QED BY <2>1, <2>2 DEF ReportInv
  <1>8. FreshInv'
    BY <1>1 DEF ViewInv, FreshInv, Displayed
  <1> QED BY <1>3, <1>4, <1>5, <1>6, <1>7, <1>8 DEF ViewInv

\* The effects that find nothing to do, or are due once more.
LEMMA EffectKeeps ==
    ASSUME ViewInv, NEW e \in {"inspect", "verify"},
           UNCHANGED <<place, report, lastAuto, stateVars, inspects, verifies, mint,
                       pinned, history>>,
           \/ effects' = {"inspect"} /\ effects = {}
           \/ /\ effects' = effects \ {e}
              /\ e = "inspect" => target = NoTarget \/ lastAuto = target
              /\ e = "verify" => ~Verifiable
    PROVE  ViewInv'
  <1>1. /\ UNCHANGED <<view, target, open, lastAuto, result, verdict, loading, verifying,
                       failed, unverified, inspects, verifies, mint, pinned, check, checks>>
        /\ UNCHANGED <<begun, tried, minted, returned, overlapped>>
        /\ effects' \subseteq {"inspect", "verify", "check"}
    BY DEF place, report, stateVars, history, ViewInv, ViewTypeOK
  <1>2. ViewTypeOK'
    BY <1>1 DEF ViewInv, ViewTypeOK
  <1>3. SpinnerInv'
    BY <1>1 DEF ViewInv, SpinnerInv
  <1>4. RequestInv'
    <2>1. "verify" \in effects' => "verify" \in effects
      OBVIOUS
    <2> QED BY <1>1, <2>1 DEF ViewInv, RequestInv
  <1>5. VerdictInv'
    <2>1. "verify" \notin effects' => "verify" \notin effects \/ ~Verifiable
      OBVIOUS
    <2> QED BY <1>1, <2>1 DEF ViewInv, VerdictInv, Verifiable
  <1>6. ReportInv'
    BY <1>1 DEF ViewInv, ReportInv
  <1>7. FreshInv'
    <2>1. "check" \in effects' <=> "check" \in effects
      OBVIOUS
    <2> QED BY <1>1, <2>1 DEF ViewInv, FreshInv, Displayed
  <1> QED BY <1>2, <1>3, <1>4, <1>5, <1>6, <1>7 DEF ViewInv

\* A tab that is given another tool.  The result that is there becomes due for
\* one verification more when the tab returns from a local tool.
LEMMA SelectKeeps ==
    ASSUME ViewInv, NEW t \in Tools \cup {NoTarget}, SelectTarget(t)
    PROVE  ViewInv'
  <1>1. /\ UNCHANGED <<view, open, lastAuto, result, verdict, loading, verifying,
                       failed, unverified, inspects, verifies, mint, pinned>>
        /\ UNCHANGED <<begun, tried, minted, overlapped>>
        /\ effects = {} /\ view = "tab" /\ open /\ target' = t /\ t # target
        /\ effects' \subseteq {"inspect", "verify", "check"} /\ "inspect" \in effects'
    BY DEF SelectTarget, stateVars, ViewInv, FreshInv
  <1>2. /\ returned \in Nat /\ returned' \in Nat /\ returned <= returned'
        /\ target = NoTarget => returned' = returned + 1
    BY DEF SelectTarget, ViewInv, ViewTypeOK
  <1>3. \/ /\ NoTarget \in {t, target} /\ check' = Idle /\ checks' = {}
           /\ "verify" \in effects'
           /\ "check" \in effects' <=> target = NoTarget /\ result # None
        \/ /\ NoTarget \notin {t, target} /\ UNCHANGED <<check, checks>>
           /\ effects' = {"inspect"}
    BY DEF SelectTarget, ShowReport, report
  <1>4. ViewTypeOK'
    <2>1. t \in Targets \cup {NoTarget} /\ Idle \in Checks
      BY ViewAssumption DEF Targets, Idle, Checks
    <2>2. check' \in Checks /\ checks' \subseteq Numbers
      BY <1>3, <2>1 DEF ViewInv, ViewTypeOK
    <2> QED BY <1>1, <1>2, <2>1, <2>2 DEF ViewInv, ViewTypeOK
  <1>5. SpinnerInv'
    <2>1. check'.state = "verifying" => checks' # {}
      BY <1>3 DEF ViewInv, SpinnerInv, Idle
    <2> QED BY <1>1, <2>1 DEF ViewInv, SpinnerInv
  <1>6. RequestInv'
    <2>1. ASSUME "verify" \in effects', target' # NoTarget, result' # None
          PROVE  tried'[result'.n] <= returned'
      <3>1. target = NoTarget
        BY <1>1, <1>3, <2>1
      <3>2. result.n \in Numbers
        BY <1>1, <2>1, ResultShape DEF ViewInv
      <3>3. tried[result.n] <= 1 + returned /\ tried[result.n] \in Nat
        BY <3>2 DEF ViewInv, ViewTypeOK, RequestInv
      <3> QED BY <1>1, <1>2, <3>1, <3>3
    <2>2. \A n \in Numbers : tried'[n] <= 1 + returned'
      <3> SUFFICES ASSUME NEW n \in Numbers PROVE tried'[n] <= 1 + returned'
        OBVIOUS
      <3>1. tried[n] <= 1 + returned /\ tried[n] \in Nat
        BY DEF ViewInv, ViewTypeOK, RequestInv
      <3> QED BY <1>1, <1>2, <3>1
    <2> QED BY <1>1, <2>1, <2>2 DEF ViewInv, RequestInv
  <1>7. VerdictInv'
    <2>1. "verify" \in effects' \/ (target # NoTarget /\ target' # NoTarget)
      BY <1>1, <1>3
    <2> QED BY <1>1, <2>1 DEF ViewInv, VerdictInv
  <1>8. ReportInv'
    BY <1>1 DEF ViewInv, ReportInv
  <1>9. FreshInv'
    <2>1. view' # "row"
      BY <1>1
    <2>2. CASE NoTarget \in {t, target}
      <3>1. check'.state # "told" /\ checks' = {} /\ check' = Idle
        BY <1>3, <2>2 DEF Idle
      <3>2. "check" \in effects' => t # NoTarget /\ result' # None
        BY <1>1, <1>3, <2>2
      <3> QED BY <1>1, <2>1, <3>1, <3>2 DEF FreshInv, Displayed
    <2>3. CASE NoTarget \notin {t, target}
      BY <1>1, <1>3, <2>1, <2>3 DEF ViewInv, FreshInv, Displayed
    <2> QED BY <2>2, <2>3
  <1> QED BY <1>4, <1>5, <1>6, <1>7, <1>8, <1>9 DEF ViewInv

LEMMA ToggleKeeps == ASSUME ViewInv, TogglePanel PROVE ViewInv'
  <1>1. /\ UNCHANGED <<view, target, lastAuto, result, verdict, loading, verifying,
                       failed, unverified, inspects, verifies, mint, pinned>>
        /\ UNCHANGED <<begun, tried, minted, returned, overlapped>>
        /\ effects = {} /\ view = "row" /\ target = Harness
        /\ open' \in BOOLEAN /\ check' = Idle /\ checks' = {}
        /\ effects' \subseteq {"check"}
        /\ "check" \in effects' => open' /\ result # None
    BY DEF TogglePanel, ShowReport, stateVars, history, ViewInv, ViewTypeOK, FreshInv
  <1>2. Idle \in Checks /\ Idle.state = "idle" /\ Harness # NoTarget
    BY ViewAssumption DEF Idle, Checks, Harness, NoTarget
  <1>3. ViewTypeOK'
    BY <1>1, <1>2 DEF ViewInv, ViewTypeOK
  <1>4. SpinnerInv'
    BY <1>1, <1>2 DEF ViewInv, SpinnerInv
  <1>5. RequestInv'
    BY <1>1 DEF ViewInv, RequestInv
  <1>6. VerdictInv'
    BY <1>1 DEF ViewInv, VerdictInv
  <1>7. ReportInv'
    BY <1>1 DEF ViewInv, ReportInv
  <1>8. FreshInv'
    BY <1>1, <1>2 DEF ViewInv, FreshInv, Displayed
  <1> QED BY <1>3, <1>4, <1>5, <1>6, <1>7, <1>8 DEF ViewInv

\* An answer is a result nobody has verified; what is due for it will be.
LEMMA AnswerKeeps ==
    ASSUME ViewInv, NEW i \in inspects, NEW r \in Results, InspectAnswered(i, r)
    PROVE  ViewInv'
  <1>1. /\ UNCHANGED <<view, target, open, lastAuto, verdict, verifying, failed,
                       unverified, verifies, mint, pinned, check, checks>>
        /\ UNCHANGED <<begun, tried, minted, returned, overlapped>>
        /\ effects = {} /\ r.n = i[1] /\ r.about = i[2]
        /\ inspects' = inspects \ {i} /\ result' = r /\ loading' = FALSE
        /\ effects' \subseteq {"verify", "check"} /\ "verify" \in effects'
        /\ "check" \in effects' <=> Displayed
    BY DEF InspectAnswered, place, report, history
  <1>2. /\ r \in Results /\ r # None /\ r.n \in Numbers /\ r.n <= begun /\ tried[r.n] = 0
        /\ returned \in Nat
    <2>1. r.n \in Numbers
      BY DEF Results
    <2>2. r # None
      BY <2>1 DEF None, Numbers
    <2> QED BY <1>1, <2>1, <2>2 DEF ViewInv, RequestInv, ViewTypeOK
  <1>3. ViewTypeOK'
    BY <1>1, <1>2 DEF ViewInv, ViewTypeOK
  <1>4. SpinnerInv'
    BY <1>1, <1>2 DEF ViewInv, SpinnerInv
  <1>5. RequestInv'
    <2>1. ASSUME NEW j \in inspects'
          PROVE  /\ j[1] <= begun' /\ j[1] # result'.n /\ tried'[j[1]] = 0
                 /\ \A k \in inspects' : j[1] = k[1] => j = k
      BY <1>1 DEF ViewInv, RequestInv
    <2>2. tried'[result'.n] <= returned'
      BY <1>1, <1>2
    <2> QED BY <1>1, <1>2, <2>1, <2>2 DEF ViewInv, RequestInv
  <1>6. VerdictInv'
    BY <1>1 DEF VerdictInv
  <1>7. ReportInv'
    <2>1. ASSUME "inspections" \notin overlapped'
          PROVE  (\A j \in inspects' : j[2] = lastAuto') /\ result'.about = lastAuto'
      BY <1>1, <2>1 DEF ViewInv, ReportInv
    <2> QED BY <2>1 DEF ReportInv
  <1>8. FreshInv'
    BY <1>1, <1>2 DEF ViewInv, FreshInv, Displayed, Idle
  <1> QED BY <1>3, <1>4, <1>5, <1>6, <1>7, <1>8 DEF ViewInv

LEMMA FailKeeps == ASSUME ViewInv, NEW i \in inspects, InspectFails(i) PROVE ViewInv'
  <1>1. /\ UNCHANGED <<view, target, open, lastAuto, result, verdict, verifying,
                       unverified, effects, verifies, mint, pinned, check, checks>>
        /\ UNCHANGED <<begun, tried, minted, returned, overlapped>>
        /\ inspects' = inspects \ {i} /\ loading' = FALSE /\ failed' = TRUE
    BY DEF InspectFails, place, report, history
  <1>2. ViewTypeOK'
    BY <1>1 DEF ViewInv, ViewTypeOK
  <1>3. SpinnerInv'
    BY <1>1 DEF ViewInv, SpinnerInv
  <1>4. RequestInv'
    BY <1>1 DEF ViewInv, RequestInv
  <1>5. VerdictInv'
    BY <1>1 DEF ViewInv, VerdictInv
  <1>6. ReportInv'
    BY <1>1 DEF ViewInv, ReportInv
  <1>7. FreshInv'
    BY <1>1 DEF ViewInv, FreshInv, Displayed
  <1> QED BY <1>2, <1>3, <1>4, <1>5, <1>6, <1>7 DEF ViewInv

\* A verification is begun for the result on display: it was due.
LEMMA VerifyKeeps ==
    ASSUME ViewInv, VerifyEffect, Verifiable
    PROVE  ViewInv'
  <1>1. /\ UNCHANGED <<view, target, open, lastAuto, result, verdict, loading, failed,
                       inspects, pinned, check, checks, begun, returned>>
        /\ "verify" \in effects /\ effects' = effects \ {"verify"}
        /\ verifying' = TRUE /\ unverified' = FALSE
        /\ verifies' = verifies \cup {<<result.n, result.good>>}
        /\ mint' = IF mint = "none" THEN "pending" ELSE mint
        /\ minted' = IF mint = "none" THEN minted + 1 ELSE minted
        /\ tried' = [tried EXCEPT ![result.n] = @ + 1]
        /\ overlapped' = IF verifies = {} THEN overlapped
                         ELSE overlapped \cup {"verifications"}
    BY DEF VerifyEffect, place, report
  <1>2. /\ target # NoTarget /\ result # None /\ result \in Results
        /\ result.n \in Numbers /\ result.good \in BOOLEAN
    BY ResultShape DEF Verifiable, ViewInv, Results
  <1>3. /\ tried[result.n] \in Nat /\ tried[result.n] <= returned
        /\ tried'[result.n] = tried[result.n] + 1
        /\ \A n \in Numbers : n # result.n => tried'[n] = tried[n]
        /\ tried' \in [Numbers -> Nat]
    BY <1>1, <1>2 DEF ViewInv, ViewTypeOK, RequestInv
  <1>4. ViewTypeOK'
    <2>1. verifies' \subseteq Numbers \X BOOLEAN
      BY <1>1, <1>2 DEF ViewInv, ViewTypeOK
    <2>2. mint' \in {"none", "pending", "token", "rejected"} /\ minted' \in Nat
      BY <1>1 DEF ViewInv, ViewTypeOK
    <2>3. /\ overlapped' \subseteq {"inspections", "verifications"}
          /\ effects' \subseteq {"inspect", "verify", "check"}
          /\ {loading', verifying', failed', unverified'} \subseteq BOOLEAN
      BY <1>1 DEF ViewInv, ViewTypeOK
    <2> QED BY <1>1, <1>3, <2>1, <2>2, <2>3 DEF ViewInv, ViewTypeOK
  <1>5. SpinnerInv'
    BY <1>1 DEF ViewInv, SpinnerInv
  <1>6. RequestInv'
    <2>1. minted' = IF mint' = "none" THEN 0 ELSE 1
      BY <1>1 DEF ViewInv, ViewTypeOK, RequestInv
    <2>2. ASSUME NEW i \in inspects'
          PROVE  /\ i[1] <= begun' /\ i[1] # result'.n /\ tried'[i[1]] = 0
                 /\ \A j \in inspects' : i[1] = j[1] => i = j
      <3>1. i \in inspects /\ i[1] \in Numbers
        BY <1>1 DEF ViewInv, ViewTypeOK
      <3> QED BY <1>1, <1>3, <3>1 DEF ViewInv, RequestInv
    <2>3. \A n \in Numbers : n > begun' => tried'[n] = 0
      <3> SUFFICES ASSUME NEW n \in Numbers, n > begun PROVE tried'[n] = 0
        BY <1>1
      <3>1. result.n <= begun /\ begun \in Nat
        BY DEF ViewInv, ViewTypeOK, RequestInv
      <3>2. n # result.n
        BY <1>2, <3>1 DEF Numbers
      <3> QED BY <1>3, <3>2 DEF ViewInv, RequestInv
    <2>4. \A n \in Numbers : tried'[n] <= 1 + returned'
      <3> SUFFICES ASSUME NEW n \in Numbers PROVE tried'[n] <= 1 + returned
        BY <1>1
      <3>1. returned \in Nat /\ tried[n] <= 1 + returned
        BY DEF ViewInv, ViewTypeOK, RequestInv
      <3> QED BY <1>3, <3>1
    <2> QED BY <1>1, <2>1, <2>2, <2>3, <2>4 DEF ViewInv, RequestInv
  <1>7. VerdictInv'
    <2>1. verifies' # {}
      BY <1>1
    <2>2. ASSUME "verifications" \notin overlapped'
          PROVE  \A r \in verifies' : r[1] = result'.n
      <3>1. verifies = {}
        BY <1>1, <2>2
      <3> QED BY <1>1, <3>1
    <2> QED BY <2>1, <2>2 DEF VerdictInv
  <1>8. ReportInv'
    BY <1>1 DEF ViewInv, ReportInv
  <1>9. FreshInv'
    <2>1. "check" \in effects' <=> "check" \in effects
      BY <1>1
    <2> QED BY <1>1, <2>1 DEF ViewInv, FreshInv, Displayed
  <1> QED BY <1>4, <1>5, <1>6, <1>7, <1>8, <1>9 DEF ViewInv

\* The end of a verification, with a verdict on the result it was of.
LEMMA VerdictKeeps ==
    ASSUME ViewInv, NEW r \in verifies, VerifyAnswered(r) \/ VerifyFails(r)
    PROVE  ViewInv'
  <1>1. /\ UNCHANGED <<view, target, open, lastAuto, result, loading, failed, effects,
                       inspects, mint, pinned, check, checks>>
        /\ UNCHANGED <<begun, tried, minted, returned, overlapped>>
        /\ verifies' = verifies \ {r} /\ verifying' = FALSE
    BY DEF VerifyAnswered, VerifyFails, place, report, history
  <1>2. \/ verdict' = [n |-> r[1], success |-> r[2]] /\ unverified' = unverified
        \/ unverified' = TRUE /\ verdict' = verdict
    BY DEF VerifyAnswered, VerifyFails
  <1>3. r[1] \in Numbers /\ r[2] \in BOOLEAN
    BY DEF ViewInv, ViewTypeOK
  <1>4. [n |-> r[1], success |-> r[2]] \in Verdicts
    BY <1>3 DEF Verdicts
  <1>5. [n |-> r[1], success |-> r[2]] # None
    <2>1. [n |-> r[1], success |-> r[2]].n # 0
      BY <1>3, ViewAssumption DEF Numbers
    <2> QED BY <2>1 DEF None
  <1>6. ViewTypeOK'
    <2>1. verdict' \in Verdicts \cup {None}
      BY <1>2, <1>4 DEF ViewInv, ViewTypeOK
    <2>2. {loading', verifying', failed', unverified'} \subseteq BOOLEAN
      BY <1>1, <1>2 DEF ViewInv, ViewTypeOK
    <2> QED BY <1>1, <2>1, <2>2 DEF ViewInv, ViewTypeOK
  <1>7. SpinnerInv'
    BY <1>1 DEF ViewInv, SpinnerInv
  <1>8. RequestInv'
    BY <1>1 DEF ViewInv, RequestInv
  <1>9. VerdictInv'
    <2>1. ASSUME "verifications" \notin overlapped', result' # None,
                 result'.quote = "real", target' # NoTarget, "verify" \notin effects'
          PROVE  /\ \A q \in verifies' : q[1] = result'.n
                 /\ ~unverified' => verdict' # None /\ verdict'.n = result'.n
      <3>1. \A q \in verifies : q[1] = result.n
        BY <1>1, <2>1 DEF ViewInv, VerdictInv
      <3> QED BY <1>1, <1>2, <1>5, <3>1
    <2> QED BY <2>1 DEF VerdictInv
  <1>10. ReportInv'
    BY <1>1 DEF ViewInv, ReportInv
  <1>11. FreshInv'
    BY <1>1 DEF ViewInv, FreshInv, Displayed
  <1> QED BY <1>6, <1>7, <1>8, <1>9, <1>10, <1>11 DEF ViewInv

\* The hash of the report that has come on display, or another hash that ends.
LEMMA CheckKeeps ==
    ASSUME ViewInv, CheckEffect \/ \E n \in checks : CheckSettles(n)
    PROVE  ViewInv'
  <1>1. /\ UNCHANGED <<view, target, open, lastAuto, result, verdict, loading, verifying,
                       failed, unverified, inspects, verifies, mint, pinned>>
        /\ UNCHANGED <<begun, tried, minted, returned, overlapped>>
        /\ effects' = effects \ {"check"} /\ (checks # {} => Displayed)
        /\ result.n \in 0..MaxInspects
    BY ResultShape DEF CheckEffect, CheckSettles, place, stateVars, history, ViewInv, FreshInv
  <1>2. /\ Displayed /\ check' \in Checks /\ checks' \subseteq Numbers \cap {result.n}
        /\ check'.state = "verifying" => checks' # {}
        /\ check'.state = "told" => check'.n = result.n
    <2>1. CASE CheckEffect
      <3>1. Displayed /\ result.n \in Numbers
        BY <2>1, ResultShape DEF CheckEffect, ViewInv, FreshInv
      <3>2. \/ check' = Idle /\ checks' = {}
            \/ check' = [state |-> "verifying", n |-> 0] /\ checks' = {result.n}
        BY <2>1 DEF CheckEffect
      <3> QED BY <3>1, <3>2, ViewAssumption DEF Idle, Checks
    <2>2. ASSUME NEW n \in checks, CheckSettles(n)
          PROVE  /\ Displayed /\ check' \in Checks /\ checks' \subseteq Numbers \cap {result.n}
                 /\ check'.state = "verifying" => checks' # {}
                 /\ check'.state = "told" => check'.n = result.n
      <3>1. n \in Numbers /\ n = result.n /\ checks \subseteq {result.n} /\ Displayed
        BY <1>1, <2>2 DEF CheckSettles, ViewInv, ViewTypeOK, FreshInv
      <3>2. check' = [state |-> "told", n |-> n] /\ checks' = checks \ {n}
        BY <2>2 DEF CheckSettles
      <3>3. [state |-> "told", n |-> n] \in Checks
        BY <3>1, ViewAssumption DEF Checks, Numbers
      <3>4. checks' \subseteq Numbers \cap {result.n}
        BY <3>1, <3>2
      <3> QED BY <3>1, <3>2, <3>3, <3>4
    <2> QED BY <2>1, <2>2
  <1>3. ViewTypeOK'
    BY <1>1, <1>2 DEF ViewInv, ViewTypeOK
  <1>4. SpinnerInv'
    BY <1>1, <1>2 DEF ViewInv, SpinnerInv
  <1>5. RequestInv'
    BY <1>1 DEF ViewInv, RequestInv
  <1>6. VerdictInv'
    BY <1>1 DEF ViewInv, VerdictInv
  <1>7. ReportInv'
    BY <1>1 DEF ViewInv, ReportInv
  <1>8. FreshInv'
    BY <1>1, <1>2 DEF ViewInv, FreshInv, Displayed
  <1> QED BY <1>3, <1>4, <1>5, <1>6, <1>7, <1>8 DEF ViewInv

\* The mint, the pins and steps of others are no part of the invariant.
LEMMA OthersKeep ==
    ASSUME ViewInv,
           \/ \E m \in {"token", "rejected"} : MintSettles(m)
           \/ \E ts \in SUBSET Tools \ {{}} : PinsArrive(ts)
           \/ UNCHANGED vars
    PROVE  ViewInv'
  <1>1. /\ UNCHANGED <<view, target, open, lastAuto, result, verdict, loading, verifying,
                       failed, unverified, effects, inspects, verifies, check, checks>>
        /\ UNCHANGED <<begun, tried, minted, returned, overlapped>>
    BY DEF MintSettles, PinsArrive, vars, place, report, stateVars, history
  <1>2. /\ pinned' \subseteq Tools /\ mint' \in {"none", "pending", "token", "rejected"}
        /\ mint' = "none" <=> mint = "none"
    BY DEF MintSettles, PinsArrive, vars, ViewInv, ViewTypeOK
  <1>3. ViewTypeOK'
    BY <1>1, <1>2 DEF ViewInv, ViewTypeOK
  <1>4. SpinnerInv'
    BY <1>1 DEF ViewInv, SpinnerInv
  <1>5. RequestInv'
    BY <1>1, <1>2 DEF ViewInv, RequestInv
  <1>6. VerdictInv'
    BY <1>1 DEF ViewInv, VerdictInv
  <1>7. ReportInv'
    BY <1>1 DEF ViewInv, ReportInv
  <1>8. FreshInv'
    BY <1>1 DEF ViewInv, FreshInv, Displayed
  <1> QED BY <1>3, <1>4, <1>5, <1>6, <1>7, <1>8 DEF ViewInv

-----------------------------------------------------------------------------
LEMMA ViewInit == Init => ViewInv
  <1> SUFFICES ASSUME Init PROVE ViewInv
    OBVIOUS
  <1> USE ViewAssumption DEF Init
  <1>1. ViewTypeOK
    <2>1. target \in Targets \cup {NoTarget}
      BY DEF Choices, Targets
    <2>2. view \in Views /\ open \in BOOLEAN /\ Idle \in Checks
      BY DEF Idle, Checks
    <2>3. /\ {loading, verifying, failed, unverified} \subseteq BOOLEAN
          /\ effects \subseteq {"inspect", "verify", "check"}
      OBVIOUS
    <2>4. tried \in [Numbers -> Nat] /\ begun \in 0..MaxInspects
      OBVIOUS
    <2> QED BY <2>1, <2>2, <2>3, <2>4 DEF ViewTypeOK
  <1>2. SpinnerInv
    BY DEF SpinnerInv, Idle
  <1>3. RequestInv
    BY DEF RequestInv, None
  <1>4. VerdictInv
    BY DEF VerdictInv
  <1>5. ReportInv
    BY DEF ReportInv
  <1>6. FreshInv
    <2>1. (view = "tab" => open) /\ (view = "row" => target = Harness)
      BY DEF Choices
    <2> QED BY <2>1 DEF FreshInv, Idle
  <1> QED BY <1>1, <1>2, <1>3, <1>4, <1>5, <1>6 DEF ViewInv

LEMMA ViewKeeps == ViewInv /\ [Next]_vars => ViewInv'
  <1> SUFFICES ASSUME ViewInv, [Next]_vars PROVE ViewInv'
    OBVIOUS
  <1>1. CASE InspectEffect
    <2>1. CASE target = NoTarget \/ lastAuto = target
      BY <1>1, <2>1, EffectKeeps DEF InspectEffect
    <2>2. CASE ~(target = NoTarget \/ lastAuto = target)
      BY <1>1, <2>2, BeginKeeps DEF InspectEffect
    <2> QED BY <2>1, <2>2
  <1>2. CASE Refresh
    <2>1. target # NoTarget /\ StartInspect /\ effects = {} /\ UNCHANGED <<lastAuto, effects>>
      BY <1>2 DEF Refresh, Displayed
    <2>2. lastAuto' = target /\ effects' = effects \ {"inspect"}
      BY <2>1 DEF ViewInv, SpinnerInv
    <2> QED BY <2>1, <2>2, BeginKeeps
  <1>3. CASE VerifyEffect
    <2>1. CASE Verifiable
      BY <1>3, <2>1, VerifyKeeps
    <2>2. CASE ~Verifiable
      BY <1>3, <2>2, EffectKeeps DEF VerifyEffect
    <2> QED BY <2>1, <2>2
  <1>4. CASE RegenerateChallenge
    BY <1>4, EffectKeeps DEF RegenerateChallenge
  <1>5. CASE \E i \in inspects : InspectFails(i) \/ \E r \in Results : InspectAnswered(i, r)
    BY <1>5, FailKeeps, AnswerKeeps
  <1>6. CASE \E r \in verifies : VerifyAnswered(r) \/ VerifyFails(r)
    BY <1>6, VerdictKeeps
  <1>7. CASE TogglePanel \/ \E t \in Tools \cup {NoTarget} : SelectTarget(t)
    BY <1>7, ToggleKeeps, SelectKeeps
  <1> QED
    BY <1>1, <1>2, <1>3, <1>4, <1>5, <1>6, <1>7, CheckKeeps, OthersKeep DEF Next

LEMMA ViewInvariance == Spec => []ViewInv
  BY ViewInit, ViewKeeps, PTL DEF Spec

-----------------------------------------------------------------------------
(* The results. *)

\* use-attestation.ts: for any tools, inspections and returns, what turns or
\* says "Verifying" has something under way that will end it.
THEOREM NoSpinnerIsLeft == Spec => []NoSpinnerLeft
  <1>1. ViewInv => NoSpinnerLeft
    <2> SUFFICES ASSUME ViewInv, Quiet
                 PROVE  /\ ~loading /\ ~verifying /\ check.state # "verifying"
                        /\ Status # "verifying"
      BY DEF NoSpinnerLeft
    <2>1. ~loading /\ ~verifying /\ check.state # "verifying"
      BY DEF ViewInv, SpinnerInv, Quiet
    <2>2. target # NoTarget => result # None \/ failed
      BY DEF ViewInv, SpinnerInv, Quiet
    <2> QED BY <2>1, <2>2 DEF Status, Ready
  <1> QED BY <1>1, ViewInvariance, PTL

\* PrivasysAttestation.tsx:43-49: for any number of answers, tools and returns,
\* one mint, and one verification for a result and for each return to it.
THEOREM RequestsAreBounded == Spec => []NoRequestStorm
  <1>1. ViewInv => NoRequestStorm
    BY DEF ViewInv, RequestInv, NoRequestStorm
  <1> QED BY <1>1, ViewInvariance, PTL

\* PrivasysAttestation.tsx:13-14: a badge at rest that is green without a verdict
\* on its quote is so for one of four reasons, a report that came without a quote
\* among them, and there is no fifth.
THEOREM GreenForFourReasonsOnly == Spec => []GreenUnlessExcused
  <1>1. ViewInv => GreenUnlessExcused
    <2> SUFFICES ASSUME ViewInv, Quiet, Status = "verified",
                        result.quote \notin {"mock", "none"},
                        ~failed, "verifications" \notin overlapped
                 PROVE  Vouched
      BY DEF GreenUnlessExcused
    <2>1. target # NoTarget /\ result # None /\ QuoteOk
      BY DEF Status, Ready
    <2>2. result.quote = "real"
      BY <2>1, ViewAssumption DEF ViewInv, ViewTypeOK, Results
    <2>3. verdict # None /\ verdict.n = result.n
      BY <2>1, <2>2 DEF ViewInv, VerdictInv, Quiet, QuoteOk
    <2> QED BY <2>1, <2>3 DEF Vouched, QuoteOk
  <1> QED BY <1>1, ViewInvariance, PTL

\* PrivasysAttestationTab.tsx: for any tools, a report at rest that is not of the
\* tool it is shown for has one of two reasons.
THEOREM ReportForTwoReasonsOnly == Spec => []ReportUnlessExcused
  <1>1. ViewInv => ReportUnlessExcused
    BY DEF ViewInv, SpinnerInv, ReportInv, ReportUnlessExcused, Quiet
  <1> QED BY <1>1, ViewInvariance, PTL

\* attestation-result-view.tsx:311,320: for any number of reports that come and
\* go, what is said of freshness is said of the one on display.
THEOREM FreshnessIsOfItsReport == Spec => []FreshnessOfShownReport
  <1>1. ViewInv => FreshnessOfShownReport
    BY DEF ViewInv, FreshInv, FreshnessOfShownReport, Idle
  <1> QED BY <1>1, ViewInvariance, PTL
=============================================================================
