---------------------- MODULE AttestedTransportProofs ----------------------
(***************************************************************************)
(* For every set of hosts, builds, dependency sets, pins, connections and  *)
(* requests: the inductive invariant of AttestedTransport and the safety   *)
(* properties that follow from it, and the implementation of the contract  *)
(* VettedChannels.                                                         *)
(***************************************************************************)
EXTENDS AttestedTransport, TLAPS

\* A connection that ends its dial, or is closed, takes its request with it.
LEMMA FreeOne ==
    ASSUME IInv, NEW c \in Conns, status[c] # "free",
           FreeAll({c}), EndRequests({owner[c]}),
           UNCHANGED <<depVars, closeIdle, ordered>>
    PROVE  IInv'
<1> USE PolicyAssumption, PoolAssumption
<1>1. \A d \in Conns \ {c} :
          /\ status'[d] = status[d] /\ peerHost'[d] = peerHost[d]
          /\ peerBuild'[d] = peerBuild[d] /\ owner'[d] = owner[d]
          /\ excuse'[d] = excuse[d]
    BY DEF FreeAll
<1>2. /\ status'[c] = "free" /\ peerHost'[c] = NoHost /\ peerBuild'[c] = NoBuild
      /\ owner'[c] = NoReq /\ excuse'[c] = {}
    BY DEF FreeAll
<1>3. \A r \in Reqs : want'[r] = IF r = owner[c] THEN NoHost ELSE want[r]
    BY DEF EndRequests
<1>4. TypeOK'
    BY DEF IInv, TypeOK, DepTypeOK, FreeAll, EndRequests, depVars
<1>5. ConnShape'
    BY <1>1, <1>2 DEF IInv, ConnShape, Gated, Pooled
<1>6. Ownership'
  <2>1. \A d \in Conns : owner'[d] # NoReq => want'[owner'[d]] = peerHost'[d]
      BY <1>1, <1>2, <1>3 DEF IInv, Ownership, TypeOK
  <2>2. \A d, e \in Conns : owner'[d] # NoReq /\ owner'[d] = owner'[e] => d = e
      BY <1>1, <1>2 DEF IInv, Ownership
  <2>3. \A r \in Reqs : want'[r] # NoHost => \E d \in Conns : owner'[d] = r
      BY <1>1, <1>2, <1>3 DEF IInv, Ownership
  <2> QED BY <2>1, <2>2, <2>3 DEF Ownership
<1>7. HookOrder'
    BY <1>1, <1>2 DEF IInv, HookOrder, Gated, Pooled, depVars
<1>8. PoolConformsUnlessExcused'
    BY <1>1, <1>2 DEF IInv, PoolConformsUnlessExcused, Gated, Pooled, depVars
<1> QED BY <1>4, <1>5, <1>6, <1>7, <1>8 DEF IInv

\* A connection that becomes free: handed over, kept idle, or closed.
LEMMA PutIdleKeeps ==
    ASSUME IInv, NEW c \in Conns,
           \/ status[c] = "busy"
           \/ status[c] = "admitted" /\ owner[c] = NoReq,
           DigestOk(peerHost[c], peerBuild[c]),
           PutIdle(c), EndRequests({owner[c]}),
           UNCHANGED <<depVars, closeIdle, ordered>>
    PROVE  IInv'
<1> USE PolicyAssumption, PoolAssumption
<1>1. CASE CloseInstead(c)
    BY <1>1, FreeOne DEF CloseInstead
<1>2. CASE GoIdle(c)
  <2>1. \A r \in Reqs : want'[r] = IF r = owner[c] THEN NoHost ELSE want[r]
      BY DEF EndRequests
  <2>2. \A d \in Conns \ {c} : owner'[d] = owner[d] /\ status'[d] = status[d]
      BY <1>2 DEF GoIdle, IInv, TypeOK
  <2>3. owner'[c] = NoReq /\ status'[c] = "idle"
      BY <1>2 DEF GoIdle, IInv, TypeOK
  <2>4. TypeOK'
      BY <1>2 DEF GoIdle, IInv, TypeOK, DepTypeOK, EndRequests, depVars, Pooled
  <2>5. ConnShape'
      BY <1>2, <2>2, <2>3 DEF GoIdle, IInv, ConnShape, Gated, Pooled
  <2>6. Ownership'
    <3>1. \A d \in Conns : owner'[d] # NoReq => want'[owner'[d]] = peerHost'[d]
        BY <1>2, <2>1, <2>2, <2>3 DEF GoIdle, IInv, Ownership, TypeOK
    <3>2. \A d, e \in Conns : owner'[d] # NoReq /\ owner'[d] = owner'[e] => d = e
        BY <2>2, <2>3 DEF IInv, Ownership
    <3>3. \A r \in Reqs : want'[r] # NoHost => \E d \in Conns : owner'[d] = r
        BY <2>1, <2>2, <2>3 DEF IInv, Ownership
    <3> QED BY <3>1, <3>2, <3>3 DEF Ownership
  <2>7. HookOrder'
      BY <1>2, <2>2, <2>3 DEF GoIdle, IInv, HookOrder, Gated, Pooled, depVars
  <2>8. PoolConformsUnlessExcused'
      BY <1>2, <2>2, <2>3
      DEF GoIdle, IInv, PoolConformsUnlessExcused, Gated, Pooled, depVars
  <2> QED BY <2>4, <2>5, <2>6, <2>7, <2>8 DEF IInv
<1>3. CASE HandOff(c)
  <2>1. PICK r \in Waiters(peerHost[c]) :
          /\ status' = [status EXCEPT ![c] = "busy"]
          /\ owner' = [d \in Conns |-> IF d = c THEN r
                                       ELSE IF owner[d] = r THEN NoReq
                                       ELSE owner[d]]
          /\ UNCHANGED <<peerHost, peerBuild, excuse>>
      BY <1>3 DEF HandOff
  <2>2. r \in Reqs /\ want[r] = peerHost[c] /\ r # NoReq /\ r # owner[c]
      BY <2>1 DEF Waiters, Waiting, IInv, Ownership, Dialling
  <2>3. \A q \in Reqs : want'[q] = IF q = owner[c] THEN NoHost ELSE want[q]
      BY DEF EndRequests
  <2>4. TypeOK'
      BY <2>1, <2>2 DEF IInv, TypeOK, DepTypeOK, EndRequests, depVars, Pooled
  <2>5. \A d \in Conns \ {c} : status'[d] = status[d]
      BY <2>1 DEF IInv, TypeOK
  <2>6. status'[c] = "busy" /\ owner'[c] = r
      BY <2>1 DEF IInv, TypeOK
  <2>7. \A d \in Conns \ {c} : owner'[d] = IF owner[d] = r THEN NoReq ELSE owner[d]
      BY <2>1
  <2>8. ConnShape'
    <3>1. PICK e \in Conns : owner[e] = r /\ status[e] \in Dialling
        BY <2>1 DEF Waiters, Waiting
    <3>2. \A d \in Conns : owner[d] = r => d = e
        BY <3>1, <2>2 DEF IInv, Ownership
    <3> QED BY <2>1, <2>2, <2>5, <2>6, <2>7, <3>1, <3>2
            DEF IInv, ConnShape, Gated, Pooled, Dialling
  <2>9. Ownership'
    <3>1. \A d \in Conns : owner'[d] # NoReq => want'[owner'[d]] = peerHost'[d]
        BY <2>1, <2>2, <2>3, <2>6, <2>7 DEF IInv, Ownership, TypeOK
    <3>2. \A d, e \in Conns : owner'[d] # NoReq /\ owner'[d] = owner'[e] => d = e
        BY <2>2, <2>6, <2>7 DEF IInv, Ownership
    <3>3. \A q \in Reqs : want'[q] # NoHost => \E d \in Conns : owner'[d] = q
        BY <2>2, <2>3, <2>6, <2>7 DEF IInv, Ownership
    <3> QED BY <3>1, <3>2, <3>3 DEF Ownership
  <2>10. HookOrder'
      BY <2>1, <2>5, <2>6 DEF IInv, HookOrder, Gated, Pooled, depVars
  <2>11. PoolConformsUnlessExcused'
      BY <2>1, <2>5, <2>6
      DEF IInv, PoolConformsUnlessExcused, Gated, Pooled, depVars
  <2> QED BY <2>4, <2>8, <2>9, <2>10, <2>11 DEF IInv
<1> QED BY <1>1, <1>2, <1>3 DEF PutIdle

-----------------------------------------------------------------------------
(* The inductive invariant. *)

LEMMA InitIInv == Init => IInv
<1> SUFFICES ASSUME Init PROVE IInv
    OBVIOUS
<1> USE PolicyAssumption, PoolAssumption
<1>1. TypeOK
    BY DEF Init, DepInit, TypeOK, DepTypeOK
<1>2. ConnShape
    BY DEF Init, ConnShape, Gated, Pooled
<1>3. Ownership
    BY DEF Init, Ownership
<1>4. HookOrder
    BY DEF Init, DepInit, HookOrder, Gated, Pooled
<1>5. PoolConformsUnlessExcused
    BY DEF Init, PoolConformsUnlessExcused, Gated, Pooled
<1> QED BY <1>1, <1>2, <1>3, <1>4, <1>5 DEF IInv

\* The refresher and main, apart from the pool.
LEMMA DepStepKeeps == ASSUME IInv, DepStep PROVE IInv'
<1> USE PolicyAssumption, PoolAssumption
<1>1. /\ UNCHANGED <<status, peerHost, peerBuild, owner, want, closeIdle>>
      /\ UNCHANGED <<ordered, excuse, depset, loaded>>
    BY DEF DepStep, Apart, poolVars, SignOff, Tick, RefreshKeepsSet,
           FetchAnswer, StartReturns, WireAndServe
<1>2. DepTypeOK' /\ (phase' = "notify" <=> phase = "notify")
    BY DEF DepStep, Apart, SignOff, Tick, RefreshKeepsSet, FetchAnswer,
           StartReturns, WireAndServe, DepTypeOK, IInv, TypeOK
<1>3. TypeOK'
    BY <1>1, <1>2 DEF IInv, TypeOK
<1>4. ConnShape' /\ Ownership'
    BY <1>1 DEF IInv, ConnShape, Ownership
<1>5. HookOrder' /\ PoolConformsUnlessExcused'
    BY <1>1, <1>2 DEF IInv, HookOrder, PoolConformsUnlessExcused
<1> QED BY <1>3, <1>4, <1>5 DEF IInv

\* The first load excuses what is past the gate, a change announces itself,
\* and a set with the same fold changes nothing.
LEMMA InstallKeeps == ASSUME IInv, InstallSet PROVE IInv'
<1> USE PolicyAssumption, PoolAssumption
<1>1. UNCHANGED <<status, peerHost, peerBuild, owner, want, closeIdle>>
    BY DEF InstallSet, poolVars
<1>2. /\ phase = "install" /\ loaded' = TRUE /\ depset' = answer
      /\ phase' = IF loaded /\ depset # answer THEN "notify" ELSE "sleep"
    BY DEF InstallSet, Install
<1>3. \A c \in Conns : excuse'[c] = IF ~loaded /\ status[c] \in Gated
                                    THEN excuse[c] \cup {"first_load"}
                                    ELSE excuse[c]
    BY DEF InstallSet
<1>4. TypeOK'
    BY <1>1, <1>2 DEF InstallSet, Install, IInv, TypeOK, DepTypeOK
<1>5. ConnShape' /\ Ownership'
    BY <1>1 DEF IInv, ConnShape, Ownership
<1>6. ordered' # "yes" => ordered = "no" /\ ordered' = "no"
    BY DEF InstallSet, IInv, TypeOK
<1>7. HookOrder'
    BY <1>1, <1>2, <1>6 DEF IInv, HookOrder
<1>8. PoolConformsUnlessExcused'
    BY <1>1, <1>2, <1>3 DEF IInv, PoolConformsUnlessExcused
<1> QED BY <1>4, <1>5, <1>7, <1>8 DEF IInv

\* The eviction leaves no idle connection and excuses those in use.
LEMMA EvictKeeps == ASSUME IInv, EvictIdle PROVE IInv'
<1> USE PolicyAssumption, PoolAssumption
<1>1. \A c \in Conns :
        IF status[c] = "idle"
        THEN /\ status'[c] = "free" /\ peerHost'[c] = NoHost
             /\ peerBuild'[c] = NoBuild /\ excuse'[c] = {}
        ELSE /\ status'[c] = status[c] /\ peerHost'[c] = peerHost[c]
             /\ peerBuild'[c] = peerBuild[c]
             /\ excuse'[c] = IF status[c] \in {"admitted", "busy"}
                             THEN excuse[c] \cup {"in_use"} ELSE excuse[c]
    BY DEF EvictIdle
<1>2. UNCHANGED <<owner, want, ordered, depset, loaded>> /\ phase' = "sleep"
    BY DEF EvictIdle, Notify
<1>3. TypeOK'
    BY DEF EvictIdle, Notify, IInv, TypeOK, DepTypeOK
<1>4. ConnShape'
    BY <1>1, <1>2 DEF IInv, ConnShape, Gated, Pooled
<1>5. Ownership'
  <2>1. \A c \in Conns : owner[c] # NoReq => peerHost'[c] = peerHost[c]
      BY <1>1 DEF IInv, ConnShape
  <2> QED BY <1>2, <2>1 DEF IInv, Ownership
<1>6. HookOrder'
    BY <1>1, <1>2 DEF IInv, HookOrder, Gated, Pooled
<1>7. PoolConformsUnlessExcused'
    BY <1>1, <1>2 DEF IInv, PoolConformsUnlessExcused, Gated, Pooled
<1> QED BY <1>3, <1>4, <1>5, <1>6, <1>7 DEF IInv

\* A missed hook misses nothing: whatever is past the gate conforms already.
LEMMA MissHookKeeps == ASSUME IInv, MissHook PROVE IInv'
<1>1. /\ UNCHANGED <<status, peerHost, peerBuild, owner, want, closeIdle>>
      /\ UNCHANGED <<ordered, excuse, depset, loaded, declared, main, answer>>
      /\ phase = "notify" /\ phase' = "sleep" /\ ordered # "yes"
    BY DEF MissHook, Notify, poolVars
<1>2. TypeOK' /\ ConnShape' /\ Ownership'
    BY <1>1 DEF IInv, TypeOK, DepTypeOK, ConnShape, Ownership
<1>3. HookOrder' /\ PoolConformsUnlessExcused'
    BY <1>1 DEF IInv, HookOrder, PoolConformsUnlessExcused
<1> QED BY <1>2, <1>3 DEF IInv

\* A request takes an idle connection of its host or starts a dial.
LEMMA IssueKeeps ==
    ASSUME IInv, NEW r \in Reqs, NEW h \in Hosts, Issue(r, h) PROVE IInv'
<1> USE PolicyAssumption, PoolAssumption
<1>1. /\ want[r] = NoHost /\ want' = [want EXCEPT ![r] = h]
      /\ UNCHANGED <<depVars, ordered, excuse>> /\ closeIdle' = FALSE
    BY DEF Issue
<1>2. PICK c \in Conns :
        /\ \/ status[c] = "idle" /\ peerHost[c] = h /\ peerHost' = peerHost
              /\ status' = [status EXCEPT ![c] = "busy"]
           \/ status[c] = "free" /\ peerHost' = [peerHost EXCEPT ![c] = h]
              /\ status' = [status EXCEPT ![c] = "connecting"]
        /\ owner' = [owner EXCEPT ![c] = r]
        /\ UNCHANGED peerBuild
    BY DEF Issue, TakeIdle, StartDial
<1>3. /\ owner[c] = NoReq /\ peerHost'[c] = h /\ owner'[c] = r
      /\ status'[c] = (IF status[c] = "idle" THEN "busy" ELSE "connecting")
    BY <1>2 DEF IInv, TypeOK, ConnShape
<1>4. \A d \in Conns \ {c} :
        status'[d] = status[d] /\ peerHost'[d] = peerHost[d] /\ owner'[d] = owner[d]
    BY <1>2 DEF IInv, TypeOK
<1>5. \A d \in Conns : owner[d] # r
    BY <1>1 DEF IInv, Ownership, ConnShape, TypeOK
<1>6. TypeOK'
  <2>1. status' \in [Conns -> {"free"} \cup Dialling \cup Pooled]
      BY <1>2 DEF IInv, TypeOK, Dialling, Pooled
  <2>2. /\ peerHost' \in [Conns -> Hosts \cup {NoHost}]
        /\ peerBuild' = peerBuild
      BY <1>2 DEF IInv, TypeOK
  <2>3. owner' \in [Conns -> Reqs \cup {NoReq}] /\ want' \in [Reqs -> Hosts \cup {NoHost}]
      BY <1>1, <1>2 DEF IInv, TypeOK
  <2> QED BY <1>1, <2>1, <2>2, <2>3 DEF IInv, TypeOK, DepTypeOK, depVars
<1>7. ConnShape'
    BY <1>1, <1>2, <1>3, <1>4 DEF IInv, ConnShape, Gated, Pooled
<1>8. Ownership'
  <2>1. \A d \in Conns : owner'[d] # NoReq => want'[owner'[d]] = peerHost'[d]
      BY <1>1, <1>3, <1>4, <1>5 DEF IInv, Ownership, TypeOK
  <2>2. \A d, e \in Conns : owner'[d] # NoReq /\ owner'[d] = owner'[e] => d = e
      BY <1>3, <1>4, <1>5 DEF IInv, Ownership
  <2>3. \A q \in Reqs : want'[q] # NoHost => \E d \in Conns : owner'[d] = q
      BY <1>1, <1>3, <1>4 DEF IInv, Ownership, TypeOK
  <2> QED BY <2>1, <2>2, <2>3 DEF Ownership
<1>9. HookOrder'
    BY <1>1, <1>2, <1>3, <1>4 DEF IInv, HookOrder, Gated, Pooled, depVars
<1>10. PoolConformsUnlessExcused'
    BY <1>1, <1>2, <1>3, <1>4
    DEF IInv, PoolConformsUnlessExcused, Gated, Pooled, depVars
<1> QED BY <1>6, <1>7, <1>8, <1>9, <1>10 DEF IInv

\* A waiting request leaves: its dial loses its owner and nothing else.
LEMMA CancelKeeps ==
    ASSUME IInv, NEW r \in Reqs, CancelWait(r) PROVE IInv'
<1> USE PolicyAssumption, PoolAssumption
<1>1. /\ UNCHANGED <<depVars, status, peerHost, peerBuild, closeIdle, ordered, excuse>>
      /\ \A c \in Conns : owner'[c] = IF owner[c] = r THEN NoReq ELSE owner[c]
      /\ \A q \in Reqs : want'[q] = IF q = r THEN NoHost ELSE want[q]
    BY DEF CancelWait, EndRequests
<1>2. TypeOK'
    BY DEF CancelWait, EndRequests, IInv, TypeOK, DepTypeOK, depVars
<1>3. \A c \in Conns : owner[c] = r => status[c] # "busy"
    BY DEF CancelWait, Waiting, Dialling, IInv, Ownership
<1>4. ConnShape'
    BY <1>1, <1>3 DEF IInv, ConnShape
<1>5. Ownership'
  <2>1. \A d \in Conns : owner'[d] # NoReq => want'[owner'[d]] = peerHost'[d]
      BY <1>1 DEF IInv, Ownership, TypeOK
  <2>2. \A d, e \in Conns : owner'[d] # NoReq /\ owner'[d] = owner'[e] => d = e
      BY <1>1 DEF IInv, Ownership
  <2>3. \A q \in Reqs : want'[q] # NoHost => \E d \in Conns : owner'[d] = q
      BY <1>1 DEF IInv, Ownership
  <2> QED BY <2>1, <2>2, <2>3 DEF Ownership
<1>6. HookOrder' /\ PoolConformsUnlessExcused'
    BY <1>1 DEF IInv, HookOrder, PoolConformsUnlessExcused, depVars
<1> QED BY <1>2, <1>4, <1>5, <1>6 DEF IInv

\* A dial that advances: its peer is known, then admitted under the set in
\* force, then delivered to the request that still waits for it.
LEMMA DialAdvances ==
    ASSUME IInv, NEW c \in Conns,
           VerifyQuote(c) \/ ReadEnabled(c) \/ ReadSetAdmit(c) \/ Deliver(c)
    PROVE  IInv'
<1> USE PolicyAssumption, PoolAssumption
<1>1. UNCHANGED <<depVars, peerHost, owner, want, closeIdle, excuse>>
    BY DEF VerifyQuote, ReadEnabled, ReadSetAdmit, Deliver
<1>2. \A d \in Conns \ {c} : status'[d] = status[d] /\ peerBuild'[d] = peerBuild[d]
    BY DEF VerifyQuote, ReadEnabled, ReadSetAdmit, Deliver, IInv, TypeOK
<1>3. TypeOK'
    BY DEF VerifyQuote, ReadEnabled, ReadSetAdmit, Deliver, IInv, TypeOK,
           DepTypeOK, depVars, Dialling, Pooled
<1>4. Ownership'
    BY <1>1 DEF IInv, Ownership
<1>5. CASE VerifyQuote(c)
  <2>1. /\ status[c] = "connecting" /\ status'[c] = "attested"
        /\ peerBuild'[c] \in Genuine /\ UNCHANGED ordered
      BY <1>5 DEF VerifyQuote, IInv, TypeOK
  <2>2. ConnShape'
      BY <1>1, <1>2, <2>1 DEF IInv, ConnShape, Gated, Pooled
  <2>3. HookOrder' /\ PoolConformsUnlessExcused'
      BY <1>1, <1>2, <2>1
      DEF IInv, HookOrder, PoolConformsUnlessExcused, Gated, Pooled, depVars
  <2> QED BY <1>3, <1>4, <2>2, <2>3 DEF IInv
<1>6. CASE ReadEnabled(c)
  <2>1. /\ status[c] = "attested"
        /\ status'[c] = IF Enabled THEN "enabled" ELSE "admitted"
        /\ UNCHANGED peerBuild /\ ordered' # "no"
        /\ ordered' = "yes" <=> ordered = "yes"
      BY <1>6 DEF ReadEnabled, IInv, TypeOK
  <2>2. status'[c] = "admitted" => depset = NoDeps
      BY <2>1 DEF Enabled, IInv, HookOrder
  <2>3. ConnShape'
      BY <1>1, <1>2, <2>1 DEF IInv, ConnShape, Gated, Pooled
  <2>4. HookOrder'
      BY <1>1, <1>2, <2>1, <2>2 DEF IInv, HookOrder, Gated, Pooled, depVars, Admits
  <2>5. PoolConformsUnlessExcused'
      BY <1>1, <1>2, <2>1, <2>2
      DEF IInv, PoolConformsUnlessExcused, Gated, Pooled, depVars, Admits
  <2> QED BY <1>3, <1>4, <2>3, <2>4, <2>5 DEF IInv
<1>7. CASE ReadSetAdmit(c)
  <2>1. /\ status[c] = "enabled" /\ status'[c] = "admitted"
        /\ UNCHANGED <<peerBuild, ordered>>
        /\ Admits(depset, peerHost[c], peerBuild[c])
      BY <1>7 DEF ReadSetAdmit, IInv, TypeOK, Admits
  <2>2. ConnShape'
      BY <1>1, <1>2, <2>1 DEF IInv, ConnShape, Gated, Pooled
  <2>3. HookOrder'
      BY <1>1, <1>2, <2>1 DEF IInv, HookOrder, Gated, Pooled, depVars
  <2>4. PoolConformsUnlessExcused'
      BY <1>1, <1>2, <2>1
      DEF IInv, PoolConformsUnlessExcused, Gated, Pooled, depVars
  <2> QED BY <1>3, <1>4, <2>2, <2>3, <2>4 DEF IInv
<1>8. CASE Deliver(c)
  <2>1. /\ status[c] = "admitted" /\ status'[c] = "busy" /\ owner[c] # NoReq
        /\ DigestOk(peerHost[c], peerBuild[c]) /\ UNCHANGED <<peerBuild, ordered>>
      BY <1>8 DEF Deliver, IInv, TypeOK
  <2>2. ConnShape'
      BY <1>1, <1>2, <2>1 DEF IInv, ConnShape, Gated, Pooled
  <2>3. HookOrder' /\ PoolConformsUnlessExcused'
      BY <1>1, <1>2, <2>1
      DEF IInv, HookOrder, PoolConformsUnlessExcused, Gated, Pooled, depVars
  <2> QED BY <1>3, <1>4, <2>2, <2>3 DEF IInv
<1> QED BY <1>5, <1>6, <1>7, <1>8

LEMMA NextKeeps == IInv /\ [Next]_vars => IInv'
<1> SUFFICES ASSUME IInv, [Next]_vars PROVE IInv'
    OBVIOUS
<1> USE PolicyAssumption, PoolAssumption
<1>1. CASE DepStep
    BY <1>1, DepStepKeeps
<1>2. CASE InstallSet
    BY <1>2, InstallKeeps
<1>3. CASE EvictIdle
    BY <1>3, EvictKeeps
<1>4. CASE MissHook
    BY <1>4, MissHookKeeps
<1>5. ASSUME NEW r \in Reqs, CancelWait(r) PROVE IInv'
    BY <1>5, CancelKeeps
<1>6. ASSUME NEW r \in Reqs, NEW h \in Hosts, Issue(r, h) PROVE IInv'
    BY <1>6, IssueKeeps
<1>7. ASSUME NEW c \in Conns, DialStep(c) PROVE IInv'
  <2>1. CASE VerifyQuote(c) \/ ReadEnabled(c) \/ ReadSetAdmit(c) \/ Deliver(c)
      BY <2>1, DialAdvances
  <2>2. CASE ConnectFails(c) \/ ReadSetRefuse(c) \/ DigestMismatch(c)
      BY <2>2, FreeOne DEF ConnectFails, ReadSetRefuse, DigestMismatch, Refuse
  <2>3. CASE DeliverOrphan(c)
    <3>1. EndRequests({owner[c]})
        BY <2>3 DEF DeliverOrphan, EndRequests, IInv, TypeOK
    <3> QED BY <2>3, <3>1, PutIdleKeeps DEF DeliverOrphan
  <2> QED BY <1>7, <2>1, <2>2, <2>3 DEF DialStep
<1>8. ASSUME NEW c \in Conns, Finish(c) PROVE IInv'
  <2>1. DigestOk(peerHost[c], peerBuild[c])
      BY <1>8 DEF Finish, IInv, ConnShape, Pooled
  <2> QED BY <1>8, <2>1, PutIdleKeeps DEF Finish
<1>9. ASSUME NEW c \in Conns, BreakConn(c) PROVE IInv'
    BY <1>9, FreeOne DEF BreakConn
<1>10. ASSUME NEW c \in Conns, IdleCloses(c) PROVE IInv'
  <2>1. EndRequests({owner[c]})
      BY <1>10 DEF IdleCloses, EndRequests, IInv, TypeOK, ConnShape
  <2> QED BY <1>10, <2>1, FreeOne DEF IdleCloses
<1>11. CASE UNCHANGED vars
    BY <1>11
    DEF vars, depVars, poolVars, IInv, TypeOK, DepTypeOK, ConnShape, Ownership,
        HookOrder, PoolConformsUnlessExcused
<1> QED
    BY <1>1, <1>2, <1>3, <1>4, <1>5, <1>6, <1>7, <1>8, <1>9, <1>10, <1>11 DEF Next

\* transport.go:179-330, for every pool and every build: what the dials, the sweeps and
\* the hooks rely on of each other, the inductive invariant the runs check as well.
THEOREM Invariance == Spec => []IInv
BY InitIInv, NextKeeps, PTL DEF Spec

-----------------------------------------------------------------------------
(* The results. *)

\* Every variable of the transport and of its dependency set keeps its type.
THEOREM TypeCorrect == Spec => []TypeOK
<1>1. IInv => TypeOK
    BY DEF IInv
<1> QED BY <1>1, Invariance, PTL

\* Pooling, hand-offs and orphaned dials never put a request on a connection
\* dialVerified did not verify for the request's host (transport.go:140-143).
THEOREM OnlyVettedPeersCarry == Spec => []CarriedByVettedPeer
<1>1. IInv => CarriedByVettedPeer
    BY PoolAssumption
    DEF IInv, TypeOK, ConnShape, Ownership, CarriedByVettedPeer, Gated, Pooled
<1> QED BY <1>1, Invariance, PTL

\* No request is lost between a dial and a pooled connection, or sent twice.
THEOREM RequestsOwnOneConn == Spec => []OneConnPerRequest
<1>1. IInv => OneConnPerRequest
    BY PoolAssumption DEF IInv, Ownership, OneConnPerRequest
<1> QED BY <1>1, Invariance, PTL

\* Once OnChange has run, a connection past the gate that contradicts the set
\* in force was in use when that set arrived or dates from before the first
\* load: there is no third way round the gate, the unsynchronised reads of
\* OnChange and t.pool included.
THEOREM OnlyTwoWaysRoundTheGate == Spec => []PoolConformsUnlessExcused
<1>1. IInv => PoolConformsUnlessExcused
    BY DEF IInv
<1> QED BY <1>1, Invariance, PTL

-----------------------------------------------------------------------------
(* The transport implements the contract of VettedChannels. *)

ChannelsStep ==
    \A c \in Conns : \/ Channel!Vet(c) \/ Channel!Open(c)
                     \/ Channel!Close(c) \/ Channel!KeepChannel(c)

RequestsStep ==
    \A c \in Conns : \/ Channel!StartRequest(c) \/ Channel!EndRequest(c)
                     \/ Channel!KeepRequest(c)

\* The mapping, connection by connection.
LEMMA Mapped ==
    \A c \in Conns :
        /\ ChannelStage[c] = IF status[c] \in Pooled THEN "open"
                             ELSE IF status[c] = "admitted" THEN "vetted" ELSE "closed"
        /\ ChannelHost[c] = IF status[c] \in Gated THEN peerHost[c] ELSE NoHost
        /\ ChannelPeer[c] = IF status[c] \in Gated THEN peerBuild[c] ELSE NoBuild
        /\ ChannelLoad[c] = IF status[c] = "busy" THEN owner[c] ELSE NoReq
BY DEF ChannelStage, ChannelHost, ChannelPeer, ChannelLoad

LEMMA MappedNext ==
    \A c \in Conns :
        /\ ChannelStage'[c] = IF status'[c] \in Pooled THEN "open"
                              ELSE IF status'[c] = "admitted" THEN "vetted" ELSE "closed"
        /\ ChannelHost'[c] = IF status'[c] \in Gated THEN peerHost'[c] ELSE NoHost
        /\ ChannelPeer'[c] = IF status'[c] \in Gated THEN peerBuild'[c] ELSE NoBuild
        /\ ChannelLoad'[c] = IF status'[c] = "busy" THEN owner'[c] ELSE NoReq
BY DEF ChannelStage, ChannelHost, ChannelPeer, ChannelLoad

\* A connection whose status, host and peer stay keeps its channel, and one
\* that stays short of the gate is closed before and after.
LEMMA KeepsChannel ==
    ASSUME NEW c \in Conns,
           \/ /\ status'[c] = status[c] /\ peerHost'[c] = peerHost[c]
              /\ peerBuild'[c] = peerBuild[c]
           \/ status[c] \notin Gated /\ status'[c] \notin Gated
    PROVE  Channel!KeepChannel(c)
BY Mapped, MappedNext DEF Channel!KeepChannel, Gated, Pooled

\* A request stays where it is while its connection stays busy with it.
LEMMA KeepsRequest ==
    ASSUME NEW c \in Conns,
           \/ status'[c] # "busy"
           \/ /\ status[c] = "busy" /\ status'[c] = "busy" /\ owner'[c] = owner[c]
              /\ want'[owner[c]] = want[owner[c]]
    PROVE  Channel!EndRequest(c) \/ Channel!KeepRequest(c)
BY Mapped, MappedNext DEF Channel!EndRequest, Channel!KeepRequest, Pooled

LEMMA CloseMaps ==
    ASSUME IInv, NEW c \in Conns, status[c] # "free",
           FreeAll({c}), EndRequests({owner[c]})
    PROVE  ChannelsStep /\ RequestsStep
<1> USE PoolAssumption
<1>1. \A d \in Conns \ {c} :
          /\ status'[d] = status[d] /\ peerHost'[d] = peerHost[d]
          /\ peerBuild'[d] = peerBuild[d] /\ owner'[d] = owner[d]
    BY DEF FreeAll
<1>2. status'[c] = "free"
    BY DEF FreeAll
<1>3. Channel!Close(c) \/ Channel!KeepChannel(c)
    BY <1>2, Mapped, MappedNext DEF Channel!Close, Channel!KeepChannel, Gated, Pooled
<1>4. ASSUME NEW d \in Conns \ {c}, status[d] = "busy"
      PROVE  want'[owner[d]] = want[owner[d]]
    BY <1>4 DEF EndRequests, IInv, Ownership, ConnShape, TypeOK
<1>5. ChannelsStep
    BY <1>1, <1>3, KeepsChannel DEF ChannelsStep
<1>6. RequestsStep
    BY <1>1, <1>2, <1>4, KeepsRequest DEF RequestsStep
<1> QED BY <1>5, <1>6

LEMMA PutIdleMaps ==
    ASSUME IInv, NEW c \in Conns,
           \/ status[c] = "busy"
           \/ status[c] = "admitted" /\ owner[c] = NoReq,
           DigestOk(peerHost[c], peerBuild[c]),
           PutIdle(c), EndRequests({owner[c]})
    PROVE  ChannelsStep /\ RequestsStep
<1> USE PoolAssumption
<1>1. CASE CloseInstead(c)
    BY <1>1, CloseMaps DEF CloseInstead
<1>2. ASSUME NEW d \in Conns \ {c}, status[d] = "busy"
      PROVE  want'[owner[d]] = want[owner[d]]
    BY <1>2 DEF EndRequests, IInv, Ownership, ConnShape, TypeOK
<1>3. CASE GoIdle(c) \/ HandOff(c)
  <2>1. /\ UNCHANGED <<peerHost, peerBuild>>
        /\ \A d \in Conns \ {c} : status'[d] = status[d]
        /\ status'[c] \in Pooled
      BY <1>3 DEF GoIdle, HandOff, IInv, TypeOK, Pooled
  <2>2. Channel!Open(c) \/ Channel!KeepChannel(c)
      BY <2>1, Mapped, MappedNext
      DEF Channel!Open, Channel!KeepChannel, Gated, Pooled,
          Channel!DigestOk, DigestOk, Channel!GrantPinned, GrantPinned
  <2>3. ChannelsStep
      BY <2>1, <2>2, KeepsChannel DEF ChannelsStep
  <2>4. CASE GoIdle(c)
    <3>1. status'[c] = "idle" /\ \A d \in Conns \ {c} : owner'[d] = owner[d]
        BY <2>4 DEF GoIdle, IInv, TypeOK
    <3> QED BY <1>2, <2>1, <2>3, <3>1, KeepsRequest DEF RequestsStep
  <2>5. CASE HandOff(c)
    <3>1. PICK r \in Waiters(peerHost[c]) :
            /\ status' = [status EXCEPT ![c] = "busy"]
            /\ owner' = [d \in Conns |-> IF d = c THEN r
                                         ELSE IF owner[d] = r THEN NoReq
                                         ELSE owner[d]]
        BY <2>5 DEF HandOff
    <3>2. PICK e \in Conns : owner[e] = r /\ status[e] \in Dialling
        BY <3>1 DEF Waiters, Waiting
    <3>3. r \in Reqs /\ want[r] = peerHost[c] /\ r # NoReq
        BY <3>1 DEF Waiters
    <3>4. \A d \in Conns : owner[d] = r => d = e
        BY <3>2, <3>3 DEF IInv, Ownership
    <3>5. r # owner[c] /\ \A d \in Conns : status[d] = "busy" => owner[d] # r
        BY <3>2, <3>3, <3>4 DEF Dialling
    <3>6. want'[r] = want[r] /\ status'[c] = "busy" /\ owner'[c] = r
        BY <3>1, <3>3, <3>5 DEF EndRequests, IInv, TypeOK
    <3>7. Channel!StartRequest(c)
      <4>1. ChannelLoad'[c] = r /\ ChannelStage'[c] = "open"
            /\ ChannelHost'[c] = peerHost[c]
          BY <3>6, <2>1, MappedNext DEF Pooled, Gated
      <4>2. \A d \in Conns : ChannelLoad[d] # r
          BY <3>3, <3>5, Mapped
      <4>3. \A d \in Conns \ {c} : ChannelLoad'[d] # r
          BY <3>1, <3>3, MappedNext
      <4> QED BY <3>3, <3>6, <4>1, <4>2, <4>3 DEF Channel!StartRequest
    <3>8. \A d \in Conns \ {c} : status[d] = "busy" => owner'[d] = owner[d]
        BY <3>1, <3>5
    <3> QED BY <1>2, <2>1, <2>3, <3>7, <3>8, KeepsRequest DEF RequestsStep
  <2> QED BY <1>3, <2>4, <2>5
<1> QED BY <1>1, <1>3 DEF PutIdle

\* The admitting read of a dial is the step that vets its channel.
LEMMA DialMaps ==
    ASSUME IInv, NEW c \in Conns,
           VerifyQuote(c) \/ ReadEnabled(c) \/ ReadSetAdmit(c) \/ Deliver(c)
    PROVE  ChannelsStep /\ RequestsStep
<1> USE PoolAssumption
<1>1. UNCHANGED <<peerHost, owner, want>>
    BY DEF VerifyQuote, ReadEnabled, ReadSetAdmit, Deliver
<1>2. \A d \in Conns \ {c} : status'[d] = status[d] /\ peerBuild'[d] = peerBuild[d]
    BY DEF VerifyQuote, ReadEnabled, ReadSetAdmit, Deliver, IInv, TypeOK
<1>3. \A d \in Conns \ {c} :
        /\ Channel!KeepChannel(d)
        /\ Channel!EndRequest(d) \/ Channel!KeepRequest(d)
    BY <1>1, <1>2, KeepsChannel, KeepsRequest
<1>4. CASE VerifyQuote(c)
  <2>1. status[c] = "connecting" /\ status'[c] = "attested"
      BY <1>4 DEF VerifyQuote, IInv, TypeOK
  <2> QED BY <2>1, <1>3, KeepsChannel, KeepsRequest
          DEF ChannelsStep, RequestsStep, Gated, Pooled
<1>5. CASE ReadEnabled(c) \/ ReadSetAdmit(c)
  <2>1. /\ status[c] \in {"attested", "enabled"} /\ UNCHANGED peerBuild
        /\ status'[c] \in {"enabled", "admitted"}
      BY <1>5 DEF ReadEnabled, ReadSetAdmit, IInv, TypeOK
  <2>2. status'[c] = "admitted" => Admits(depset, peerHost[c], peerBuild[c])
      BY <1>5
      DEF ReadEnabled, ReadSetAdmit, Enabled, Admits, IInv, TypeOK, HookOrder
  <2>3. peerHost[c] \in Hosts /\ peerBuild[c] \in Genuine
      BY <2>1 DEF IInv, TypeOK, ConnShape
  <2>4. CASE status'[c] = "admitted"
    <3>1. Channel!Vet(c)
        BY <1>1, <2>1, <2>2, <2>3, <2>4, Mapped, MappedNext
        DEF Channel!Vet, Gated, Pooled, Admits, Channel!Admits, NoDeps,
            Channel!NoDeps, MatchesEntry, Channel!MatchesEntry, GrantPinned,
            Channel!GrantPinned
    <3> QED BY <3>1, <2>4, <1>3, KeepsRequest DEF ChannelsStep, RequestsStep
  <2>5. CASE status'[c] = "enabled"
      BY <2>1, <2>5, <1>3, KeepsChannel, KeepsRequest
      DEF ChannelsStep, RequestsStep, Gated, Pooled
  <2> QED BY <2>1, <2>4, <2>5
<1>6. CASE Deliver(c)
  <2>1. /\ status[c] = "admitted" /\ status'[c] = "busy" /\ owner[c] # NoReq
        /\ DigestOk(peerHost[c], peerBuild[c]) /\ UNCHANGED peerBuild
      BY <1>6 DEF Deliver, IInv, TypeOK
  <2>2. Channel!Open(c)
      BY <1>1, <2>1, Mapped, MappedNext
      DEF Channel!Open, Gated, Pooled, Channel!DigestOk, DigestOk,
          Channel!GrantPinned, GrantPinned
  <2>3. /\ owner[c] \in Reqs /\ want[owner[c]] = peerHost[c]
        /\ \A d \in Conns \ {c} : owner[d] # owner[c]
      BY <2>1 DEF IInv, TypeOK, Ownership
  <2>4. Channel!StartRequest(c)
    <3>1. /\ ChannelLoad'[c] = owner[c] /\ ChannelStage'[c] = "open"
          /\ ChannelHost'[c] = peerHost[c]
        BY <1>1, <2>1, MappedNext DEF Pooled, Gated
    <3>2. \A d \in Conns : ChannelLoad[d] # owner[c]
        BY <2>1, <2>3, Mapped
    <3>3. \A d \in Conns \ {c} : ChannelLoad'[d] # owner[c]
        BY <1>1, <2>1, <2>3, MappedNext
    <3> QED BY <1>1, <2>3, <3>1, <3>2, <3>3 DEF Channel!StartRequest
  <2> QED BY <2>2, <2>4, <1>3 DEF ChannelsStep, RequestsStep
<1> QED BY <1>4, <1>5, <1>6

LEMMA IssueMaps ==
    ASSUME IInv, NEW r \in Reqs, NEW h \in Hosts, Issue(r, h)
    PROVE  ChannelsStep /\ RequestsStep
<1> USE PoolAssumption
<1>1. want[r] = NoHost /\ want' = [want EXCEPT ![r] = h]
    BY DEF Issue
<1>2. PICK c \in Conns :
        /\ \/ status[c] = "idle" /\ peerHost[c] = h /\ peerHost' = peerHost
              /\ status' = [status EXCEPT ![c] = "busy"]
           \/ status[c] = "free" /\ peerHost' = [peerHost EXCEPT ![c] = h]
              /\ status' = [status EXCEPT ![c] = "connecting"]
        /\ owner' = [owner EXCEPT ![c] = r]
        /\ UNCHANGED peerBuild
    BY DEF Issue, TakeIdle, StartDial
<1>3. \A d \in Conns \ {c} :
        status'[d] = status[d] /\ peerHost'[d] = peerHost[d] /\ owner'[d] = owner[d]
    BY <1>2 DEF IInv, TypeOK
<1>4. \A d \in Conns : owner[d] # r
    BY <1>1 DEF IInv, Ownership, ConnShape, TypeOK
<1>5. \A d \in Conns \ {c} :
        /\ Channel!KeepChannel(d)
        /\ Channel!EndRequest(d) \/ Channel!KeepRequest(d)
  <2>1. \A d \in Conns \ {c} :
          status[d] = "busy" => want'[owner[d]] = want[owner[d]]
      BY <1>1, <1>4 DEF IInv, Ownership, ConnShape, TypeOK
  <2> QED BY <1>2, <1>3, <2>1, KeepsChannel, KeepsRequest
<1>6. CASE status[c] = "free"
  <2>1. status'[c] = "connecting"
      BY <1>2, <1>6 DEF IInv, TypeOK
  <2> QED BY <1>5, <1>6, <2>1, KeepsChannel, KeepsRequest
          DEF ChannelsStep, RequestsStep, Gated, Pooled
<1>7. CASE status[c] = "idle"
  <2>1. /\ status'[c] = "busy" /\ owner'[c] = r /\ want'[r] = h
        /\ peerHost[c] = h /\ peerHost' = peerHost /\ peerBuild' = peerBuild
      BY <1>1, <1>2, <1>7 DEF IInv, TypeOK
  <2>2. Channel!KeepChannel(c)
      BY <1>7, <2>1, Mapped, MappedNext DEF Channel!KeepChannel, Gated, Pooled
  <2>3. Channel!StartRequest(c)
    <3>1. /\ ChannelLoad'[c] = r /\ ChannelStage'[c] = "open"
          /\ ChannelHost'[c] = h
        BY <2>1, MappedNext DEF Pooled, Gated
    <3>2. /\ \A d \in Conns : ChannelLoad[d] # r
          /\ \A d \in Conns \ {c} : ChannelLoad'[d] # r
        BY <1>3, <1>4, Mapped, MappedNext
    <3> QED BY <2>1, <3>1, <3>2 DEF Channel!StartRequest
  <2> QED BY <1>5, <2>2, <2>3 DEF ChannelsStep, RequestsStep
<1> QED BY <1>2, <1>6, <1>7

\* Cancellation, eviction and the refresher start nothing and open nothing.
LEMMA QuietMaps ==
    ASSUME IInv,
           \/ DepStep \/ InstallSet \/ MissHook \/ UNCHANGED vars
           \/ EvictIdle
           \/ \E r \in Reqs : CancelWait(r)
    PROVE  ChannelsStep /\ RequestsStep
<1> USE PoolAssumption
<1>1. CASE DepStep \/ InstallSet \/ MissHook \/ UNCHANGED vars
  <2>1. UNCHANGED <<status, peerHost, peerBuild, owner, want>>
      BY <1>1 DEF DepStep, Apart, InstallSet, MissHook, poolVars, vars
  <2> QED BY <2>1, KeepsChannel, KeepsRequest DEF ChannelsStep, RequestsStep
<1>2. CASE EvictIdle
  <2>1. \A c \in Conns :
          IF status[c] = "idle"
          THEN status'[c] = "free"
          ELSE /\ status'[c] = status[c] /\ peerHost'[c] = peerHost[c]
               /\ peerBuild'[c] = peerBuild[c]
      BY <1>2 DEF EvictIdle
  <2>2. UNCHANGED <<owner, want>>
      BY <1>2 DEF EvictIdle
  <2>3. ASSUME NEW c \in Conns, status[c] = "idle" PROVE Channel!Close(c)
      BY <2>1, <2>3, Mapped, MappedNext DEF Channel!Close, Gated, Pooled
  <2> QED BY <2>1, <2>2, <2>3, KeepsChannel, KeepsRequest
          DEF ChannelsStep, RequestsStep
<1>3. ASSUME NEW r \in Reqs, CancelWait(r) PROVE ChannelsStep /\ RequestsStep
  <2>1. /\ UNCHANGED <<status, peerHost, peerBuild>>
        /\ \A c \in Conns : owner'[c] = IF owner[c] = r THEN NoReq ELSE owner[c]
        /\ \A q \in Reqs : want'[q] = IF q = r THEN NoHost ELSE want[q]
      BY <1>3 DEF CancelWait, EndRequests
  <2>2. \A c \in Conns : status[c] = "busy" => owner[c] # r /\ owner[c] \in Reqs
      BY <1>3 DEF CancelWait, Waiting, Dialling, IInv, Ownership, ConnShape, TypeOK
  <2> QED BY <2>1, <2>2, KeepsChannel, KeepsRequest DEF ChannelsStep, RequestsStep
<1> QED BY <1>1, <1>2, <1>3

\* The two reads of VerifyPeer under two locks, the pool and the refresher are,
\* to a caller, one atomic vetting per channel (transport.go:33-37).
THEOREM TransportImplementsContract == Spec => ImplementsContract
<1> USE PolicyAssumption, PoolAssumption
<1>1. Init => Channel!ContractInit
  <2> SUFFICES ASSUME Init PROVE Channel!ContractInit
      OBVIOUS
  <2>1. \A c \in Conns : status[c] = "free"
      BY DEF Init
  <2>2. /\ ChannelStage = [c \in Conns |-> "closed"]
        /\ ChannelHost = [c \in Conns |-> NoHost]
        /\ ChannelPeer = [c \in Conns |-> NoBuild]
        /\ ChannelLoad = [c \in Conns |-> NoReq]
      BY <2>1 DEF ChannelStage, ChannelHost, ChannelPeer, ChannelLoad, Gated, Pooled
  <2> QED BY <2>2 DEF Init, DepInit, Channel!ContractInit, NoDeps, Channel!NoDeps
<1>2. IInv /\ [Next]_vars => [Channel!ContractNext]_(Channel!contractVars)
  <2> SUFFICES ASSUME IInv, [Next]_vars PROVE Channel!ContractNext
      OBVIOUS
  <2>1. depset' \in Sets
      BY NextKeeps DEF IInv, TypeOK, DepTypeOK
  <2>2. ASSUME NEW c \in Conns, DialStep(c) PROVE ChannelsStep /\ RequestsStep
    <3>1. CASE VerifyQuote(c) \/ ReadEnabled(c) \/ ReadSetAdmit(c) \/ Deliver(c)
        BY <3>1, DialMaps
    <3>2. CASE ConnectFails(c) \/ ReadSetRefuse(c) \/ DigestMismatch(c)
        BY <3>2, CloseMaps DEF ConnectFails, ReadSetRefuse, DigestMismatch, Refuse
    <3>3. CASE DeliverOrphan(c)
      <4>1. EndRequests({owner[c]})
          BY <3>3 DEF DeliverOrphan, EndRequests, IInv, TypeOK
      <4> QED BY <3>3, <4>1, PutIdleMaps DEF DeliverOrphan
    <3> QED BY <2>2, <3>1, <3>2, <3>3 DEF DialStep
  <2>3. ASSUME NEW c \in Conns, Finish(c) PROVE ChannelsStep /\ RequestsStep
    <3>1. DigestOk(peerHost[c], peerBuild[c])
        BY <2>3 DEF Finish, IInv, ConnShape, Pooled
    <3> QED BY <2>3, <3>1, PutIdleMaps DEF Finish
  <2>4. ASSUME NEW c \in Conns, BreakConn(c) PROVE ChannelsStep /\ RequestsStep
      BY <2>4, CloseMaps DEF BreakConn
  <2>5. ASSUME NEW c \in Conns, IdleCloses(c) PROVE ChannelsStep /\ RequestsStep
    <3>1. EndRequests({owner[c]})
        BY <2>5 DEF IdleCloses, EndRequests, IInv, TypeOK, ConnShape
    <3> QED BY <2>5, <3>1, CloseMaps DEF IdleCloses
  <2>6. ChannelsStep /\ RequestsStep
      BY <2>2, <2>3, <2>4, <2>5, IssueMaps, QuietMaps DEF Next
  <2> QED BY <2>1, <2>6 DEF Channel!ContractNext, ChannelsStep, RequestsStep
<1> QED BY <1>1, <1>2, Invariance, PTL DEF Spec, ImplementsContract, Channel!Contract

=============================================================================
