----------------------------- MODULE BootProofs -----------------------------
(***************************************************************************)
(* Proofs about Boot for any limits: dsh starts within the probe loop and  *)
(* the smoke, and the port opens within the limit of the manager's client, *)
(* however long the manager takes and whatever the model does.             *)
(***************************************************************************)
EXTENDS Boot, TLAPS

\* Until dsh starts, each tick is one of the probe loop or one of the smoke,
\* and the smoke has no tick before the loop is over.
TicksCounted ==
    /\ script = "probe" => ran = 0
    /\ script \in {"probe", "smoke"} => clock = tries + ran

BootInv == BootTypeOK /\ TicksCounted /\ PortOpensInTime

LEMMA BootInit == Init => BootInv
  <1> SUFFICES ASSUME Init PROVE BootInv
    OBVIOUS
  <1>1. BootTypeOK
    BY BootAssumption DEF Init, BootTypeOK
  <1>2. TicksCounted
    BY DEF Init, TicksCounted
  <1>3. PortOpensInTime
    BY BootAssumption DEF Init, PortOpensInTime
  <1> QED BY <1>1, <1>2, <1>3 DEF BootInv

\* No step but a tick moves the clock, and the front only closes with the proxy.
LEMMA PortKept ==
    ASSUME BootInv, UNCHANGED clock,
           front' = front \/ front' = "listening" \/ proxy' = "dead",
           proxy = "dead" => proxy' = "dead"
    PROVE  PortOpensInTime'
  BY DEF BootInv, PortOpensInTime

\* Steps that leave the script and its counts alone.
LEMMA OtherProcessesKeep ==
    ASSUME BootInv,
           LoadEnds \/ EdgeListens \/ FrontListens \/ ProxyDies \/ DshListens
    PROVE  BootInv'
  <1>1. UNCHANGED <<script, tries, ran, verdict, clock>>
    BY DEF LoadEnds, EdgeListens, FrontListens, ProxyDies, DshListens
  <1>2. proxy' \in {"loading", "started", "serving", "dead"}
    BY DEF BootInv, BootTypeOK, LoadEnds, EdgeListens, FrontListens, ProxyDies, DshListens
  <1>3. front' \in {"closed", "listening"} /\ dsh' \in {"down", "booting", "up"}
    BY DEF BootInv, BootTypeOK, LoadEnds, EdgeListens, FrontListens, ProxyDies, DshListens
  <1>4. /\ front' = front \/ front' = "listening" \/ proxy' = "dead"
        /\ proxy = "dead" => proxy' = "dead"
    BY DEF LoadEnds, EdgeListens, FrontListens, ProxyDies, DshListens
  <1>5. PortOpensInTime'
    BY <1>1, <1>4, PortKept
  <1> QED BY <1>1, <1>2, <1>3, <1>5 DEF BootInv, BootTypeOK, TicksCounted

\* Steps of the script: it only ever goes on from the loop to the smoke, and
\* its counts are those of the moment.
LEMMA ScriptKeeps ==
    ASSUME BootInv,
           \/ ProbeAnswered \/ ProbeFindsNoProxy \/ ProbesExhausted \/ DshExits
           \/ \E v \in {"PASS", "FAIL"} : SmokeEnds(v)
    PROVE  BootInv'
  <1>1. UNCHANGED <<tries, ran, clock>>
    BY DEF ProbeAnswered, ProbeFindsNoProxy, ProbesExhausted, DshExits, SmokeEnds
  <1>2. \/ script' \in {"dsh", "exited"}
        \/ script = "probe" /\ script' = "smoke"
    BY DEF ProbeAnswered, ProbeFindsNoProxy, ProbesExhausted, DshExits, SmokeEnds, GoOn
  <1>3. /\ verdict' \in {"none", "PASS", "FAIL"}
        /\ proxy' \in {"loading", "started", "serving", "dead"}
    BY DEF BootInv, BootTypeOK, ProbeAnswered, ProbeFindsNoProxy, ProbesExhausted,
           DshExits, SmokeEnds
  <1>4. front' \in {"closed", "listening"} /\ dsh' \in {"down", "booting", "up"}
    BY DEF BootInv, BootTypeOK, ProbeAnswered, ProbeFindsNoProxy, ProbesExhausted,
           DshExits, SmokeEnds, GoOn
  <1>5. BootTypeOK'
    BY <1>1, <1>2, <1>3, <1>4 DEF BootInv, BootTypeOK
  <1>6. TicksCounted'
    BY <1>1, <1>2 DEF BootInv, TicksCounted
  <1>7. /\ front' = front \/ proxy' = "dead"
        /\ proxy = "dead" => proxy' = "dead"
    BY DEF ProbeAnswered, ProbeFindsNoProxy, ProbesExhausted, DshExits, SmokeEnds
  <1>8. PortOpensInTime'
    BY <1>1, <1>7, PortKept
  <1> QED BY <1>5, <1>6, <1>8 DEF BootInv

\* Time does not pass beyond the client's limit while main is in deps.Start, nor
\* while the front could listen and does not.
LEMMA TickKeeps ==
    ASSUME BootInv, Tick
    PROVE  BootInv'
  <1>1. UNCHANGED <<script, verdict, proxy, front, dsh>> /\ clock' = clock + 1
    BY DEF Tick
  <1>2. /\ clock \in Nat /\ clock < Horizon /\ tries \in 0..Tries /\ ran \in 0..SmokeLimit
        /\ Tries \in Nat /\ SmokeLimit \in Nat /\ Horizon \in Nat
    BY BootAssumption DEF Tick, BootInv, BootTypeOK
  <1>3. tries' \in 0..Tries /\ ran' \in 0..SmokeLimit
    BY <1>2 DEF Tick
  <1>4. BootTypeOK'
    BY <1>1, <1>2, <1>3 DEF BootInv, BootTypeOK
  <1>5. TicksCounted'
    BY <1>1, <1>2 DEF Tick, BootInv, TicksCounted
  <1>6. PortOpensInTime'
    <2>1. CASE proxy = "loading"
      <3>1. clock < RefreshLimit /\ RefreshLimit \in Nat
        BY <2>1, BootAssumption DEF Tick
      <3> QED BY <1>1, <1>2, <3>1 DEF PortOpensInTime
    <2>2. CASE proxy # "loading"
      <3>1. front = "listening" \/ proxy = "dead"
        BY <2>2 DEF Tick, BootInv, BootTypeOK
      <3> QED BY <1>1, <3>1 DEF PortOpensInTime
    <2> QED BY <2>1, <2>2
  <1> QED BY <1>4, <1>5, <1>6 DEF BootInv

LEMMA BootInvKept == BootInv /\ [Next]_vars => BootInv'
  <1> SUFFICES ASSUME BootInv, [Next]_vars PROVE BootInv'
    OBVIOUS
  <1>1. CASE UNCHANGED vars
    BY <1>1 DEF vars, BootInv, BootTypeOK, TicksCounted, PortOpensInTime
  <1> QED BY <1>1, OtherProcessesKeep, ScriptKeeps, TickKeeps DEF Next

\* entrypoint.sh:68-86, for any limits of the loop, the smoke and the manager's
\* client: the script is past both within the sum of the first two.
THEOREM DshStartsInTime == Spec => []StartsInTime
  <1>1. BootInv => StartsInTime
    BY BootAssumption DEF BootInv, BootTypeOK, TicksCounted, StartsInTime
  <1> QED BY <1>1, BootInit, BootInvKept, PTL DEF Spec

\* depset.go:57, 217-225, for any limits: the port is open when the limit of the
\* manager's client has passed.
THEOREM PortIsOpenInTime == Spec => []PortOpensInTime
  <1>1. BootInv => PortOpensInTime
    BY DEF BootInv
  <1> QED BY <1>1, BootInit, BootInvKept, PTL DEF Spec
=============================================================================
