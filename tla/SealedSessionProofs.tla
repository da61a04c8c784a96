------------------------ MODULE SealedSessionProofs ------------------------
(***************************************************************************)
(* Proofs about the sealed session for any number of calls and messages:   *)
(* no call that waits for its answer is refused as a replay, the promise   *)
(* chain is a queue of calls with one under way, and the adapter of the    *)
(* mux socket is what DshSocket says of it.  The two halves share only     *)
(* the iframe: but for its loss a step of one leaves the other as it is.   *)
(***************************************************************************)
EXTENDS SealedSession, TLAPS

\* The call under way is the first of the chain, a call that waits is in the
\* chain, and no call comes into it unmade.
ChainInv ==
    /\ \A c \in Calls : state[c] = "sent" => chain # <<>> /\ Head(chain) = c
    /\ \A c \in Calls : state[c] = "queued" => \E i \in 1..Len(chain) : chain[i] = c
    /\ \A i \in 1..Len(chain) : state[chain[i]] # "new"

\* The frame of the call under way is the newest there is, and one that has
\* been answered has none on the wire; only a call that failed may have.
WireInv ==
    /\ lastSeen <= counter
    /\ \A f \in wire :
          /\ f[2] <= counter
          /\ state[f[1]] \in {"sent", "failed"}
          /\ state[f[1]] = "sent" =>
                /\ f[2] > lastSeen
                /\ \A g \in wire : g # f => g[2] < f[2]
                /\ \A v \in Verdicts : <<f[1], v>> \notin replies
    /\ \A c \in Calls, v \in Verdicts :
          state[c] \in {"new", "queued"} => <<c, v>> \notin replies

FetchInv == FetchTypeOK /\ ChainInv /\ WireInv /\ NoReplayRefusal

LEMMA FetchInitInv == FetchInit => FetchInv
  <1> SUFFICES ASSUME FetchInit PROVE FetchInv
    OBVIOUS
  <1> USE DEF FetchInit
  <1>1. FetchTypeOK
    BY DEF FetchTypeOK
  <1>2. ChainInv
    BY DEF ChainInv
  <1>3. WireInv
    BY DEF WireInv
  <1>4. NoReplayRefusal
    BY DEF NoReplayRefusal
  <1> QED BY <1>1, <1>2, <1>3, <1>4 DEF FetchInv

\* At most one call is under way.
LEMMA OneActive ==
    ASSUME ChainInv, NEW c \in Calls, state[c] = "sent"
    PROVE  Active = {c}
  BY DEF ChainInv, Active

\* What is left of a chain whose first call has settled.
LEMMA TailKeeps ==
    ASSUME FetchTypeOK, ChainInv, chain # <<>>, chain' = Tail(chain),
           \A c \in Calls : c # Head(chain) => state'[c] = state[c],
           state'[Head(chain)] \in {"answered", "failed"}
    PROVE  chain' \in Seq(Calls) /\ ChainInv'
  <1>1. /\ chain \in Seq(Calls) /\ Len(chain) \in Nat \ {0} /\ Head(chain) = chain[1]
        /\ Head(chain) \in Calls /\ Tail(chain) \in Seq(Calls)
        /\ Len(Tail(chain)) = Len(chain) - 1
        /\ \A i \in 1..Len(Tail(chain)) : Tail(chain)[i] = chain[i + 1]
    BY DEF FetchTypeOK
  <1>2. ASSUME NEW c \in Calls, state'[c] = "sent"
        PROVE  FALSE
    <2>1. c # Head(chain) /\ state[c] = "sent"
      BY <1>2
    <2> QED BY <2>1 DEF ChainInv
  <1>3. ASSUME NEW c \in Calls, state'[c] = "queued"
        PROVE  \E i \in 1..Len(chain') : chain'[i] = c
    <2>1. c # Head(chain) /\ state[c] = "queued"
      BY <1>3
    <2>2. PICK i \in 1..Len(chain) : chain[i] = c
      BY <2>1 DEF ChainInv
    <2>3. i # 1 /\ i - 1 \in 1..Len(chain')
      BY <1>1, <2>1, <2>2
    <2> QED BY <1>1, <2>2, <2>3
  <1>4. ASSUME NEW i \in 1..Len(chain')
        PROVE  state'[chain'[i]] # "new"
    <2>1. i + 1 \in 1..Len(chain) /\ chain'[i] = chain[i + 1] /\ chain'[i] \in Calls
      BY <1>1
    <2>2. state[chain'[i]] # "new"
      BY <2>1 DEF ChainInv
    <2> QED BY <2>1, <2>2
  <1> QED BY <1>1, <1>2, <1>3, <1>4 DEF ChainInv

-----------------------------------------------------------------------------
(* One lemma for each step of the chain, and for the loss of the iframe. *)

LEMMA EnqueueKeeps ==
    ASSUME FetchInv, NEW c \in Calls, Enqueue(c)
    PROVE  FetchInv'
  <1> USE DEF Enqueue
  <1>1. /\ chain \in Seq(Calls) /\ chain' \in Seq(Calls)
        /\ Len(chain') = Len(chain) + 1 /\ chain'[Len(chain) + 1] = c
        /\ \A i \in 1..Len(chain) : chain'[i] = chain[i] /\ chain[i] \in Calls
        /\ Len(chain) \in Nat
    BY DEF FetchInv, FetchTypeOK
  <1>2. /\ state[c] = "new" /\ state'[c] = "queued"
        /\ \A d \in Calls : d # c => state'[d] = state[d]
    BY DEF FetchInv, FetchTypeOK
  <1>3. FetchTypeOK'
    BY <1>1 DEF FetchInv, FetchTypeOK
  <1>4. ChainInv'
    <2>1. ASSUME NEW d \in Calls, state'[d] = "sent"
          PROVE  chain' # <<>> /\ Head(chain') = d
      <3>1. chain # <<>> /\ Head(chain) = d
        BY <1>2, <2>1 DEF FetchInv, ChainInv
      <3> QED BY <1>1, <3>1
    <2>2. ASSUME NEW d \in Calls, state'[d] = "queued"
          PROVE  \E i \in 1..Len(chain') : chain'[i] = d
      <3>1. CASE d = c
        BY <1>1, <3>1
      <3>2. CASE d # c
        <4>1. PICK i \in 1..Len(chain) : chain[i] = d
          BY <1>2, <2>2, <3>2 DEF FetchInv, ChainInv
        <4> QED BY <1>1, <4>1
      <3> QED BY <3>1, <3>2
    <2>3. ASSUME NEW i \in 1..Len(chain')
          PROVE  state'[chain'[i]] # "new"
      <3>1. CASE i = Len(chain) + 1
        BY <1>1, <1>2, <3>1
      <3>2. CASE i \in 1..Len(chain)
        BY <1>1, <1>2, <3>2 DEF FetchInv, ChainInv
      <3> QED BY <1>1, <3>1, <3>2
    <2> QED BY <2>1, <2>2, <2>3 DEF ChainInv
  <1>5. WireInv'
    BY <1>2 DEF FetchInv, FetchTypeOK, WireInv
  <1>6. NoReplayRefusal'
    BY <1>2 DEF FetchInv, NoReplayRefusal
  <1> QED BY <1>3, <1>4, <1>5, <1>6 DEF FetchInv

LEMMA StartKeeps ==
    ASSUME FetchInv, NEW c \in Calls, Start(c)
    PROVE  FetchInv'
  <1>1. /\ chain # <<>> /\ Head(chain) = c /\ state[c] = "queued"
        /\ chain \in Seq(Calls) /\ Head(chain) = chain[1]
    BY DEF Start, FetchInv, FetchTypeOK, ChainInv
  <1>2. \A d \in Calls : state[d] # "sent"
    BY <1>1 DEF FetchInv, ChainInv
  <1>3. CASE gone
    <2>1. /\ state' = [state EXCEPT ![c] = "failed"] /\ chain' = Tail(chain)
          /\ UNCHANGED <<counter, wire, lastSeen, replies>>
      BY <1>3 DEF Start
    <2>2. /\ state'[c] = "failed" /\ \A d \in Calls : d # c => state'[d] = state[d]
          /\ state' \in [Calls -> {"new", "queued", "sent", "answered", "failed"}]
      BY <2>1 DEF FetchInv, FetchTypeOK
    <2>3. chain' \in Seq(Calls) /\ ChainInv'
      BY <1>1, <2>1, <2>2, TailKeeps DEF FetchInv
    <2>4. FetchTypeOK'
      BY <2>1, <2>2, <2>3 DEF FetchInv, FetchTypeOK
    <2>5. WireInv'
      BY <1>2, <2>1, <2>2 DEF FetchInv, FetchTypeOK, WireInv
    <2>6. NoReplayRefusal'
      BY <2>1, <2>2 DEF FetchInv, NoReplayRefusal
    <2> QED BY <2>3, <2>4, <2>5, <2>6 DEF FetchInv
  <1>4. CASE ~gone
    <2>1. /\ state' = [state EXCEPT ![c] = "sent"] /\ counter' = counter + 1
          /\ wire' = wire \cup {<<c, counter'>>}
          /\ UNCHANGED <<chain, lastSeen, replies>>
      BY <1>4 DEF Start
    <2>2. /\ state'[c] = "sent" /\ \A d \in Calls : d # c => state'[d] = state[d]
          /\ state' \in [Calls -> {"new", "queued", "sent", "answered", "failed"}]
      BY <2>1 DEF FetchInv, FetchTypeOK
    <2>3. /\ counter \in Nat /\ counter' \in Nat /\ counter < counter'
          /\ lastSeen \in Nat /\ lastSeen < counter'
          /\ wire \subseteq Calls \X Nat /\ wire' \subseteq Calls \X Nat
      BY <2>1 DEF FetchInv, FetchTypeOK, WireInv
    <2>4. FetchTypeOK'
      BY <2>1, <2>2, <2>3 DEF FetchInv, FetchTypeOK
    <2>5. ChainInv'
      <3>1. \A d \in Calls : state'[d] = "sent" => chain' # <<>> /\ Head(chain') = d
        BY <1>1, <1>2, <2>1, <2>2
      <3>2. \A d \in Calls : state'[d] = "queued" => \E i \in 1..Len(chain') : chain'[i] = d
        BY <2>1, <2>2 DEF FetchInv, ChainInv
      <3>3. \A i \in 1..Len(chain') : state'[chain'[i]] # "new"
        BY <2>1, <2>2, <1>1 DEF FetchInv, ChainInv
      <3> QED BY <3>1, <3>2, <3>3 DEF ChainInv
    <2>6. WireInv'
      <3>1. lastSeen' <= counter'
        BY <2>1, <2>3
      <3>2. \A f \in wire : /\ f \in Calls \X Nat /\ f[2] < counter' /\ f[1] # c
                            /\ state'[f[1]] = "failed"
        BY <1>1, <1>2, <2>1, <2>2, <2>3 DEF FetchInv, WireInv
      <3>3. \A v \in Verdicts : <<c, v>> \notin replies'
        BY <1>1, <2>1 DEF FetchInv, WireInv
      <3>4. ASSUME NEW f \in wire'
            PROVE  /\ f[2] <= counter'
                   /\ state'[f[1]] \in {"sent", "failed"}
                   /\ state'[f[1]] = "sent" =>
                        /\ f[2] > lastSeen'
                        /\ \A g \in wire' : g # f => g[2] < f[2]
                        /\ \A v \in Verdicts : <<f[1], v>> \notin replies'
        <4>1. CASE f \in wire
          BY <2>1, <2>3, <3>2, <4>1
        <4>2. CASE f = <<c, counter'>>
          <5>1. f[1] = c /\ f[2] = counter'
            BY <4>2
          <5>2. \A g \in wire' : g # f => g[2] < f[2]
            BY <2>1, <3>2, <4>2, <5>1
          <5> QED BY <2>1, <2>2, <2>3, <3>3, <5>1, <5>2
        <4> QED BY <2>1, <4>1, <4>2
      <3>5. \A d \in Calls, v \in Verdicts :
                state'[d] \in {"new", "queued"} => <<d, v>> \notin replies'
        BY <2>1, <2>2 DEF FetchInv, WireInv
      <3> QED BY <3>1, <3>4, <3>5 DEF WireInv
    <2>7. NoReplayRefusal'
      BY <1>1, <2>1, <2>2 DEF FetchInv, NoReplayRefusal, WireInv, Verdicts
    <2> QED BY <2>4, <2>5, <2>6, <2>7 DEF FetchInv
  <1> QED BY <1>3, <1>4

LEMMA ArriveKeeps ==
    ASSUME FetchInv, NEW f \in wire, Arrive(f)
    PROVE  FetchInv'
  <1> DEFINE verdict == IF f[2] > lastSeen THEN "accepted" ELSE "replay"
  <1>1. /\ wire' = wire \ {f} /\ replies' = replies \cup {<<f[1], verdict>>}
        /\ lastSeen' = IF f[2] > lastSeen THEN f[2] ELSE lastSeen
        /\ UNCHANGED <<chain, state, counter>>
    BY DEF Arrive
  <1>2. /\ wire \subseteq Calls \X Nat /\ f[1] \in Calls /\ f[2] \in Nat
        /\ lastSeen \in Nat /\ counter \in Nat /\ verdict \in Verdicts
    BY DEF FetchInv, FetchTypeOK, Verdicts
  <1>3. FetchTypeOK'
    <2>1. lastSeen' \in Nat
      BY <1>1, <1>2
    <2>2. replies' \subseteq Calls \X Verdicts
      BY <1>1, <1>2 DEF FetchInv, FetchTypeOK
    <2> QED BY <1>1, <2>1, <2>2 DEF FetchInv, FetchTypeOK
  <1>4. ChainInv'
    BY <1>1 DEF FetchInv, ChainInv
  <1>5. WireInv'
    <2>1. lastSeen' <= counter'
      BY <1>1, <1>2 DEF FetchInv, WireInv
    <2>2. ASSUME NEW g \in wire', state[g[1]] = "sent"
          PROVE  /\ g[2] > lastSeen'
                 /\ g[1] # f[1]
      <3>1. g \in wire /\ g # f /\ g[2] \in Nat
        BY <1>1, <1>2
      <3>2. f[2] < g[2] /\ g[2] > lastSeen
        BY <2>2, <3>1 DEF FetchInv, WireInv
      <3>3. g[1] # f[1]
        <4>1. CASE g[1] = f[1]
          <5>1. g[2] < f[2]
            BY <2>2, <3>1, <4>1 DEF FetchInv, WireInv
          <5> QED BY <1>2, <3>1, <3>2, <5>1
        <4> QED BY <4>1
      <3>4. g[2] > lastSeen'
        BY <1>1, <3>2
      <3> QED BY <3>3, <3>4
    <2>3. ASSUME NEW g \in wire'
          PROVE  /\ g[2] <= counter'
                 /\ state'[g[1]] \in {"sent", "failed"}
                 /\ state'[g[1]] = "sent" =>
                      /\ g[2] > lastSeen'
                      /\ \A h \in wire' : h # g => h[2] < g[2]
                      /\ \A v \in Verdicts : <<g[1], v>> \notin replies'
      <3>1. g \in wire
        BY <1>1
      <3>2. g[2] <= counter' /\ state'[g[1]] \in {"sent", "failed"}
        BY <1>1, <3>1 DEF FetchInv, WireInv
      <3>3. CASE state[g[1]] = "sent"
        <4>1. g[2] > lastSeen' /\ g[1] # f[1]
          BY <2>2, <3>3
        <4>2. \A h \in wire' : h # g => h[2] < g[2]
          BY <1>1, <3>1, <3>3 DEF FetchInv, WireInv
        <4>3. \A v \in Verdicts : <<g[1], v>> \notin replies
          BY <3>1, <3>3 DEF FetchInv, WireInv
        <4>4. \A v \in Verdicts : <<g[1], v>> \notin replies'
          BY <1>1, <4>1, <4>3
        <4> QED BY <3>2, <4>1, <4>2, <4>4
      <3> QED BY <1>1, <3>2, <3>3
    <2>4. ASSUME NEW c \in Calls, NEW v \in Verdicts, state'[c] \in {"new", "queued"}
          PROVE  <<c, v>> \notin replies'
      <3>1. c # f[1]
        BY <1>1, <2>4 DEF FetchInv, WireInv
      <3> QED BY <1>1, <2>4, <3>1 DEF FetchInv, WireInv
    <2> QED BY <2>1, <2>3, <2>4 DEF WireInv
  <1>6. NoReplayRefusal'
    <2>1. state[f[1]] = "sent" => verdict = "accepted"
      BY DEF FetchInv, WireInv
    <2>2. state[f[1]] # "answered"
      BY DEF FetchInv, WireInv
    <2>3. ASSUME NEW c \in Calls, state'[c] \in {"sent", "answered"}
          PROVE  <<c, "replay">> \notin replies'
      <3>1. <<c, "replay">> \notin replies
        BY <1>1, <2>3 DEF FetchInv, NoReplayRefusal
      <3>2. <<c, "replay">> # <<f[1], verdict>>
        BY <1>1, <2>1, <2>2, <2>3
      <3> QED BY <1>1, <3>1, <3>2
    <2> QED BY <2>3 DEF NoReplayRefusal
  <1> QED BY <1>3, <1>4, <1>5, <1>6 DEF FetchInv

LEMMA DropKeeps ==
    ASSUME FetchInv, NEW f \in wire, Drop(f)
    PROVE  FetchInv'
  <1> USE DEF Drop
  <1>1. FetchTypeOK'
    BY DEF FetchInv, FetchTypeOK
  <1>2. ChainInv'
    BY DEF FetchInv, ChainInv
  <1>3. WireInv'
    BY DEF FetchInv, WireInv
  <1>4. NoReplayRefusal'
    BY DEF FetchInv, NoReplayRefusal
  <1> QED BY <1>1, <1>2, <1>3, <1>4 DEF FetchInv

\* A call that settles leaves the chain; when it was answered, it has no frame
\* on the wire.
LEMMA SettleKeeps ==
    ASSUME FetchInv, NEW c \in Calls, state[c] = "sent",
           NEW o \in {"answered", "failed"},
           state' = [state EXCEPT ![c] = o], chain' = Tail(chain),
           UNCHANGED <<counter, wire, lastSeen, replies>>,
           o = "answered" => \E v \in Verdicts : <<c, v>> \in replies
    PROVE  FetchInv'
  <1>1. chain # <<>> /\ Head(chain) = c
    BY DEF FetchInv, ChainInv
  <1>2. /\ state'[c] = o /\ \A d \in Calls : d # c => state'[d] = state[d]
        /\ state' \in [Calls -> {"new", "queued", "sent", "answered", "failed"}]
    BY DEF FetchInv, FetchTypeOK
  <1>3. chain' \in Seq(Calls) /\ ChainInv'
    BY <1>1, <1>2, TailKeeps DEF FetchInv
  <1>4. FetchTypeOK'
    BY <1>2, <1>3 DEF FetchInv, FetchTypeOK
  <1>5. WireInv'
    <2>1. \A f \in wire : f[1] = c => o = "failed"
      BY DEF FetchInv, WireInv
    <2>2. \A f \in wire : f[1] \in Calls
      BY DEF FetchInv, FetchTypeOK
    <2> QED BY <1>2, <2>1, <2>2 DEF FetchInv, WireInv
  <1>6. NoReplayRefusal'
    BY <1>2 DEF FetchInv, NoReplayRefusal
  <1> QED BY <1>3, <1>4, <1>5, <1>6 DEF FetchInv

LEMMA LossKeeps ==
    ASSUME FetchInv, FetchLosesFrame
    PROVE  FetchInv'
  <1>1. CASE \E c \in Calls : state[c] = "sent"
    <2>1. PICK c \in Calls : state[c] = "sent"
      BY <1>1
    <2>2. Active = {c}
      BY <2>1, OneActive DEF FetchInv
    <2>3. state' = [state EXCEPT ![c] = "failed"]
      BY <2>2 DEF FetchLosesFrame, Active, FetchInv, FetchTypeOK
    <2>4. chain' = Tail(chain) /\ UNCHANGED <<counter, wire, lastSeen, replies>>
      BY <2>2 DEF FetchLosesFrame
    <2> QED BY <2>1, <2>3, <2>4, SettleKeeps
  <1>2. CASE \A c \in Calls : state[c] # "sent"
    <2>1. UNCHANGED fetchVars
      <3>1. state' = state
        BY <1>2 DEF FetchLosesFrame, FetchInv, FetchTypeOK
      <3>2. Active = {}
        BY <1>2 DEF Active
      <3> QED BY <3>1, <3>2 DEF FetchLosesFrame, fetchVars
    <2> QED BY <2>1 DEF fetchVars, FetchInv, FetchTypeOK, ChainInv, WireInv, NoReplayRefusal
  <1> QED BY <1>1, <1>2

LEMMA FetchInvKept == FetchInv /\ [Next]_vars => FetchInv'
  <1> SUFFICES ASSUME FetchInv, [Next]_vars PROVE FetchInv'
    OBVIOUS
  <1>1. CASE UNCHANGED fetchVars
    BY <1>1 DEF fetchVars, FetchInv, FetchTypeOK, ChainInv, WireInv, NoReplayRefusal
  <1>2. CASE FetchNext
    <2>1. CASE \E c \in Calls : Enqueue(c)
      BY <2>1, EnqueueKeeps
    <2>2. CASE \E c \in Calls : Start(c)
      BY <2>2, StartKeeps
    <2>3. CASE \E c \in Calls : Answer(c)
      <3>1. PICK c \in Calls : Answer(c)
        BY <2>3
      <3> QED BY <3>1, SettleKeeps DEF Answer
    <2>4. CASE \E c \in Calls : Fail(c)
      <3>1. PICK c \in Calls : Fail(c)
        BY <2>4
      <3> QED BY <3>1, SettleKeeps DEF Fail
    <2>5. CASE \E f \in wire : Arrive(f)
      BY <2>5, ArriveKeeps
    <2>6. CASE \E f \in wire : Drop(f)
      BY <2>6, DropKeeps
    <2> QED BY <1>2, <2>1, <2>2, <2>3, <2>4, <2>5, <2>6 DEF FetchNext
  <1>3. CASE FetchLosesFrame
    BY <1>3, LossKeeps
  <1> QED BY <1>1, <1>2, <1>3 DEF Next, RemoveFrame, vars

\* privasys-shell.js:266-268 and 277-278, for any number of calls: the frame of
\* a call that still waits for its answer is newer than all the relay has seen.
THEOREM NoCallIsReplayed == Spec => []NoReplayRefusal
  <1>1. Init => FetchInv
    BY FetchInitInv DEF Init
  <1>2. FetchInv => NoReplayRefusal
    BY DEF FetchInv
  <1> QED BY <1>1, <1>2, FetchInvKept, PTL DEF Spec

-----------------------------------------------------------------------------
(* The refinement of OrderedCalls. *)

Outcome == [c \in Calls |-> IF state[c] \in Settled THEN state[c] ELSE "none"]

LEMMA OrderedInit == Init => Ordered!CallsInit
  <1> SUFFICES ASSUME Init PROVE Ordered!CallsInit
    OBVIOUS
  <1>1. /\ chain = <<>> /\ gone = FALSE
        /\ \A c \in Calls : state[c] = "new"
    BY DEF Init, FetchInit, FrameInit
  <1>2. Active = {}
    BY <1>1 DEF Active
  <1>3. Outcome = [c \in Calls |-> "none"]
    BY <1>1 DEF Outcome, Settled
  <1> QED BY <1>1, <1>2, <1>3 DEF Ordered!CallsInit, Outcome

LEMMA EnqueueIsAsk ==
    ASSUME FetchInv, NEW c \in Calls, Enqueue(c), UNCHANGED gone
    PROVE  Ordered!Ask(c)
  <1> USE DEF Enqueue
  <1>1. /\ state[c] = "new" /\ state'[c] = "queued"
        /\ \A d \in Calls : d # c => state'[d] = state[d]
    BY DEF FetchInv, FetchTypeOK
  <1>2. Active' = Active /\ c \notin Active
    BY <1>1 DEF Active
  <1>3. Outcome' = Outcome /\ Outcome[c] = "none"
    BY <1>1 DEF Outcome, Settled
  <1>4. chain \in Seq(Calls) /\ chain' = Append(chain, c)
    BY DEF FetchInv, FetchTypeOK
  <1>5. \A i \in 1..Len(chain) : chain[i] # c
    BY <1>1 DEF FetchInv, ChainInv
  <1>6. CASE Active = {}
    <2>1. c \notin Ordered!ToSet(chain)
      BY <1>4, <1>5 DEF Ordered!ToSet
    <2> QED BY <1>2, <1>3, <1>4, <1>6, <2>1 DEF Ordered!Ask, Outcome
  <1>7. CASE Active # {}
    <2>1. chain # <<>>
      BY <1>7 DEF Active, FetchInv, ChainInv
    <2>2. Tail(chain') = Append(Tail(chain), c)
      BY <1>4, <2>1
    <2>3. c \notin Ordered!ToSet(Tail(chain))
      BY <1>4, <1>5, <2>1 DEF Ordered!ToSet
    <2> QED BY <1>2, <1>3, <1>7, <2>2, <2>3 DEF Ordered!Ask, Outcome
  <1> QED BY <1>6, <1>7

LEMMA StartIsBegin ==
    ASSUME FetchInv, NEW c \in Calls, Start(c), UNCHANGED gone
    PROVE  Ordered!Begin
  <1>1. chain # <<>> /\ Head(chain) = c /\ state[c] = "queued"
    BY DEF Start, FetchInv, ChainInv
  <1>2. \A d \in Calls : state[d] # "sent"
    BY <1>1 DEF FetchInv, ChainInv
  <1>3. Active = {}
    BY <1>2 DEF Active
  <1>4. CASE gone
    <2>1. /\ state'[c] = "failed" /\ \A d \in Calls : d # c => state'[d] = state[d]
          /\ chain' = Tail(chain)
      BY <1>4 DEF Start, FetchInv, FetchTypeOK
    <2>2. Active' = {}
      BY <1>2, <2>1 DEF Active
    <2>3. Outcome' = [Outcome EXCEPT ![c] = "failed"]
      BY <2>1 DEF Outcome, Settled
    <2> QED BY <1>1, <1>3, <1>4, <2>1, <2>2, <2>3 DEF Ordered!Begin, Outcome
  <1>5. CASE ~gone
    <2>1. /\ state'[c] = "sent" /\ \A d \in Calls : d # c => state'[d] = state[d]
          /\ chain' = chain
      BY <1>5 DEF Start, FetchInv, FetchTypeOK
    <2>2. Active' = {c}
      BY <1>2, <2>1 DEF Active
    <2>3. Outcome' = Outcome
      BY <1>1, <2>1 DEF Outcome, Settled
    <2> QED BY <1>1, <1>3, <1>5, <2>1, <2>2, <2>3 DEF Ordered!Begin, Outcome
  <1> QED BY <1>4, <1>5

\* The call under way settles, for either reason.
LEMMA SettlesOne ==
    ASSUME FetchInv, NEW c \in Calls, state[c] = "sent",
           NEW o \in {"answered", "failed"}, state' = [state EXCEPT ![c] = o]
    PROVE  /\ Active = {c} /\ Active' = {}
           /\ Outcome' = [Outcome EXCEPT ![c] = o]
           /\ Outcome' = [d \in Calls |-> IF d \in Active THEN o ELSE Outcome[d]]
  <1>1. Active = {c}
    BY OneActive DEF FetchInv
  <1>2. state'[c] = o /\ \A d \in Calls : d # c => state'[d] = state[d]
    BY DEF FetchInv, FetchTypeOK
  <1>3. Active' = {}
    BY <1>1, <1>2 DEF Active
  <1>4. \A d \in Calls : Outcome'[d] = IF d = c THEN o ELSE Outcome[d]
    BY <1>2 DEF Outcome, Settled
  <1> QED BY <1>1, <1>3, <1>4 DEF Outcome

LEMMA AnswerOrFailIsSettle ==
    ASSUME FetchInv, NEW c \in Calls, Answer(c) \/ Fail(c), UNCHANGED gone
    PROVE  Ordered!Settle(c)
  <1>1. PICK o \in {"answered", "failed"} : state' = [state EXCEPT ![c] = o]
    BY DEF Answer, Fail
  <1>2. state[c] = "sent" /\ chain' = Tail(chain)
    BY DEF Answer, Fail
  <1>3. /\ Active = {c} /\ Active' = {}
        /\ Outcome' = [Outcome EXCEPT ![c] = o]
    BY <1>1, <1>2, SettlesOne
  <1> QED BY <1>2, <1>3 DEF Ordered!Settle, Outcome

LEMMA LossIsLose ==
    ASSUME FetchInv, RemoveFrame
    PROVE  Ordered!Lose
  <1>1. ~gone /\ gone' = TRUE /\ FetchLosesFrame
    BY DEF RemoveFrame
  <1>2. /\ Active' = {}
        /\ Outcome' = [d \in Calls |-> IF d \in Active THEN "failed" ELSE Outcome[d]]
    <2>1. \A d \in Calls : state'[d] = IF state[d] = "sent" THEN "failed" ELSE state[d]
      BY <1>1 DEF FetchLosesFrame
    <2> QED BY <2>1 DEF Active, Outcome, Settled
  <1>3. chain' = IF Active = {} THEN chain ELSE Tail(chain)
    BY <1>1 DEF FetchLosesFrame
  <1> QED BY <1>1, <1>2, <1>3 DEF Ordered!Lose, Outcome

LEMMA OrderedStep ==
    FetchInv /\ [Next]_vars => [Ordered!CallsNext]_(Ordered!callVars)
  <1> SUFFICES ASSUME FetchInv, [Next]_vars
               PROVE  [Ordered!CallsNext]_(Ordered!callVars)
    OBVIOUS
  <1>1. CASE UNCHANGED <<chain, state, gone>>
    BY <1>1 DEF Ordered!callVars, Active
  <1>2. CASE FetchNext /\ UNCHANGED gone
    <2>1. CASE \E c \in Calls : Enqueue(c)
      BY <1>2, <2>1, EnqueueIsAsk DEF Ordered!CallsNext
    <2>2. CASE \E c \in Calls : Start(c)
      BY <1>2, <2>2, StartIsBegin DEF Ordered!CallsNext
    <2>3. CASE \E c \in Calls : Answer(c) \/ Fail(c)
      BY <1>2, <2>3, AnswerOrFailIsSettle DEF Ordered!CallsNext
    <2>4. CASE \E f \in wire : Arrive(f) \/ Drop(f)
      BY <1>1, <1>2, <2>4 DEF Arrive, Drop
    <2> QED BY <1>2, <2>1, <2>2, <2>3, <2>4 DEF FetchNext
  <1>3. CASE RemoveFrame
    BY <1>3, LossIsLose DEF Ordered!CallsNext
  <1> QED BY <1>1, <1>2, <1>3 DEF Next, vars, fetchVars

\* privasys-shell.js:276-284, for any number of calls, whatever is lost, late or
\* refused, and whether the iframe stays or goes: the chain carries the calls out
\* one after the other in the order they were made.
THEOREM ChainKeepsOrder == Spec => ImplementsOrderedCalls
  <1>1. Init => FetchInv
    BY FetchInitInv DEF Init
  <1> QED BY <1>1, FetchInvKept, OrderedInit, OrderedStep, PTL
          DEF Spec, ImplementsOrderedCalls

-----------------------------------------------------------------------------
(* The mux socket. *)

\* What the adapter is, by the frame and by what it has told dsh.  Until `ready`
\* settles it is connecting and has told nothing but errors; then it has opened,
\* or ended; it listens to messages until it is left; and an end that comes while
\* the iframe may still close was dsh's own, of a socket that never opened.
AdapterInv ==
    /\ frame = "none" => told = Nothing /\ readyState = 0 /\ sent["message"] = 0 /\ ~left
    /\ frame = "refused" => Ended
    /\ frame \in {"none", "refused"} => ~pending /\ ~subscribed
    /\ frame \in {"none", "refused", "gone"} => posted = <<>>
    /\ frame \notin {"none", "refused"} => (subscribed <=> ~left)
    /\ pending => ~left /\ readyState = 0 /\ told.open = 0 /\ told.message = 0 /\ told.close = 0
    /\ ~pending /\ frame # "none" => told.open = 1 \/ Ended
    /\ ~pending /\ frame # "none" /\ ~Ended => readyState = IF left THEN 2 ELSE 1
    /\ Ended /\ ~left => readyState = 3
    /\ Ended /\ (posted # <<>> \/ frame \in {"opening", "open"}) =>
          left /\ readyState = 3 /\ told.open = 0 /\ told.close = 1

\* What waits to be run: nothing but errors before the acknowledgement, which a
\* message of a socket that has not opened has before it; and the close is last.
PostedInv ==
    /\ \A i \in 1..Len(posted) :
          /\ posted[i].type = "ack" => \A j \in 1..(i - 1) : posted[j].type = "error"
          /\ posted[i].type = "message" /\ pending =>
                \E j \in 1..(i - 1) : posted[j].type = "ack"
          /\ posted[i].type = "close" => i = Len(posted) /\ frame = "closed"
          /\ frame = "opening" => posted[i].type = "error"
          /\ posted[i].type = "error" => posted[i] = Event("error")
          /\ posted[i].type = "message" => posted[i] = Message(posted[i].n)
    /\ pending /\ frame = "open" => \E i \in 1..Len(posted) : posted[i].type = "ack"

\* Messages that dsh has heard, and that are still to be heard: in their order,
\* and none is missing.
MessageInv ==
    subscribed /\ ~Ended =>
        /\ told.message <= sent["message"]
        /\ \A i \in 1..Len(posted) : posted[i].type = "message" =>
              /\ told.message < posted[i].n /\ posted[i].n <= sent["message"]
              /\ \A j \in 1..(i - 1) : posted[j].type = "message" => posted[j].n < posted[i].n
        /\ frame # "gone" => \A n \in (told.message + 1)..sent["message"] :
              \E i \in 1..Len(posted) : posted[i] = Message(n)

SocketInv == MuxTypeOK /\ AdapterInv /\ PostedInv /\ MessageInv

LEMMA SocketInitInv == MuxInit => SocketInv
  <1> SUFFICES ASSUME MuxInit PROVE SocketInv
    OBVIOUS
  <1>1. /\ readyState = 0 /\ ~pending /\ ~subscribed /\ ~left /\ frame = "none"
        /\ posted = <<>> /\ sent["message"] = 0
        /\ pending \in BOOLEAN /\ subscribed \in BOOLEAN /\ left \in BOOLEAN
        /\ sent \in [{"message", "error"} -> Nat]
    BY DEF MuxInit
  <1>2. told = Nothing /\ told \in Tellings
    BY DEF MuxInit, Nothing, Tellings
  <1>3. ~Ended
    BY <1>2 DEF Ended, Nothing
  <1>4. MuxTypeOK
    BY <1>1, <1>2 DEF MuxTypeOK
  <1>5. AdapterInv
    BY <1>1, <1>2, <1>3 DEF AdapterInv
  <1>6. PostedInv /\ MessageInv
    BY <1>1 DEF PostedInv, MessageInv
  <1> QED BY <1>4, <1>5, <1>6 DEF SocketInv

\* The fields of what has been told, after each kind of event.
LEMMA TellsOpen ==
    ASSUME NEW t \in Tellings
    PROVE  /\ [t EXCEPT !.open = @ + 1] \in Tellings
           /\ [t EXCEPT !.open = @ + 1].open = t.open + 1
           /\ [t EXCEPT !.open = @ + 1].message = t.message
           /\ [t EXCEPT !.open = @ + 1].close = t.close
  BY DEF Tellings

LEMMA TellsMessage ==
    ASSUME NEW t \in Tellings, NEW n \in Nat
    PROVE  /\ [t EXCEPT !.message = n] \in Tellings
           /\ [t EXCEPT !.message = n].open = t.open
           /\ [t EXCEPT !.message = n].message = n
           /\ [t EXCEPT !.message = n].close = t.close
  BY DEF Tellings

LEMMA TellsError ==
    ASSUME NEW t \in Tellings
    PROVE  /\ [t EXCEPT !.error = @ + 1] \in Tellings
           /\ [t EXCEPT !.error = @ + 1].open = t.open
           /\ [t EXCEPT !.error = @ + 1].message = t.message
           /\ [t EXCEPT !.error = @ + 1].close = t.close
  BY DEF Tellings

LEMMA TellsClose ==
    ASSUME NEW t \in Tellings
    PROVE  /\ [t EXCEPT !.close = @ + 1] \in Tellings
           /\ [t EXCEPT !.close = @ + 1].open = t.open
           /\ [t EXCEPT !.close = @ + 1].message = t.message
           /\ [t EXCEPT !.close = @ + 1].close = t.close + 1
  BY DEF Tellings

LEMMA TellsFailed ==
    ASSUME NEW t \in Tellings
    PROVE  /\ Failed(t) \in Tellings
           /\ Failed(t).open = t.open /\ Failed(t).message = t.message
           /\ Failed(t).close = t.close + 1
  <1> DEFINE f == [t EXCEPT !.error = @ + 1]
  <1>1. f \in Tellings /\ f.open = t.open /\ f.message = t.message /\ f.close = t.close
    BY TellsError
  <1>2. Failed(t) = [f EXCEPT !.close = @ + 1]
    BY DEF Failed, Tellings
  <1> HIDE DEF f
  <1> QED BY <1>1, <1>2, TellsClose

\* A task is put behind the others.
LEMMA PostAppends ==
    ASSUME MuxTypeOK, NEW e \in Tasks, Post(e)
    PROVE  /\ posted' \in Seq(Tasks) /\ Len(posted) \in Nat
           /\ Len(posted') = Len(posted) + 1 /\ posted'[Len(posted) + 1] = e
           /\ \A i \in 1..Len(posted) : posted'[i] = posted[i] /\ posted[i] \in Tasks
  BY DEF MuxTypeOK, Post

\* The first task is run.
LEMMA RunTakes ==
    ASSUME MuxTypeOK, posted # <<>>, posted' = Tail(posted)
    PROVE  /\ posted' \in Seq(Tasks) /\ Len(posted) \in Nat \ {0}
           /\ Head(posted) = posted[1] /\ posted[1] \in Tasks
           /\ Len(posted') = Len(posted) - 1
           /\ \A i \in 1..Len(posted') : posted'[i] = posted[i + 1] /\ posted'[i] \in Tasks
  BY DEF MuxTypeOK

\* What waits behind a task that has been run.
LEMMA RunKeepsPosted ==
    ASSUME SocketInv, posted # <<>>, posted' = Tail(posted), UNCHANGED frame,
           pending' => pending /\ Head(posted).type = "error"
    PROVE  PostedInv'
  <1>1. /\ Len(posted) \in Nat \ {0} /\ Head(posted) = posted[1]
        /\ Len(posted') = Len(posted) - 1
        /\ \A i \in 1..Len(posted') : posted'[i] = posted[i + 1]
    BY RunTakes DEF SocketInv
  <1>2. ASSUME NEW i \in 1..Len(posted')
        PROVE  /\ posted'[i].type = "ack" => \A j \in 1..(i - 1) : posted'[j].type = "error"
               /\ posted'[i].type = "message" /\ pending' =>
                     \E j \in 1..(i - 1) : posted'[j].type = "ack"
               /\ posted'[i].type = "close" => i = Len(posted') /\ frame' = "closed"
               /\ frame' = "opening" => posted'[i].type = "error"
               /\ posted'[i].type = "error" => posted'[i] = Event("error")
               /\ posted'[i].type = "message" => posted'[i] = Message(posted'[i].n)
    <2>1. i + 1 \in 1..Len(posted) /\ posted'[i] = posted[i + 1]
      BY <1>1
    <2>2. \A j \in 1..(i - 1) : j + 1 \in 1..i /\ posted'[j] = posted[j + 1]
      BY <1>1
    <2>3. posted'[i].type = "ack" => \A j \in 1..(i - 1) : posted'[j].type = "error"
      BY <2>1, <2>2 DEF SocketInv, PostedInv
    <2>4. ASSUME posted'[i].type = "message", pending'
          PROVE  \E j \in 1..(i - 1) : posted'[j].type = "ack"
      <3>1. PICK j \in 1..i : posted[j].type = "ack"
        BY <2>1, <2>4 DEF SocketInv, PostedInv
      <3>2. j # 1
        BY <1>1, <2>4, <3>1
      <3>3. j - 1 \in 1..(i - 1) /\ posted'[j - 1] = posted[j]
        BY <2>2, <3>1, <3>2
      <3> QED BY <3>1, <3>3
    <2>5. posted'[i].type = "close" => i = Len(posted') /\ frame' = "closed"
      <3>1. posted[i + 1].type = "close" => i + 1 = Len(posted) /\ frame = "closed"
        BY <2>1 DEF SocketInv, PostedInv
      <3>2. i \in Int /\ Len(posted) \in Int /\ Len(posted') = Len(posted) - 1
        BY <1>1
      <3>3. frame' = frame
        OBVIOUS
      <3> QED BY <2>1, <3>1, <3>2, <3>3
    <2> QED BY <2>1, <2>3, <2>4, <2>5 DEF SocketInv, PostedInv
  <1>3. ASSUME pending', frame' = "open"
        PROVE  \E i \in 1..Len(posted') : posted'[i].type = "ack"
    <2>1. PICK i \in 1..Len(posted) : posted[i].type = "ack"
      BY <1>3 DEF SocketInv, PostedInv
    <2>2. i # 1
      BY <1>1, <1>3, <2>1
    <2>3. i - 1 \in 1..Len(posted') /\ posted'[i - 1] = posted[i]
      BY <1>1, <2>1, <2>2
    <2> QED BY <2>1, <2>3
  <1> QED BY <1>2, <1>3 DEF PostedInv

\* A task that is no message leaves the messages to be heard as they are.
LEMMA RunKeepsMessages ==
    ASSUME SocketInv, posted # <<>>, posted' = Tail(posted), UNCHANGED <<frame, sent>>,
           subscribed' => subscribed, Ended => Ended', Ended' \/ told'.message = told.message,
           Head(posted).type # "message"
    PROVE  MessageInv'
  <1> SUFFICES ASSUME subscribed', ~Ended' PROVE MessageInv'
    BY DEF MessageInv
  <1>1. /\ Len(posted) \in Nat \ {0} /\ Head(posted) = posted[1]
        /\ Len(posted') = Len(posted) - 1
        /\ \A i \in 1..Len(posted') : posted'[i] = posted[i + 1]
    BY RunTakes DEF SocketInv
  <1>2. subscribed /\ ~Ended /\ told'.message = told.message /\ sent' = sent /\ frame' = frame
    OBVIOUS
  <1>3. ASSUME NEW i \in 1..Len(posted'), posted'[i].type = "message"
        PROVE  /\ told.message < posted'[i].n /\ posted'[i].n <= sent["message"]
               /\ \A j \in 1..(i - 1) : posted'[j].type = "message" => posted'[j].n < posted'[i].n
    <2>1. i + 1 \in 1..Len(posted) /\ posted'[i] = posted[i + 1]
      BY <1>1
    <2>2. \A j \in 1..(i - 1) : j + 1 \in 1..((i + 1) - 1) /\ posted'[j] = posted[j + 1]
      BY <1>1
    <2> QED BY <1>2, <1>3, <2>1, <2>2 DEF SocketInv, MessageInv
  <1>4. ASSUME frame # "gone", NEW n \in (told.message + 1)..sent["message"]
        PROVE  \E i \in 1..Len(posted') : posted'[i] = Message(n)
    <2>1. PICK i \in 1..Len(posted) : posted[i] = Message(n)
      BY <1>2, <1>4 DEF SocketInv, MessageInv
    <2>2. i # 1
      BY <1>1, <2>1 DEF Message
    <2>3. i - 1 \in 1..Len(posted') /\ posted'[i - 1] = posted[i]
      BY <1>1, <2>1, <2>2
    <2> QED BY <2>1, <2>3
  <1>5. told.message <= sent["message"]
    BY <1>2 DEF SocketInv, MessageInv
  <1> QED BY <1>2, <1>3, <1>4, <1>5 DEF MessageInv

\* The constructor, with an iframe or without.
LEMMA NewKeeps == ASSUME SocketInv, New PROVE SocketInv'
  <1>1. /\ frame = "none" /\ told = Nothing /\ posted = <<>> /\ ~left
        /\ UNCHANGED <<posted, sent, left>> /\ sent["message"] = 0
    BY DEF New, SocketInv, AdapterInv
  <1>2. told.open = 0 /\ told.message = 0 /\ told.close = 0
    BY <1>1 DEF Nothing
  <1>3. told \in Tellings
    BY DEF SocketInv, MuxTypeOK
  <1>4. CASE gone
    <2>1. /\ frame' = "refused" /\ readyState' = 3 /\ pending' = FALSE /\ subscribed' = FALSE
          /\ told' = Failed(told)
      BY <1>4 DEF New
    <2>2. /\ told' \in Tellings
          /\ told'.open = 0 /\ told'.close = 1
      BY <1>2, <1>3, <2>1, TellsFailed
    <2>3. MuxTypeOK'
      <3>1. readyState' \in 0..3
        BY <2>1
      <3>2. pending' \in BOOLEAN /\ subscribed' \in BOOLEAN
        BY <2>1
      <3> QED BY <1>1, <2>1, <2>2, <3>1, <3>2 DEF SocketInv, MuxTypeOK
    <2>4. Ended'
      BY <2>2 DEF Ended
    <2>5. AdapterInv'
      BY <1>1, <2>1, <2>2, <2>4 DEF AdapterInv
    <2>6. PostedInv' /\ MessageInv'
      BY <1>1, <2>1 DEF PostedInv, MessageInv
    <2> QED BY <2>3, <2>5, <2>6 DEF SocketInv
  <1>5. CASE ~gone
    <2>1. /\ frame' = "opening" /\ readyState' = 0 /\ pending' = TRUE /\ subscribed' = TRUE
          /\ told' = told
      BY <1>5 DEF New
    <2>2. MuxTypeOK'
      BY <1>1, <1>3, <2>1 DEF SocketInv, MuxTypeOK
    <2>3. AdapterInv'
      BY <1>1, <1>2, <2>1 DEF AdapterInv, Ended
    <2>4. PostedInv'
      BY <1>1, <2>1 DEF PostedInv
    <2>5. MessageInv'
      BY <1>1, <1>2, <2>1 DEF MessageInv
    <2> QED BY <2>2, <2>3, <2>4, <2>5 DEF SocketInv
  <1> QED BY <1>4, <1>5

\* What the iframe posts.  An acknowledgement comes when nothing but errors has
\* been posted, a message after it and with the next number, a close last.
LEMMA FrameKeeps ==
    ASSUME SocketInv, FrameOpens \/ FrameSends \/ FrameErrs \/ FrameCloses
    PROVE  SocketInv'
  <1>1. /\ UNCHANGED <<readyState, pending, subscribed, told, left>>
        /\ frame \in {"opening", "open"} /\ frame' \in {"opening", "open", "closed"}
        /\ frame' = "opening" => frame = "opening"
        /\ sent' \in [{"message", "error"} -> Nat]
    BY DEF FrameOpens, FrameSends, FrameErrs, FrameCloses, SocketInv, MuxTypeOK
  <1>2. PICK e \in Tasks :
          /\ Post(e)
          /\ \/ e = Event("ack") /\ frame = "opening" /\ frame' = "open" /\ sent' = sent
             \/ /\ e = Message(sent["message"] + 1) /\ frame = "open" /\ frame' = "open"
                /\ sent'["message"] = sent["message"] + 1
             \/ /\ e = Event("error") /\ frame' = frame
                /\ sent'["message"] = sent["message"]
             \/ e = Event("close") /\ frame' = "closed" /\ sent' = sent
    <2>1. CASE FrameOpens
      <3>1. Event("ack") \in Tasks
        BY DEF Event, Tasks
      <3> QED BY <2>1, <3>1 DEF FrameOpens
    <2>2. CASE FrameSends
      <3>1. sent["message"] \in Nat /\ sent'["message"] = sent["message"] + 1
        BY <2>2 DEF FrameSends, SocketInv, MuxTypeOK
      <3>2. Message(sent["message"] + 1) \in Tasks
        BY <3>1 DEF Message, Tasks
      <3> QED BY <2>2, <3>1, <3>2 DEF FrameSends
    <2>3. CASE FrameErrs
      <3>1. Event("error") \in Tasks
        BY DEF Event, Tasks
      <3> QED BY <2>3, <3>1 DEF FrameErrs, SocketInv, MuxTypeOK
    <2>4. CASE FrameCloses
      <3>1. Event("close") \in Tasks
        BY DEF Event, Tasks
      <3> QED BY <2>4, <3>1 DEF FrameCloses
    <2> QED BY <2>1, <2>2, <2>3, <2>4
  <1>3. /\ posted' \in Seq(Tasks) /\ Len(posted) \in Nat
        /\ Len(posted') = Len(posted) + 1 /\ posted'[Len(posted) + 1] = e
        /\ \A i \in 1..Len(posted) : posted'[i] = posted[i] /\ posted[i] \in Tasks
    BY <1>2, PostAppends DEF SocketInv
  <1>4. sent["message"] \in Nat /\ sent'["message"] \in Nat /\ told.message \in Nat
    BY <1>1 DEF SocketInv, MuxTypeOK, Tellings
  <1>5. /\ frame = "opening" => \A i \in 1..Len(posted) : posted[i].type = "error"
        /\ \A i \in 1..Len(posted) : posted[i].type # "close"
    BY <1>1 DEF SocketInv, PostedInv
  <1>6. /\ e.type = "ack" => e = Event("ack") /\ frame = "opening" /\ frame' = "open"
        /\ e.type = "message" => /\ e.n = sent["message"] + 1 /\ frame = "open"
                                 /\ sent'["message"] = sent["message"] + 1
        /\ e.type = "close" => frame' = "closed"
        /\ e.type # "message" => sent'["message"] = sent["message"]
        /\ e.type = "error" => e = Event("error") /\ frame' = frame
        /\ e.type = "message" => e = Message(e.n)
        /\ frame' = "opening" => e.type = "error"
        /\ frame = "opening" /\ frame' = "open" => e.type = "ack"
    BY <1>2 DEF Event, Message
  <1>7. MuxTypeOK'
    BY <1>1, <1>3 DEF SocketInv, MuxTypeOK
  <1>8. AdapterInv'
    <2>1. Ended' <=> Ended
      BY <1>1 DEF Ended
    <2> QED BY <1>1, <2>1 DEF SocketInv, AdapterInv
  <1>9. PostedInv'
    <2>1. ASSUME NEW i \in 1..Len(posted')
          PROVE  /\ posted'[i].type = "ack" => \A j \in 1..(i - 1) : posted'[j].type = "error"
                 /\ posted'[i].type = "message" /\ pending' =>
                       \E j \in 1..(i - 1) : posted'[j].type = "ack"
                 /\ posted'[i].type = "close" => i = Len(posted') /\ frame' = "closed"
                 /\ frame' = "opening" => posted'[i].type = "error"
                 /\ posted'[i].type = "error" => posted'[i] = Event("error")
                 /\ posted'[i].type = "message" => posted'[i] = Message(posted'[i].n)
      <3>1. CASE i \in 1..Len(posted)
        <4>1. posted'[i] = posted[i] /\ \A j \in 1..(i - 1) : posted'[j] = posted[j]
          BY <1>3, <3>1
        <4> QED BY <1>1, <1>5, <3>1, <4>1 DEF SocketInv, PostedInv
      <3>2. CASE i = Len(posted) + 1
        <4>1. posted'[i] = e /\ \A j \in 1..(i - 1) : posted'[j] = posted[j]
          BY <1>3, <3>2
        <4>2. e.type = "ack" => \A j \in 1..(i - 1) : posted'[j].type = "error"
          BY <1>3, <1>5, <1>6, <3>2, <4>1
        <4>3. e.type = "message" /\ pending => \E j \in 1..(i - 1) : posted'[j].type = "ack"
          <5>1. e.type = "message" /\ pending => \E j \in 1..Len(posted) : posted[j].type = "ack"
            BY <1>6 DEF SocketInv, PostedInv
          <5> QED BY <1>3, <3>2, <4>1, <5>1
        <4> QED BY <1>1, <1>3, <1>6, <3>2, <4>1, <4>2, <4>3
      <3> QED BY <1>3, <3>1, <3>2
    <2>2. ASSUME pending', frame' = "open"
          PROVE  \E i \in 1..Len(posted') : posted'[i].type = "ack"
      <3>1. CASE frame = "opening"
        <4>1. e.type = "ack" /\ Len(posted) + 1 \in 1..Len(posted')
          BY <1>3, <1>6, <2>2, <3>1
        <4> QED BY <1>3, <4>1
      <3>2. CASE frame = "open"
        <4>1. PICK i \in 1..Len(posted) : posted[i].type = "ack"
          BY <1>1, <2>2, <3>2 DEF SocketInv, PostedInv
        <4> QED BY <1>3, <4>1
      <3> QED BY <1>1, <3>1, <3>2
    <2> QED BY <2>1, <2>2 DEF PostedInv
  <1>10. MessageInv'
    <2> SUFFICES ASSUME subscribed, ~Ended PROVE MessageInv'
      BY <1>1 DEF MessageInv, Ended
    <2>1. told.message <= sent["message"] /\ sent["message"] <= sent'["message"]
      <3>1. sent["message"] <= sent'["message"]
        BY <1>4, <1>6
      <3> QED BY <3>1 DEF SocketInv, MessageInv
    <2>2. ASSUME NEW i \in 1..Len(posted'), posted'[i].type = "message"
          PROVE  /\ told.message < posted'[i].n /\ posted'[i].n <= sent'["message"]
                 /\ \A j \in 1..(i - 1) :
                       posted'[j].type = "message" => posted'[j].n < posted'[i].n
      <3>1. CASE i \in 1..Len(posted)
        <4>1. posted'[i] = posted[i] /\ \A j \in 1..(i - 1) : posted'[j] = posted[j]
          BY <1>3, <3>1
        <4>2. posted[i].n \in Nat
          BY <1>3, <3>1 DEF Tasks
        <4> QED BY <1>4, <2>1, <2>2, <3>1, <4>1, <4>2 DEF SocketInv, MessageInv
      <3>2. CASE i = Len(posted) + 1
        <4>1. posted'[i] = e /\ e.n = sent["message"] + 1 /\ sent'["message"] = e.n
          BY <1>3, <1>6, <2>2, <3>2
        <4>2. ASSUME NEW j \in 1..(i - 1), posted'[j].type = "message"
              PROVE  posted'[j].n < posted'[i].n
          <5>1. j \in 1..Len(posted) /\ posted'[j] = posted[j] /\ posted[j].n \in Nat
            BY <1>3, <3>2 DEF Tasks
          <5>2. posted[j].n <= sent["message"]
            BY <4>2, <5>1 DEF SocketInv, MessageInv
          <5> QED BY <1>4, <4>1, <5>1, <5>2
        <4> QED BY <1>4, <2>1, <4>1, <4>2
      <3> QED BY <1>3, <3>1, <3>2
    <2>3. ASSUME NEW n \in (told.message + 1)..sent'["message"]
          PROVE  \E i \in 1..Len(posted') : posted'[i] = Message(n)
      <3>1. CASE n <= sent["message"]
        <4>1. n \in (told.message + 1)..sent["message"]
          BY <1>4, <3>1
        <4>2. PICK i \in 1..Len(posted) : posted[i] = Message(n)
          BY <1>1, <4>1 DEF SocketInv, MessageInv
        <4> QED BY <1>3, <4>2
      <3>2. CASE n > sent["message"]
        <4>1. e.type = "message" /\ n = sent["message"] + 1
          BY <1>4, <1>6, <3>2
        <4>2. e = Message(n) /\ Len(posted) + 1 \in 1..Len(posted')
          BY <1>3, <1>6, <4>1
        <4> QED BY <1>3, <4>2
      <3> QED BY <1>4, <3>1, <3>2
    <2>4. told.message <= sent'["message"]
      BY <1>4, <2>1
    <2>5. told' = told
      BY <1>1
    <2> QED BY <2>2, <2>3, <2>4, <2>5 DEF MessageInv
  <1> QED BY <1>7, <1>8, <1>9, <1>10 DEF SocketInv

\* While something waits to be run, an end that dsh has heard was that of a
\* socket that never opened, and dsh has left it.
LEMMA EndedBeforeLast ==
    ASSUME SocketInv, posted # <<>>
    PROVE  /\ frame \notin {"none", "refused", "gone"}
           /\ Ended => left /\ ~subscribed /\ readyState = 3 /\ told.open = 0 /\ told.close = 1
  BY DEF SocketInv, AdapterInv

\* A task that leaves the adapter as it is, but for errors and messages it tells.
LEMMA RunKeepsAdapter ==
    ASSUME SocketInv, posted # <<>>,
           UNCHANGED <<readyState, pending, subscribed, frame, sent, left>>,
           told'.open = told.open, told'.close = told.close,
           told'.message = told.message \/ ~pending
    PROVE  AdapterInv'
  <1>1. Ended' <=> Ended
    BY DEF Ended
  <1> QED BY <1>1, EndedBeforeLast DEF SocketInv, AdapterInv

LEMMA OnErrorKeeps == ASSUME SocketInv, OnError PROVE SocketInv'
  <1>1. /\ posted # <<>> /\ Head(posted).type = "error" /\ posted' = Tail(posted)
        /\ UNCHANGED <<readyState, pending, subscribed, frame, sent, left>>
    BY DEF OnError
  <1>2. /\ told' \in Tellings
        /\ told'.open = told.open /\ told'.message = told.message /\ told'.close = told.close
    <2>1. told \in Tellings /\ told' = [told EXCEPT !.error = @ + 1]
      BY DEF OnError, SocketInv, MuxTypeOK
    <2> QED BY <2>1, TellsError
  <1>3. MuxTypeOK'
    BY <1>1, <1>2, RunTakes DEF SocketInv, MuxTypeOK
  <1>4. Ended' <=> Ended
    BY <1>2 DEF Ended
  <1>5. AdapterInv'
    BY <1>1, <1>2, RunKeepsAdapter
  <1>6. PostedInv'
    BY <1>1, RunKeepsPosted
  <1>7. MessageInv'
    BY <1>1, <1>2, <1>4, RunKeepsMessages
  <1> QED BY <1>3, <1>5, <1>6, <1>7 DEF SocketInv

LEMMA OnAckKeeps == ASSUME SocketInv, OnAck PROVE SocketInv'
  <1>1. /\ posted # <<>> /\ Head(posted).type = "ack" /\ posted' = Tail(posted)
        /\ UNCHANGED <<subscribed, frame, sent, left>> /\ pending' = FALSE
    BY DEF OnAck
  <1>2. frame \notin {"none", "refused", "gone"}
    BY <1>1, EndedBeforeLast
  <1>3. PostedInv'
    BY <1>1, RunKeepsPosted
  <1>4. CASE pending
    <2>1. /\ ~left /\ readyState' = 1 /\ told' = [told EXCEPT !.open = @ + 1]
          /\ told.open = 0 /\ told.close = 0
      BY <1>4 DEF OnAck, SocketInv, AdapterInv
    <2>2. /\ told' \in Tellings
          /\ told'.open = 1 /\ told'.message = told.message /\ told'.close = 0
      <3>1. told \in Tellings
        BY DEF SocketInv, MuxTypeOK
      <3> QED BY <2>1, <3>1, TellsOpen
    <2>3. ~Ended /\ ~Ended'
      BY <2>1, <2>2 DEF Ended
    <2>4. MuxTypeOK'
      <3>1. readyState' \in 0..3
        BY <2>1
      <3>2. pending' \in BOOLEAN
        BY <1>1
      <3>3. posted' \in Seq(Tasks)
        BY <1>1, RunTakes DEF SocketInv
      <3> QED BY <1>1, <2>2, <3>1, <3>2, <3>3 DEF SocketInv, MuxTypeOK
    <2>5. AdapterInv'
      BY <1>1, <1>2, <2>1, <2>2, <2>3 DEF SocketInv, AdapterInv
    <2>6. MessageInv'
      BY <1>1, <2>2, <2>3, RunKeepsMessages
    <2> QED BY <1>3, <2>4, <2>5, <2>6 DEF SocketInv
  <1>5. CASE ~pending
    <2>1. UNCHANGED <<readyState, pending, told>>
      BY <1>5 DEF OnAck, SocketInv, MuxTypeOK
    <2>2. MuxTypeOK'
      BY <1>1, <2>1, RunTakes DEF SocketInv, MuxTypeOK
    <2>3. Ended' <=> Ended
      BY <2>1 DEF Ended
    <2>4. AdapterInv'
      BY <1>1, <2>1, RunKeepsAdapter
    <2>5. MessageInv'
      BY <1>1, <2>1, <2>3, RunKeepsMessages
    <2> QED BY <1>3, <2>2, <2>4, <2>5 DEF SocketInv
  <1> QED BY <1>4, <1>5

\* A message that is heard: the socket has opened, has not ended, and this is
\* the message after the last one heard.
LEMMA NextMessage ==
    ASSUME SocketInv, OnMessage, subscribed
    PROVE  /\ ~Ended /\ ~left /\ ~pending /\ readyState = 1
           /\ Head(posted) = Message(told.message + 1) /\ told.message + 1 <= sent["message"]
  <1>1. /\ posted # <<>> /\ Len(posted) \in Nat \ {0}
        /\ Head(posted) = posted[1] /\ posted[1].type = "message" /\ posted[1] \in Tasks
    <2>1. posted # <<>> /\ Head(posted).type = "message" /\ posted' = Tail(posted)
      BY DEF OnMessage
    <2> QED BY <2>1, RunTakes DEF SocketInv
  <1>2. ~Ended /\ frame \notin {"none", "refused", "gone"}
    BY <1>1, EndedBeforeLast
  <1>3. ~pending
    <2>1. 1 \in 1..Len(posted) /\ ~\E j \in 1..(1 - 1) : posted[j].type = "ack"
      BY <1>1
    <2> QED BY <1>1, <2>1 DEF SocketInv, PostedInv
  <1>4. ~left /\ readyState = 1
    BY <1>2, <1>3 DEF SocketInv, AdapterInv
  <1>5. told.message \in Nat /\ sent["message"] \in Nat
    BY DEF SocketInv, MuxTypeOK, Tellings
  <1>6. told.message < posted[1].n /\ posted[1].n <= sent["message"] /\ posted[1].n \in Nat
    BY <1>1, <1>2 DEF SocketInv, MessageInv, Tasks
  <1>7. PICK i \in 1..Len(posted) : posted[i] = Message(told.message + 1)
    <2>1. told.message + 1 \in (told.message + 1)..sent["message"]
      BY <1>5, <1>6
    <2> QED BY <1>2, <2>1 DEF SocketInv, MessageInv
  <1>8. i = 1
    <2> SUFFICES ASSUME i # 1 PROVE FALSE
      OBVIOUS
    <2>1. 1 \in 1..(i - 1) /\ posted[i].type = "message" /\ posted[i].n = told.message + 1
      BY <1>1, <1>7 DEF Message
    <2>2. posted[1].n < posted[i].n
      BY <1>1, <1>2, <2>1 DEF SocketInv, MessageInv
    <2> QED BY <1>5, <1>6, <2>1, <2>2
  <1>9. Head(posted) = Message(told.message + 1)
    BY <1>1, <1>7, <1>8
  <1>10. told.message + 1 <= sent["message"]
    BY <1>5, <1>6
  <1> QED BY <1>2, <1>3, <1>4, <1>9, <1>10

LEMMA OnMessageKeeps == ASSUME SocketInv, OnMessage PROVE SocketInv'
  <1>1. /\ posted # <<>> /\ Head(posted).type = "message" /\ posted' = Tail(posted)
        /\ UNCHANGED <<readyState, pending, subscribed, frame, sent, left>>
    BY DEF OnMessage
  <1>2. /\ posted' \in Seq(Tasks) /\ Len(posted) \in Nat \ {0} /\ Head(posted) = posted[1]
        /\ Len(posted') = Len(posted) - 1
        /\ \A i \in 1..Len(posted') : posted'[i] = posted[i + 1] /\ posted'[i] \in Tasks
    BY <1>1, RunTakes DEF SocketInv
  <1>3. ~pending
    <2>1. 1 \in 1..Len(posted) /\ ~\E j \in 1..(1 - 1) : posted[j].type = "ack"
      BY <1>2
    <2> QED BY <1>1, <1>2, <2>1 DEF SocketInv, PostedInv
  <1>4. PostedInv'
    BY <1>1, <1>3, RunKeepsPosted
  <1>5. CASE ~subscribed
    <2>1. told' = told
      BY <1>5 DEF OnMessage
    <2>2. MuxTypeOK'
      BY <1>1, <1>2, <2>1 DEF SocketInv, MuxTypeOK
    <2>3. MessageInv'
      BY <1>1, <1>5 DEF MessageInv
    <2>4. AdapterInv'
      BY <1>1, <2>1, RunKeepsAdapter
    <2> QED BY <1>4, <2>2, <2>3, <2>4 DEF SocketInv
  <1>6. CASE subscribed
    <2> DEFINE heard == told.message
    <2>1. /\ ~Ended /\ ~left /\ readyState = 1
          /\ Head(posted) = Message(heard + 1) /\ heard + 1 <= sent["message"]
      BY <1>6, NextMessage
    <2>2. heard \in Nat /\ sent["message"] \in Nat
      BY DEF SocketInv, MuxTypeOK, Tellings
    <2>3. posted[1].type = "message" /\ posted[1].n = heard + 1
      BY <1>2, <2>1 DEF Message
    <2>4. /\ told' \in Tellings
          /\ told'.open = told.open /\ told'.close = told.close /\ told'.message = heard + 1
      <3>1. told' = [told EXCEPT !.message = heard + 1]
        BY <1>2, <1>6, <2>3 DEF OnMessage
      <3>2. told \in Tellings /\ heard + 1 \in Nat
        BY <2>2 DEF SocketInv, MuxTypeOK
      <3> HIDE DEF heard
      <3> QED BY <3>1, <3>2, TellsMessage
    <2>5. ~Ended'
      BY <2>1, <2>4 DEF Ended
    <2>6. MuxTypeOK'
      BY <1>1, <1>2, <2>4 DEF SocketInv, MuxTypeOK
    <2>7. AdapterInv'
      BY <1>1, <1>3, <2>4, RunKeepsAdapter
    <2>8. ASSUME NEW i \in 1..Len(posted'), posted'[i].type = "message"
          PROVE  /\ heard + 1 < posted'[i].n /\ posted'[i].n <= sent["message"]
                 /\ \A j \in 1..(i - 1) :
                       posted'[j].type = "message" => posted'[j].n < posted'[i].n
      <3>1. i + 1 \in 1..Len(posted) /\ posted'[i] = posted[i + 1] /\ 1 \in 1..((i + 1) - 1)
        BY <1>2
      <3>2. \A j \in 1..(i - 1) : j + 1 \in 1..((i + 1) - 1) /\ posted'[j] = posted[j + 1]
        BY <1>2
      <3>3. /\ posted[i + 1].n <= sent["message"]
            /\ \A j \in 1..((i + 1) - 1) :
                  posted[j].type = "message" => posted[j].n < posted[i + 1].n
        BY <1>6, <2>1, <2>8, <3>1 DEF SocketInv, MessageInv
      <3>4. posted[1].n < posted[i + 1].n
        BY <2>3, <3>1, <3>3
      <3> QED BY <2>3, <3>1, <3>2, <3>3, <3>4
    <2>9. ASSUME frame # "gone", NEW n \in (heard + 2)..sent["message"]
          PROVE  \E i \in 1..Len(posted') : posted'[i] = Message(n)
      <3>1. n \in (heard + 1)..sent["message"] /\ n # heard + 1
        BY <2>2
      <3>2. PICK i \in 1..Len(posted) : posted[i] = Message(n)
        BY <1>6, <2>1, <2>9, <3>1 DEF SocketInv, MessageInv
      <3>3. posted[i].n = n
        BY <3>2 DEF Message
      <3>4. i # 1
        BY <2>3, <3>1, <3>3
      <3>5. i - 1 \in 1..Len(posted') /\ posted'[i - 1] = posted[i]
        BY <1>2, <3>2, <3>4
      <3> QED BY <3>2, <3>5
    <2>10. MessageInv'
      <3> HIDE DEF heard
      <3>1. told'.message + 1 = heard + 2
        BY <2>2, <2>4
      <3> QED BY <1>1, <2>1, <2>4, <2>5, <2>8, <2>9, <3>1 DEF MessageInv
    <2> QED BY <1>4, <2>6, <2>7, <2>10 DEF SocketInv
  <1> QED BY <1>5, <1>6

\* The close is the last task, and it ends the socket.
LEMMA OnCloseKeeps == ASSUME SocketInv, OnClose PROVE SocketInv'
  <1>1. /\ posted # <<>> /\ Head(posted).type = "close" /\ posted' = Tail(posted)
        /\ UNCHANGED <<subscribed, frame, sent, left>> /\ pending' = FALSE /\ readyState' = 3
    BY DEF OnClose
  <1>2. /\ posted' \in Seq(Tasks) /\ Len(posted) \in Nat \ {0} /\ Head(posted) = posted[1]
        /\ Len(posted') = Len(posted) - 1
    BY <1>1, RunTakes DEF SocketInv
  <1>3. frame = "closed" /\ posted' = <<>>
    <2>1. 1 \in 1..Len(posted)
      BY <1>2
    <2>2. 1 = Len(posted) /\ frame = "closed"
      BY <1>1, <1>2, <2>1 DEF SocketInv, PostedInv
    <2>3. Len(posted') = 0
      <3>1. Len(posted) = 1 /\ Len(posted') = Len(posted) - 1
        BY <1>2, <2>2
      <3> QED BY <3>1
    <2> QED BY <1>2, <2>2, <2>3
  <1>4. told' \in Tellings /\ told'.close > 0
    <2> DEFINE closed == [told EXCEPT !.close = @ + 1]
    <2>1. /\ closed \in Tellings
          /\ closed.close \in Nat \ {0}
      <3>1. told \in Tellings
        BY DEF SocketInv, MuxTypeOK
      <3> QED BY <3>1, TellsClose DEF Tellings
    <2>2. told' = IF pending THEN Failed(closed) ELSE closed
      BY DEF OnClose
    <2> HIDE DEF closed
    <2>3. Failed(closed) \in Tellings /\ Failed(closed).close = closed.close + 1
      BY <2>1, TellsFailed
    <2> QED BY <2>1, <2>2, <2>3
  <1>5. Ended'
    BY <1>4 DEF Ended
  <1>6. MuxTypeOK'
    <2>1. readyState' \in 0..3
      BY <1>1
    <2>2. pending' \in BOOLEAN
      BY <1>1
    <2> QED BY <1>1, <1>2, <1>4, <2>1, <2>2 DEF SocketInv, MuxTypeOK
  <1>7. AdapterInv'
    BY <1>1, <1>3, <1>5 DEF SocketInv, AdapterInv
  <1>8. PostedInv'
    BY <1>1, RunKeepsPosted
  <1>9. MessageInv'
    BY <1>5 DEF MessageInv
  <1> QED BY <1>6, <1>7, <1>8, <1>9 DEF SocketInv

LEMMA CloseKeeps == ASSUME SocketInv, Close PROVE SocketInv'
  <1>1. /\ frame # "none" /\ ~left /\ left' = TRUE /\ subscribed' = FALSE /\ pending' = FALSE
        /\ UNCHANGED <<frame, posted, sent>>
    BY DEF Close
  <1>2. PostedInv'
    BY <1>1 DEF SocketInv, PostedInv
  <1>3. MessageInv'
    BY <1>1 DEF MessageInv
  <1>4. CASE pending
    <2>1. told.open = 0 /\ told.close = 0 /\ readyState' = 3 /\ told' = Failed(told)
      BY <1>4 DEF Close, SocketInv, AdapterInv
    <2>2. /\ told' \in Tellings
          /\ told'.open = 0 /\ told'.close = 1
      <3>1. told \in Tellings
        BY DEF SocketInv, MuxTypeOK
      <3> QED BY <2>1, <3>1, TellsFailed
    <2>3. Ended'
      BY <2>2 DEF Ended
    <2>4. MuxTypeOK'
      <3>1. readyState' \in 0..3
        BY <2>1
      <3>2. pending' \in BOOLEAN /\ subscribed' \in BOOLEAN /\ left' \in BOOLEAN
        BY <1>1
      <3> QED BY <1>1, <2>2, <3>1, <3>2 DEF SocketInv, MuxTypeOK
    <2>5. AdapterInv'
      BY <1>1, <1>4, <2>1, <2>2, <2>3 DEF SocketInv, AdapterInv
    <2> QED BY <1>2, <1>3, <2>4, <2>5 DEF SocketInv
  <1>5. CASE ~pending
    <2>1. UNCHANGED told /\ readyState' = 2
      BY <1>5 DEF Close
    <2>2. Ended' <=> Ended
      BY <2>1 DEF Ended
    <2>3. MuxTypeOK'
      <3>1. readyState' \in 0..3
        BY <2>1
      <3>2. pending' \in BOOLEAN /\ subscribed' \in BOOLEAN /\ left' \in BOOLEAN
        BY <1>1
      <3> QED BY <1>1, <2>1, <3>1, <3>2 DEF SocketInv, MuxTypeOK
    <2>4. AdapterInv'
      BY <1>1, <1>5, <2>1, <2>2 DEF SocketInv, AdapterInv
    <2> QED BY <1>2, <1>3, <2>3, <2>4 DEF SocketInv
  <1> QED BY <1>4, <1>5

LEMMA SocketLossKeeps == ASSUME SocketInv, SocketLosesFrame PROVE SocketInv'
  <1>1. /\ posted' = <<>> /\ UNCHANGED <<readyState, pending, subscribed, sent, told, left>>
        /\ frame' = IF frame \in {"opening", "open", "closed"} THEN "gone" ELSE frame
    BY DEF SocketLosesFrame
  <1>2. Ended' <=> Ended
    BY <1>1 DEF Ended
  <1>3. frame' \in {"none", "refused", "gone"}
    BY <1>1 DEF SocketInv, MuxTypeOK
  <1>4. MuxTypeOK'
    <2>1. posted' \in Seq(Tasks)
      BY <1>1
    <2> QED BY <1>1, <1>3, <2>1 DEF SocketInv, MuxTypeOK
  <1>5. AdapterInv'
    BY <1>1, <1>2, <1>3 DEF SocketInv, MuxTypeOK, AdapterInv
  <1>6. PostedInv'
    BY <1>1, <1>3 DEF PostedInv
  <1>7. MessageInv'
    <2>1. subscribed => frame' = "gone"
      BY <1>1, <1>3 DEF SocketInv, AdapterInv
    <2>2. \A i \in 1..Len(posted') : FALSE
      BY <1>1
    <2> QED BY <1>1, <1>2, <2>1, <2>2 DEF SocketInv, MessageInv
  <1> QED BY <1>4, <1>5, <1>6, <1>7 DEF SocketInv

LEMMA SocketInvKept == SocketInv /\ [Next]_vars => SocketInv'
  <1> SUFFICES ASSUME SocketInv, [Next]_vars PROVE SocketInv'
    OBVIOUS
  <1>1. CASE UNCHANGED muxVars
    BY <1>1 DEF muxVars, SocketInv, MuxTypeOK, AdapterInv, PostedInv, MessageInv, Ended
  <1>2. CASE MuxNext
    BY <1>2, NewKeeps, FrameKeeps, OnAckKeeps, OnMessageKeeps, OnErrorKeeps, OnCloseKeeps,
       CloseKeeps DEF MuxNext
  <1>3. CASE RemoveFrame
    BY <1>3, SocketLossKeeps DEF RemoveFrame
  <1> QED BY <1>1, <1>2, <1>3 DEF Next, vars

-----------------------------------------------------------------------------
(* The refinement of DshSocket. *)

\* What dsh reads of readyState.
LEMMA LifeIs ==
    /\ frame = "none" => Life = "none"
    /\ frame # "none" =>
          /\ readyState = 0 => Life = "connecting"
          /\ readyState = 1 => Life = "open"
          /\ readyState = 2 => Life = "closing"
          /\ readyState = 3 => Life = "closed"
  <1>1. frame # "none" => Life = <<"connecting", "open", "closing", "closed">>[readyState + 1]
    BY DEF Life
  <1>2. frame = "none" => Life = "none"
    BY DEF Life
  <1> QED BY <1>1, <1>2

LEMMA LifeAfter ==
    frame' # "none" =>
        /\ readyState' = 0 => Life' = "connecting"
        /\ readyState' = 1 => Life' = "open"
        /\ readyState' = 2 => Life' = "closing"
        /\ readyState' = 3 => Life' = "closed"
  <1>1. frame' # "none" =>
           Life' = <<"connecting", "open", "closing", "closed">>[readyState' + 1]
    BY DEF Life
  <1> QED BY <1>1

LEMMA NewIsConnectOrFail ==
    ASSUME SocketInv, New
    PROVE  Socket!Connect \/ Socket!Fail
  <1>1. frame = "none" /\ Life = "none" /\ told.close = 0
    BY LifeIs DEF New, SocketInv, AdapterInv, Nothing
  <1>2. CASE gone
    <2>1. frame' = "refused" /\ readyState' = 3 /\ told' = Failed(told)
      BY <1>2 DEF New
    <2>2. Life' = "closed"
      BY <2>1, LifeAfter
    <2>3. told' = [told EXCEPT !.error = @ + 1, !.close = 1]
      BY <1>1, <2>1 DEF Failed, SocketInv, MuxTypeOK
    <2> QED BY <1>1, <2>2, <2>3 DEF Socket!Fail
  <1>3. CASE ~gone
    <2>1. frame' = "opening" /\ readyState' = 0 /\ told' = told
      BY <1>3 DEF New
    <2> QED BY <1>1, <2>1, LifeAfter DEF Socket!Connect
  <1> QED BY <1>2, <1>3

LEMMA AckIsOpen ==
    ASSUME SocketInv, OnAck
    PROVE  Socket!Open \/ UNCHANGED <<Life, told>>
  <1>1. frame # "none" /\ UNCHANGED frame
    BY EndedBeforeLast DEF OnAck
  <1>2. CASE pending
    <2>1. readyState = 0 /\ readyState' = 1 /\ told' = [told EXCEPT !.open = @ + 1]
      BY <1>2 DEF OnAck, SocketInv, AdapterInv
    <2> QED BY <1>1, <2>1, LifeIs, LifeAfter DEF Socket!Open
  <1>3. CASE ~pending
    BY <1>3 DEF OnAck, Life
  <1> QED BY <1>2, <1>3

LEMMA MessageIsDeliver ==
    ASSUME SocketInv, OnMessage
    PROVE  Socket!Deliver \/ UNCHANGED <<Life, told>>
  <1>1. UNCHANGED <<readyState, frame>> /\ frame # "none"
    BY EndedBeforeLast DEF OnMessage
  <1>2. CASE subscribed
    <2>1. readyState = 1 /\ Head(posted) = Message(told.message + 1)
      BY <1>2, NextMessage
    <2>2. told' = [told EXCEPT !.message = told.message + 1]
      BY <1>2, <2>1 DEF OnMessage, Message
    <2>3. Life = "open" /\ Life' = Life
      BY <1>1, <2>1, LifeIs DEF Life
    <2> QED BY <2>2, <2>3 DEF Socket!Deliver
  <1>3. CASE ~subscribed
    BY <1>1, <1>3 DEF OnMessage, Life
  <1> QED BY <1>2, <1>3

LEMMA ErrorIsFault ==
    ASSUME SocketInv, OnError
    PROVE  Socket!Fault
  <1>1. UNCHANGED <<readyState, frame>> /\ frame # "none"
    BY EndedBeforeLast DEF OnError
  <1>2. Life # "none" /\ Life' = Life
    <2>1. readyState \in {0, 1, 2, 3}
      BY DEF SocketInv, MuxTypeOK
    <2>2. Life # "none"
      BY <1>1, <2>1, LifeIs
    <2> QED BY <1>1, <2>2 DEF Life
  <1> QED BY <1>2 DEF OnError, Socket!Fault

LEMMA CloseTaskIsEnd ==
    ASSUME SocketInv, OnClose
    PROVE  Socket!End \/ Socket!FailTwice \/ Socket!EndAgain
  <1>1. posted # <<>> /\ frame # "none" /\ UNCHANGED frame /\ readyState' = 3
    BY EndedBeforeLast DEF OnClose
  <1>2. Life' = "closed"
    BY <1>1, LifeAfter
  <1>3. told \in Tellings
    BY DEF SocketInv, MuxTypeOK
  <1>4. CASE pending
    <2>1. told.close = 0 /\ readyState = 0
      BY <1>4 DEF SocketInv, AdapterInv
    <2>2. told' = Failed([told EXCEPT !.close = @ + 1])
      BY <1>4 DEF OnClose
    <2>3. [told EXCEPT !.close = @ + 1] = [told EXCEPT !.close = 1]
      BY <1>3, <2>1 DEF Tellings
    <2>4. told' = Failed([told EXCEPT !.close = 1])
      BY <2>2, <2>3
    <2>5. told' = [told EXCEPT !.error = @ + 1, !.close = 2]
      <3> DEFINE once == [told EXCEPT !.close = 1]
      <3>1. /\ once \in Tellings /\ once.open = told.open /\ once.message = told.message
            /\ once.error = told.error /\ once.close = 1
        BY <1>3 DEF Tellings
      <3>2. told' = [once EXCEPT !.error = @ + 1, !.close = @ + 1]
        BY <2>4 DEF Failed
      <3>3. told' = [once EXCEPT !.error = told.error + 1, !.close = 2]
        BY <3>1, <3>2
      <3>4. [once EXCEPT !.error = told.error + 1, !.close = 2]
               = [told EXCEPT !.error = told.error + 1, !.close = 2]
        BY <1>3 DEF Tellings
      <3> QED BY <3>3, <3>4
    <2> QED BY <1>1, <1>2, <2>1, <2>5, LifeIs DEF Socket!FailTwice
  <1>5. CASE ~pending /\ ~Ended
    <2>1. told.close = 0 /\ readyState \in {1, 2}
      BY <1>1, <1>3, <1>5 DEF SocketInv, AdapterInv, Ended, Tellings
    <2>2. told' = [told EXCEPT !.close = 1]
      BY <1>3, <1>5, <2>1 DEF OnClose
    <2>3. Life \in {"open", "closing"}
      BY <1>1, <2>1, LifeIs
    <2> QED BY <1>2, <2>1, <2>2, <2>3 DEF Socket!End
  <1>6. CASE ~pending /\ Ended
    <2>1. readyState = 3 /\ told.open = 0 /\ told.close = 1
      BY <1>1, <1>6, EndedBeforeLast
    <2>2. told' = [told EXCEPT !.close = 2]
      BY <1>3, <1>6, <2>1 DEF OnClose
    <2> QED BY <1>1, <1>2, <2>1, <2>2, LifeIs DEF Socket!EndAgain
  <1> QED BY <1>4, <1>5, <1>6

LEMMA CloseIsLeaveOrFail ==
    ASSUME SocketInv, Close
    PROVE  Socket!Leave \/ Socket!Fail \/ Socket!LeaveAgain
  <1>1. frame # "none" /\ ~left /\ UNCHANGED frame
    BY DEF Close
  <1>2. told \in Tellings
    BY DEF SocketInv, MuxTypeOK
  <1>3. CASE pending
    <2>1. told.close = 0 /\ readyState = 0 /\ readyState' = 3 /\ told' = Failed(told)
      BY <1>3 DEF Close, SocketInv, AdapterInv
    <2>2. told' = [told EXCEPT !.error = @ + 1, !.close = 1]
      BY <1>2, <2>1 DEF Failed
    <2> QED BY <1>1, <2>1, <2>2, LifeIs, LifeAfter DEF Socket!Fail
  <1>4. CASE ~pending
    <2>1. UNCHANGED told /\ readyState' = 2
      BY <1>4 DEF Close
    <2>2. readyState \in {1, 3}
      BY <1>1, <1>4 DEF SocketInv, AdapterInv
    <2> QED BY <1>1, <2>1, <2>2, LifeIs, LifeAfter DEF Socket!Leave, Socket!LeaveAgain
  <1> QED BY <1>3, <1>4

LEMMA SocketStep == SocketInv /\ [Next]_vars => [Socket!SocketNext]_(Socket!socketVars)
  <1> SUFFICES ASSUME SocketInv, [Next]_vars
               PROVE  [Socket!SocketNext]_(Socket!socketVars)
    OBVIOUS
  <1>1. SUFFICES Socket!SocketNext \/ UNCHANGED <<Life, told>>
    BY DEF Socket!socketVars
  <1>2. ASSUME UNCHANGED <<readyState, told>>, (frame = "none") <=> (frame' = "none")
        PROVE  UNCHANGED <<Life, told>>
    BY <1>2 DEF Life
  <1>3. CASE UNCHANGED muxVars
    BY <1>2, <1>3 DEF muxVars
  <1>4. CASE FrameOpens \/ FrameSends \/ FrameErrs \/ FrameCloses
    <2>1. /\ UNCHANGED <<readyState, told>> /\ frame \in {"opening", "open"}
          /\ frame' \in {"opening", "open", "closed"}
      BY <1>4 DEF FrameOpens, FrameSends, FrameErrs, FrameCloses
    <2> QED BY <1>2, <2>1
  <1>5. CASE RemoveFrame
    <2>1. UNCHANGED <<readyState, told>> /\ (frame = "none" <=> frame' = "none")
      BY <1>5 DEF RemoveFrame, SocketLosesFrame
    <2> QED BY <1>2, <2>1
  <1>6. CASE New \/ OnAck \/ OnMessage \/ OnError \/ OnClose \/ Close
    BY <1>6, NewIsConnectOrFail, AckIsOpen, MessageIsDeliver, ErrorIsFault, CloseTaskIsEnd,
       CloseIsLeaveOrFail DEF Socket!SocketNext
  <1> QED BY <1>3, <1>4, <1>5, <1>6 DEF Next, MuxNext, vars

\* privasys-shell.js:333-336, for any number of messages and errors: whatever
\* order the iframe's tasks, its loss and dsh's own close() come in, readyState
\* and the events dsh gets are a run of DshSocket: one opening, the messages once
\* and in their order while it is open, one close of a socket that opened, and at
\* most two of one that did not.
THEOREM AdapterIsASocket == Spec => ImplementsSocket
  <1>1. Init => SocketInv
    BY SocketInitInv DEF Init
  <1>2. Init => Socket!SocketInit
    <2> SUFFICES ASSUME Init PROVE Socket!SocketInit
      OBVIOUS
    <2>1. frame = "none" /\ told = Nothing
      BY DEF Init, MuxInit
    <2> QED BY <2>1, LifeIs DEF Socket!SocketInit, Nothing
  <1> QED BY <1>1, <1>2, SocketInvKept, SocketStep, PTL DEF Spec, ImplementsSocket
=============================================================================
