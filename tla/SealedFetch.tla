---------------------------- MODULE SealedFetch ----------------------------
(***************************************************************************)
(* privasys-shell.js, sealedFetch: dsh's unary RPC through the sealed      *)
(* session.  enqueue chains the requests on one promise, so that one       *)
(* starts when the one before it has settled, well or badly.  The vendored *)
(* SDK posts a request to its iframe, whose page seals it under the next   *)
(* value of the client-to-server counter, and the relay refuses a frame    *)
(* whose counter is not above the last one it accepted.  That page, the    *)
(* network and the relay are external: a request can fail before or after  *)
(* the relay has seen it, and what a failed request left on the wire may   *)
(* still arrive later.                                                     *)
(*                                                                         *)
(* An abort signal is passed to session.request, which does not look at    *)
(* it: it changes nothing here and has no action.                          *)
(***************************************************************************)
EXTENDS Naturals, Sequences, SequencesExt, SealedFrame

CONSTANT Calls      \* calls of __DSH_TRANSPORT__.fetch, each made at most once

VARIABLES
    chain,      \* the tasks that have not settled, in the order of the chain
    state,      \* of each call: "new", "queued", "sent", "answered" or "failed"
    counter,    \* the counter of the last frame the session sealed
    wire,       \* frames under way to the relay: <<call, counter>>
    lastSeen,   \* the relay: the counter of the last frame it accepted
    replies     \* what the relay made of the frames that arrived

fetchVars == <<chain, state, counter, wire, lastSeen, replies>>

Verdicts == {"accepted", "replay"}

FetchTypeOK ==
    /\ chain \in Seq(Calls)
    /\ state \in [Calls -> {"new", "queued", "sent", "answered", "failed"}]
    /\ counter \in Nat /\ lastSeen \in Nat
    /\ wire \subseteq Calls \X Nat
    /\ replies \subseteq Calls \X Verdicts

FetchInit ==
    /\ chain = <<>>
    /\ state = [c \in Calls |-> "new"]
    /\ counter = 0
    /\ wire = {}
    /\ lastSeen = 0
    /\ replies = {}

\* The call under way, the first of the chain.
Active == {c \in Calls : state[c] = "sent"}

-----------------------------------------------------------------------------
\* sealedFetch up to its await: chain.then(task, task), and the new chain.
Enqueue(c) ==
    /\ state[c] = "new"
    /\ chain' = Append(chain, c)
    /\ state' = [state EXCEPT ![c] = "queued"]
    /\ UNCHANGED <<counter, wire, lastSeen, replies>>

\* Mutant: a request does not wait for the one before it.
StartUnchained(c) ==
    /\ state[c] = "queued"
    /\ ~gone
    /\ state' = [state EXCEPT ![c] = "sent"]
    /\ counter' = counter + 1
    /\ wire' = wire \cup {<<c, counter'>>}
    /\ UNCHANGED <<chain, lastSeen, replies>>

\* Its predecessor has settled: session.request seals and posts the frame, or
\* rejects at once when the iframe is gone.
Start(c) ==
    /\ state[c] = "queued"
    /\ Head(chain) = c
    /\ IF gone
       THEN /\ state' = [state EXCEPT ![c] = "failed"]
            /\ chain' = Tail(chain)
            /\ UNCHANGED <<counter, wire>>
       ELSE /\ state' = [state EXCEPT ![c] = "sent"]
            /\ counter' = counter + 1
            /\ wire' = wire \cup {<<c, counter'>>}
            /\ UNCHANGED chain
    /\ UNCHANGED <<lastSeen, replies>>

\* A frame reaches the relay, in its turn or out of it.
Arrive(f) ==
    /\ f \in wire
    /\ wire' = wire \ {f}
    /\ lastSeen' = IF f[2] > lastSeen THEN f[2] ELSE lastSeen
    /\ replies' = replies \cup
           {<<f[1], IF f[2] > lastSeen THEN "accepted" ELSE "replay">>}
    /\ UNCHANGED <<chain, state, counter>>

\* A frame is lost on its way.
Drop(f) ==
    /\ f \in wire
    /\ wire' = wire \ {f}
    /\ UNCHANGED <<chain, state, counter, lastSeen, replies>>

\* session.request resolves with whatever status the relay gave; the task
\* behind it may now run.
Answer(c) ==
    /\ state[c] = "sent"
    /\ \E v \in Verdicts : <<c, v>> \in replies
    /\ state' = [state EXCEPT ![c] = "answered"]
    /\ chain' = Tail(chain)
    /\ UNCHANGED <<counter, wire, lastSeen, replies>>

\* Mutant: chain.then(task), without a handler for a rejection, and a chain
\* that is the rejected promise itself: what is queued fails with it.
FailAll(c) ==
    /\ state[c] = "sent"
    /\ state' = [d \in Calls |->
          IF d = c \/ state[d] = "queued" THEN "failed" ELSE state[d]]
    /\ chain' = <<>>
    /\ UNCHANGED <<counter, wire, lastSeen, replies>>

\* Mutant: a failure does not let the next task run.
FailStopsChain(c) ==
    /\ state[c] = "sent"
    /\ state' = [state EXCEPT ![c] = "failed"]
    /\ UNCHANGED <<chain, counter, wire, lastSeen, replies>>

\* session.request rejects: the network gave up, or the iframe said so.  noop
\* keeps the chain alive.
Fail(c) ==
    /\ state[c] = "sent"
    /\ state' = [state EXCEPT ![c] = "failed"]
    /\ chain' = Tail(chain)
    /\ UNCHANGED <<counter, wire, lastSeen, replies>>

\* The session's iframe is destroyed: the SDK rejects what is in flight.
FetchLosesFrame ==
    /\ state' = [c \in Calls |-> IF state[c] = "sent" THEN "failed" ELSE state[c]]
    /\ chain' = IF Active = {} THEN chain ELSE Tail(chain)
    /\ UNCHANGED <<counter, wire, lastSeen, replies>>

FetchNext ==
    \/ \E c \in Calls : Enqueue(c) \/ Start(c) \/ Answer(c) \/ Fail(c)
    \/ \E f \in wire : Arrive(f) \/ Drop(f)

-----------------------------------------------------------------------------
Settled == {"answered", "failed"}

\* privasys-shell.js:266-268 and 277-278: no call that still waits for its
\* answer is refused as a replay, although frames of calls that failed may
\* arrive late, after those of the calls behind them.
NoReplayRefusal ==
    \A c \in Calls : state[c] \in {"sent", "answered"} => <<c, "replay">> \notin replies

Ordered ==
    INSTANCE OrderedCalls WITH
        waiting <- IF Active = {} THEN chain ELSE Tail(chain),
        active <- Active,
        outcome <- [c \in Calls |-> IF state[c] \in Settled THEN state[c] ELSE "none"],
        lost <- gone

\* The promise chain is a queue of calls with one under way: they are carried
\* out in the order they were made, none overtakes or overlaps another, and a
\* failure is nobody's but the call's own.
ImplementsOrderedCalls ==
    Ordered!CallsInit /\ [][Ordered!CallsNext]_(Ordered!callVars)

\* noop: whatever became of the calls before it, a call is settled at last,
\* provided that every request that is sent is.
EveryCallSettles ==
    (\A c \in Calls : state[c] = "sent" ~> state[c] # "sent")
        => \A c \in Calls : state[c] = "queued" ~> state[c] \in Settled

\* A page whose iframe went away does not hang: calls that are under way, that
\* wait and that are still to come all fail.
LossIsHeard == \A c \in Calls : gone /\ state[c] # "new" ~> state[c] \in Settled
=============================================================================
