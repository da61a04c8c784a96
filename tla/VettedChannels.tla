--------------------------- MODULE VettedChannels ---------------------------
(***************************************************************************)
(* What the attested transport promises its callers, with no pool, locks   *)
(* or goroutines: a channel is opened only after its peer was vetted, at   *)
(* one instant, under the set in force at that instant; while it stays     *)
(* open it keeps its host and its peer; and a request travels only over an *)
(* open channel of its own host, one request per channel.                  *)
(*                                                                         *)
(* It states the contract the comments of transport.go:33-37 give for one  *)
(* connection ("verify-once-per-channel").  It says nothing of WHEN a      *)
(* channel is closed: that promise is stated, and refuted, apart.          *)
(***************************************************************************)
EXTENDS DependencyPolicy

CONSTANTS Channels, Requests, NoHost, NoBuild, NoRequest

VARIABLES
    policy,     \* the set in force
    stage,      \* of each channel: "closed", "vetted" or "open"
    host,       \* the host of a channel that is not closed
    peer,       \* the build at its other end
    carries,    \* the request a channel carries, NoRequest if none
    target      \* the host a request is for, NoHost when it is not in progress

contractVars == <<policy, stage, host, peer, carries, target>>

ContractInit ==
    /\ policy = NoDeps
    /\ stage = [c \in Channels |-> "closed"]
    /\ host = [c \in Channels |-> NoHost]
    /\ peer = [c \in Channels |-> NoBuild]
    /\ carries = [c \in Channels |-> NoRequest]
    /\ target = [r \in Requests |-> NoHost]

\* The peer passes the quote and the gate, under the set in force now.
Vet(c) ==
    /\ stage[c] = "closed" /\ stage'[c] = "vetted"
    /\ host'[c] \in Hosts
    /\ peer'[c] \in Genuine
    /\ Admits(policy, host'[c], peer'[c])

\* Only a peer that also has the digest pinned for its host is opened.
Open(c) ==
    /\ stage[c] = "vetted" /\ stage'[c] = "open"
    /\ host'[c] = host[c] /\ peer'[c] = peer[c]
    /\ DigestOk(host[c], peer[c])

Close(c) ==
    /\ stage[c] # "closed" /\ stage'[c] = "closed"
    /\ host'[c] = NoHost /\ peer'[c] = NoBuild

KeepChannel(c) ==
    stage'[c] = stage[c] /\ host'[c] = host[c] /\ peer'[c] = peer[c]

\* A request is put on one open channel of its host, and leaves it only by
\* ending: it never moves to another channel and is never on two.
StartRequest(c) ==
    /\ carries'[c] \in Requests
    /\ stage'[c] = "open"
    /\ target'[carries'[c]] = host'[c]
    /\ \A d \in Channels : carries[d] # carries'[c]
    /\ \A d \in Channels \ {c} : carries'[d] # carries'[c]

EndRequest(c) == carries'[c] = NoRequest

KeepRequest(c) ==
    /\ carries'[c] = carries[c]
    /\ carries[c] # NoRequest => /\ stage'[c] = "open"
                                 /\ target'[carries[c]] = target[carries[c]]

ContractNext ==
    /\ policy' \in Sets
    /\ \A c \in Channels : Vet(c) \/ Open(c) \/ Close(c) \/ KeepChannel(c)
    /\ \A c \in Channels : StartRequest(c) \/ EndRequest(c) \/ KeepRequest(c)

Contract == ContractInit /\ [][ContractNext]_contractVars
=============================================================================
