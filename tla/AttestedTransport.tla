------------------------- MODULE AttestedTransport -------------------------
(***************************************************************************)
(* transport.go over depset.go: requests, the RA-TLS dials they start and  *)
(* the pool of verified connections, while the refresher replaces the set  *)
(* those connections were verified against.                                *)
(*                                                                         *)
(* A connection is dialled by dialVerified (Connect and VerifyCertificate, *)
(* then VerifyPeer's two separate reads of the set, then the digest pin),  *)
(* and from there belongs to net/http: it carries the request that asked   *)
(* for it, waits idle for the next one, or is handed to a request whose    *)
(* own dial is still running.  The rules of net/http's Transport that      *)
(* matter here are external to the repository:                             *)
(*   - a dial outlives the request that started it (dialVerified ignores   *)
(*     its context) and its connection then joins the pool;                *)
(*   - a connection that becomes free goes to a request waiting for its    *)
(*     host; else it is closed when the pool was told to close its idle    *)
(*     connections and nobody has asked for one since; else it stays idle, *)
(*     at most MaxIdlePerHost of them per host;                            *)
(*   - an idle connection may be closed at any time (90 s, the total cap   *)
(*     of 16, the peer).                                                   *)
(* A retry by net/http is a BreakConn followed by another Issue.           *)
(***************************************************************************)
EXTENDS DependencySet, FiniteSets, Naturals

CONSTANTS
    Conns,          \* slots for connections, dialling ones included
    Reqs,           \* slots for requests of the proxy's handlers
    MaxIdlePerHost, \* MaxIdleConnsPerHost
    NoHost, NoBuild, NoReq

ASSUME PoolAssumption ==
    /\ MaxIdlePerHost \in Nat
    /\ NoHost \notin Hosts
    /\ NoBuild \notin Builds
    /\ NoReq \notin Reqs

VARIABLES
    status,     \* of each connection, see the sets of statuses below
    peerHost,   \* the host it was dialled for
    peerBuild,  \* the build that answered, once its quote was verified
    owner,      \* the request that waits for this dial or is carried by it
    want,       \* the host each request is for, NoHost when there is none
    closeIdle,  \* the pool's flag: close connections that become idle
    ordered,    \* whether the refresher is sure to see OnChange and t.pool
    excuse      \* history: the set changes a connection outlived, and how

poolVars == <<status, peerHost, peerBuild, owner, want, closeIdle>>
connVars == <<status, peerHost, peerBuild, owner>>
vars == <<depVars, poolVars, ordered, excuse>>

Dialling == {"connecting", "attested", "enabled", "admitted"}
Pooled == {"busy", "idle"}
\* Past the gate: no check of the dependency set is left before data flows.
Gated == {"admitted"} \cup Pooled

TypeOK ==
    /\ DepTypeOK
    /\ status \in [Conns -> {"free"} \cup Dialling \cup Pooled]
    /\ peerHost \in [Conns -> Hosts \cup {NoHost}]
    /\ peerBuild \in [Conns -> Builds \cup {NoBuild}]
    /\ owner \in [Conns -> Reqs \cup {NoReq}]
    /\ want \in [Reqs -> Hosts \cup {NoHost}]
    /\ closeIdle \in BOOLEAN
    /\ ordered \in {"no", "dialled", "yes"}
    /\ excuse \in [Conns -> SUBSET {"in_use", "first_load"}]

Init ==
    /\ DepInit
    /\ status = [c \in Conns |-> "free"]
    /\ peerHost = [c \in Conns |-> NoHost]
    /\ peerBuild = [c \in Conns |-> NoBuild]
    /\ owner = [c \in Conns |-> NoReq]
    /\ want = [r \in Reqs |-> NoHost]
    /\ closeIdle = FALSE
    /\ ordered = "no"
    /\ excuse = [c \in Conns |-> {}]

\* The connections of a request: its dial while it waits, its carrier after.
Waiting(r) == \E c \in Conns : owner[c] = r /\ status[c] \in Dialling

\* The connections of C leave the pool or abandon their dial.
FreeAll(C) ==
    /\ status' = [c \in Conns |-> IF c \in C THEN "free" ELSE status[c]]
    /\ peerHost' = [c \in Conns |-> IF c \in C THEN NoHost ELSE peerHost[c]]
    /\ peerBuild' = [c \in Conns |-> IF c \in C THEN NoBuild ELSE peerBuild[c]]
    /\ owner' = [c \in Conns |-> IF c \in C THEN NoReq ELSE owner[c]]
    /\ excuse' = [c \in Conns |-> IF c \in C THEN {} ELSE excuse[c]]

\* A request ends (with its response or with an error) when R holds it.
EndRequests(R) == want' = [r \in Reqs |-> IF r \in R THEN NoHost ELSE want[r]]

-----------------------------------------------------------------------------
(* RoundTrip and the pool's getConn. *)

\* Asking for a connection clears closeIdle, whether one is idle or not.
TakeIdle(r, h) ==
    \E c \in Conns :
        /\ status[c] = "idle" /\ peerHost[c] = h
        /\ status' = [status EXCEPT ![c] = "busy"]
        /\ owner' = [owner EXCEPT ![c] = r]
        /\ UNCHANGED <<peerHost, peerBuild>>

StartDial(r, h) ==
    /\ \A c \in Conns : ~(status[c] = "idle" /\ peerHost[c] = h)
    /\ \E c \in Conns :
        /\ status[c] = "free"
        /\ status' = [status EXCEPT ![c] = "connecting"]
        /\ peerHost' = [peerHost EXCEPT ![c] = h]
        /\ owner' = [owner EXCEPT ![c] = r]
        /\ UNCHANGED peerBuild

\* A handler sends a request: the mux listens from WireAndServe on.
Issue(r, h) ==
    /\ main = "serve"
    /\ want[r] = NoHost
    /\ TakeIdle(r, h) \/ StartDial(r, h)
    /\ want' = [want EXCEPT ![r] = h]
    /\ closeIdle' = FALSE
    /\ UNCHANGED <<depVars, ordered, excuse>>

-----------------------------------------------------------------------------
(* dialVerified. *)

\* Mutant: the request that waits for the dial is not told.
RefuseSilently(c) ==
    /\ FreeAll({c})
    /\ UNCHANGED <<depVars, want, closeIdle>>

\* Closing the connection of a dial and returning the error to its request.
Refuse(c) ==
    /\ FreeAll({c})
    /\ EndRequests({owner[c]})
    /\ UNCHANGED <<depVars, closeIdle>>

\* Mutant: the verdict of VerifyCertificate is not looked at.
QuoteIgnored(c) ==
    /\ status[c] = "connecting"
    /\ \E b \in Builds : peerBuild' = [peerBuild EXCEPT ![c] = b]
    /\ status' = [status EXCEPT ![c] = "attested"]
    /\ UNCHANGED <<depVars, peerHost, owner, want, closeIdle, ordered, excuse>>

\* rc.Connect and VerifyCertificate; whichever build answers at the host now.
VerifyQuote(c) ==
    /\ status[c] = "connecting"
    /\ \E b \in Genuine : peerBuild' = [peerBuild EXCEPT ![c] = b]
    /\ status' = [status EXCEPT ![c] = "attested"]
    /\ UNCHANGED <<depVars, peerHost, owner, want, closeIdle, ordered, excuse>>

\* No connection, a timeout, or a quote that does not verify.
ConnectFails(c) ==
    /\ status[c] = "connecting"
    /\ Refuse(c)
    /\ UNCHANGED ordered

\* VerifyPeer's first read.  Taking d.mu orders the writes of OnChange and of
\* t.pool before every later critical section of the refresher.
ReadEnabled(c) ==
    /\ status[c] = "attested"
    /\ status' = [status EXCEPT ![c] = IF Enabled THEN "enabled" ELSE "admitted"]
    /\ ordered' = IF ordered = "no" THEN "dialled" ELSE ordered
    /\ UNCHANGED <<depVars, peerHost, peerBuild, owner, want, closeIdle, excuse>>

\* Mutant: a grant is enough, even for a peer the set declares otherwise.
GrantFirst(c) ==
    /\ status[c] = "enabled"
    /\ GrantPinned(peerHost[c]) \/ MatchesEntry(depset, peerHost[c], peerBuild[c])
    /\ status' = [status EXCEPT ![c] = "admitted"]
    /\ UNCHANGED <<depVars, peerHost, peerBuild, owner, want, closeIdle, ordered, excuse>>

\* VerifyPeer's second read: a copy of the set, which may be another one now.
ReadSetAdmit(c) ==
    /\ status[c] = "enabled"
    /\ MatchesEntry(depset, peerHost[c], peerBuild[c])
    /\ status' = [status EXCEPT ![c] = "admitted"]
    /\ UNCHANGED <<depVars, peerHost, peerBuild, owner, want, closeIdle, ordered, excuse>>

\* Mutant: only a declared app's mismatch is an error; others are left open.
RefuseDeclaredOnly(c) ==
    /\ status[c] = "enabled"
    /\ AppOf[peerBuild[c]] \in DOMAIN depset
    /\ ~MatchesEntry(depset, peerHost[c], peerBuild[c])
    /\ Refuse(c)
    /\ UNCHANGED ordered

ReadSetRefuse(c) ==
    /\ status[c] = "enabled"
    /\ ~MatchesEntry(depset, peerHost[c], peerBuild[c])
    /\ Refuse(c)
    /\ UNCHANGED ordered

DigestMismatch(c) ==
    /\ status[c] = "admitted"
    /\ ~DigestOk(peerHost[c], peerBuild[c])
    /\ Refuse(c)
    /\ UNCHANGED ordered

-----------------------------------------------------------------------------
(* The pool (net/http's tryPutIdleConn, queueForIdleConn, wantConn). *)

Waiters(h) == {r \in Reqs : want[r] = h /\ Waiting(r)}
IdleAt(h) == {c \in Conns : status[c] = "idle" /\ peerHost[c] = h}

\* A free connection goes to a waiting request, whose own dial goes on
\* without an owner.
HandOff(c) ==
    \E r \in Waiters(peerHost[c]) :
        /\ status' = [status EXCEPT ![c] = "busy"]
        /\ owner' = [d \in Conns |-> IF d = c THEN r
                                     ELSE IF owner[d] = r THEN NoReq
                                     ELSE owner[d]]
        /\ UNCHANGED <<peerHost, peerBuild, excuse>>

GoIdle(c) ==
    /\ Waiters(peerHost[c]) = {}
    /\ ~closeIdle
    /\ Cardinality(IdleAt(peerHost[c])) < MaxIdlePerHost
    /\ status' = [status EXCEPT ![c] = "idle"]
    /\ owner' = [owner EXCEPT ![c] = NoReq]
    /\ UNCHANGED <<peerHost, peerBuild, excuse>>

CloseInstead(c) ==
    /\ Waiters(peerHost[c]) = {}
    /\ closeIdle \/ Cardinality(IdleAt(peerHost[c])) >= MaxIdlePerHost
    /\ FreeAll({c})

PutIdle(c) == HandOff(c) \/ GoIdle(c) \/ CloseInstead(c)

\* dialVerified returns the connection to the request that is still waiting.
Deliver(c) ==
    /\ status[c] = "admitted"
    /\ DigestOk(peerHost[c], peerBuild[c])
    /\ owner[c] # NoReq
    /\ status' = [status EXCEPT ![c] = "busy"]
    /\ UNCHANGED <<depVars, peerHost, peerBuild, owner, want, closeIdle, ordered, excuse>>

\* ... or to the pool, when that request was served or cancelled meanwhile.
DeliverOrphan(c) ==
    /\ status[c] = "admitted"
    /\ DigestOk(peerHost[c], peerBuild[c])
    /\ owner[c] = NoReq
    /\ PutIdle(c)
    /\ UNCHANGED <<depVars, want, closeIdle, ordered>>

\* The response was read to its end: the connection is free again.
Finish(c) ==
    /\ status[c] = "busy"
    /\ EndRequests({owner[c]})
    /\ PutIdle(c)
    /\ UNCHANGED <<depVars, closeIdle, ordered>>

\* The request is cancelled, times out or fails while it is carried, or its
\* peer does not keep the connection alive.
BreakConn(c) ==
    /\ status[c] = "busy"
    /\ FreeAll({c})
    /\ EndRequests({owner[c]})
    /\ UNCHANGED <<depVars, closeIdle, ordered>>

\* Mutant: the dial still belongs to the request that gave up.
CancelKeepsDial(r) ==
    /\ want[r] # NoHost
    /\ Waiting(r)
    /\ EndRequests({r})
    /\ UNCHANGED <<depVars, connVars, closeIdle, ordered, excuse>>

\* The request is cancelled (client gone, 5 minutes) while it waits.
CancelWait(r) ==
    /\ want[r] # NoHost
    /\ Waiting(r)
    /\ EndRequests({r})
    /\ owner' = [c \in Conns |-> IF owner[c] = r THEN NoReq ELSE owner[c]]
    /\ UNCHANGED <<depVars, status, peerHost, peerBuild, closeIdle, ordered, excuse>>

IdleCloses(c) ==
    /\ status[c] = "idle"
    /\ FreeAll({c})
    /\ UNCHANGED <<depVars, want, closeIdle, ordered>>

-----------------------------------------------------------------------------
(* The refresher, with what it does to the pool. *)

\* Install takes d.mu.  A connection that is past the gate at the first load
\* is remembered: no OnChange follows that load.
InstallSet ==
    /\ Install
    /\ ordered' = IF ordered = "dialled" THEN "yes" ELSE ordered
    /\ excuse' = [c \in Conns |->
                    IF ~loaded /\ status[c] \in Gated
                    THEN excuse[c] \cup {"first_load"} ELSE excuse[c]]
    /\ UNCHANGED poolVars

\* OnChange is CloseIdleConnections.  A connection past the gate that is not
\* idle now is remembered.
EvictIdle ==
    /\ Notify
    /\ main = "serve"
    /\ LET Idle == {c \in Conns : status[c] = "idle"} IN
        /\ status' = [c \in Conns |-> IF c \in Idle THEN "free" ELSE status[c]]
        /\ peerHost' = [c \in Conns |-> IF c \in Idle THEN NoHost ELSE peerHost[c]]
        /\ peerBuild' = [c \in Conns |-> IF c \in Idle THEN NoBuild ELSE peerBuild[c]]
        /\ excuse' = [c \in Conns |->
                        IF c \in Idle THEN {}
                        ELSE IF status[c] \in {"admitted", "busy"}
                             THEN excuse[c] \cup {"in_use"} ELSE excuse[c]]
    /\ closeIdle' = TRUE
    /\ UNCHANGED <<owner, want, ordered>>

\* OnChange or t.pool is still nil, or the refresher, which shares no lock with
\* their writers, still sees it nil.
MissHook ==
    /\ Notify
    /\ ordered # "yes"
    /\ UNCHANGED <<poolVars, ordered, excuse>>

\* A step of depset.go and main.go that leaves the transport alone.
Apart(A) == A /\ UNCHANGED <<poolVars, ordered, excuse>>

DepStep ==
    \/ \E s \in Sets : Apart(SignOff(s))
    \/ Apart(Tick) \/ Apart(RefreshKeepsSet) \/ Apart(FetchAnswer)
    \/ Apart(StartReturns) \/ Apart(WireAndServe)

DialStep(c) ==
    \/ VerifyQuote(c) \/ ConnectFails(c)
    \/ ReadEnabled(c)
    \/ ReadSetAdmit(c) \/ ReadSetRefuse(c)
    \/ DigestMismatch(c)
    \/ Deliver(c) \/ DeliverOrphan(c)

Next ==
    \/ DepStep
    \/ InstallSet \/ EvictIdle \/ MissHook
    \/ \E r \in Reqs : CancelWait(r) \/ \E h \in Hosts : Issue(r, h)
    \/ \E c \in Conns : DialStep(c) \/ Finish(c) \/ BreakConn(c) \/ IdleCloses(c)

\* Every dial is bounded by its timeouts; the refresher runs; responses end.
Fairness ==
    /\ \A c \in Conns : WF_vars(DialStep(c)) /\ WF_vars(Finish(c))
    /\ WF_vars(InstallSet) /\ WF_vars(EvictIdle \/ MissHook)
    /\ WF_vars(Apart(Tick)) /\ WF_vars(Apart(RefreshKeepsSet \/ FetchAnswer))
    /\ SF_vars(Apart(FetchAnswer))
    /\ WF_vars(Apart(StartReturns)) /\ WF_vars(Apart(WireAndServe))

Spec == Init /\ [][Next]_vars
FairSpec == Spec /\ Fairness

-----------------------------------------------------------------------------
(* What the transport promises. *)

\* A request is carried only by a connection that was dialled for its host,
\* whose peer's quote verified and whose digest pin held: the checks of
\* dialVerified survive pooling, hand-offs and orphaned dials.
CarriedByVettedPeer ==
    \A c \in Conns : status[c] = "busy" =>
        /\ owner[c] \in Reqs
        /\ want[owner[c]] = peerHost[c]
        /\ peerBuild[c] \in Genuine
        /\ DigestOk(peerHost[c], peerBuild[c])

\* A request in progress has exactly one connection, its dial or its carrier:
\* it is never lost between the two, nor sent to two peers.
OneConnPerRequest ==
    \A r \in Reqs :
        /\ want[r] # NoHost => \E c \in Conns : owner[c] = r
        /\ \A c, d \in Conns : owner[c] = r /\ owner[d] = r => c = d

\* Outside the moment between the install of a set and its OnChange, every
\* connection past the gate conforms to the set in force, unless it was in use
\* when the set changed or dates from before the first load.
PoolConformsUnlessExcused ==
    \A c \in Conns : status[c] \in Gated =>
        \/ phase = "notify"
        \/ excuse[c] # {}
        \/ Admits(depset, peerHost[c], peerBuild[c])

\* The invariant the proofs rest on: every step of every action keeps it.
\* Shape: what the fields of a connection say of its status.
ConnShape ==
    \A c \in Conns :
        /\ status[c] = "free" <=> peerHost[c] = NoHost
        /\ status[c] \in {"free", "idle"} => owner[c] = NoReq
        /\ status[c] = "busy" => owner[c] # NoReq
        /\ status[c] \in {"attested", "enabled"} \cup Gated => peerBuild[c] \in Genuine
        /\ status[c] \in Pooled => DigestOk(peerHost[c], peerBuild[c])

\* Owners: a connection is owned by a request for its own host, each request
\* in progress owning exactly one.
Ownership ==
    /\ \A c \in Conns : owner[c] # NoReq => want[owner[c]] = peerHost[c]
    /\ \A c, d \in Conns : owner[c] # NoReq /\ owner[c] = owner[d] => c = d
    /\ \A r \in Reqs : want[r] # NoHost => \E c \in Conns : owner[c] = r

\* Order: no dial has passed VerifyPeer's first read while ordered is "no", so
\* when the refresher may miss its hook there is nothing for it to evict.
HookOrder ==
    /\ loaded \/ depset = NoDeps
    /\ ordered = "no" => \A c \in Conns : status[c] \notin {"enabled"} \cup Gated
    /\ phase = "notify" /\ ordered # "yes" =>
        \A c \in Conns : status[c] \in Gated =>
            excuse[c] # {} \/ Admits(depset, peerHost[c], peerBuild[c])

IInv == TypeOK /\ ConnShape /\ Ownership /\ HookOrder /\ PoolConformsUnlessExcused

\* A waiting request is served or fails, whatever becomes of its own dial, of
\* the connections of others and of the set; its cancellation is not needed.
WaitersAnswered == \A r \in Reqs : Waiting(r) ~> ~Waiting(r)

\* The two reads of VerifyPeer, the pool's hand-offs and the goroutine that
\* replaces the set meanwhile look to a caller like the contract: every channel
\* vetted in one step under one set, the admitting step being the first read
\* when it finds no set in force and the second read otherwise.
ChannelStage == [c \in Conns |-> IF status[c] \in Pooled THEN "open"
                                 ELSE IF status[c] = "admitted" THEN "vetted"
                                 ELSE "closed"]
ChannelHost == [c \in Conns |-> IF status[c] \in Gated THEN peerHost[c] ELSE NoHost]
ChannelPeer == [c \in Conns |-> IF status[c] \in Gated THEN peerBuild[c] ELSE NoBuild]
ChannelLoad == [c \in Conns |-> IF status[c] = "busy" THEN owner[c] ELSE NoReq]

Channel == INSTANCE VettedChannels WITH
    Channels <- Conns, Requests <- Reqs, NoRequest <- NoReq,
    policy <- depset, stage <- ChannelStage, host <- ChannelHost,
    peer <- ChannelPeer, carries <- ChannelLoad, target <- want

ImplementsContract == Channel!Contract

(* What the comments promise and the code does not keep (see the README). *)

\* transport.go:41-43, "so a revoked build cannot keep serving over a stale
\* verified channel": when the manager's set settles, requests are at last
\* carried only by peers it admits, the first load left aside.
RevokedStopsServing ==
    \A s \in Sets : <>[](declared = s) =>
        <>[](\A c \in Conns : status[c] = "busy" =>
                \/ "first_load" \in excuse[c]
                \/ Admits(s, peerHost[c], peerBuild[c]))
=============================================================================
