----------------------------- MODULE MuxSocket -----------------------------
(***************************************************************************)
(* privasys-shell.js, SealedWebSocketAdapter: the WebSocket dsh's mux      *)
(* client sees, over one SealedWebSocket of the vendored SDK.  The page in *)
(* the SDK's iframe is external: it posts an acknowledgement, messages,    *)
(* errors and one close; the SDK turns each into its callbacks and into    *)
(* the settlement of the promise `ready`.                                  *)
(*                                                                         *)
(* A task of the browser runs to its end together with the reactions of    *)
(* the promises it settles, so each action is one task: the order inside   *)
(* it (callbacks first, reactions after) is the order of its events.       *)
(***************************************************************************)
EXTENDS Naturals, Sequences, SealedFrame

CONSTANTS MaxMessages, MaxErrors    \* bounds: what the iframe posts at most

ASSUME MuxAssumption == MaxMessages \in Nat /\ MaxErrors \in Nat

VARIABLES
    readyState, \* of the adapter: 0 CONNECTING, 1 OPEN, 2 CLOSING, 3 CLOSED
    pending,    \* `ready` has not settled
    subscribed, \* the adapter still listens to messages
    frame,      \* the iframe's side: "none" before dsh asks, "refused" when it was
                \* gone by then, "opening", "open", "closed", "gone" when it went
    posted,     \* tasks from the iframe that have not run, in their order
    sent,       \* how many messages and errors the iframe has posted
    told,       \* history: how many open, error and close events the adapter has
                \* dispatched, and the number of the last message it has
    left        \* history: dsh has called close()

muxVars == <<readyState, pending, subscribed, frame, posted, sent, told, left>>

Message(n) == [type |-> "message", n |-> n]
Event(t) == [type |-> t, n |-> 0]
Nothing == [open |-> 0, message |-> 0, error |-> 0, close |-> 0]

\* The rejection of `ready`, or of the constructor: an error event and a close.
Failed(t) == [t EXCEPT !.error = @ + 1, !.close = @ + 1]

Tellings == [open : Nat, message : Nat, error : Nat, close : Nat]
Tasks == [type : {"ack", "message", "error", "close"}, n : Nat]

MuxTypeOK ==
    /\ readyState \in 0..3
    /\ pending \in BOOLEAN /\ subscribed \in BOOLEAN /\ left \in BOOLEAN
    /\ frame \in {"none", "refused", "opening", "open", "closed", "gone"}
    /\ posted \in Seq(Tasks)
    /\ told \in Tellings
    /\ sent \in [{"message", "error"} -> Nat]

MuxInit ==
    /\ readyState = 0
    /\ pending = FALSE /\ subscribed = FALSE /\ left = FALSE
    /\ frame = "none" /\ posted = <<>> /\ told = Nothing
    /\ sent = [t \in {"message", "error"} |-> 0]

\* dsh calls `new WebSocket(mux)` (bounded: once): the constructor reaches the
\* SDK; or the iframe is gone, openWebSocket throws, and a microtask dispatches
\* the two events.
New ==
    /\ frame = "none"
    /\ frame' = IF gone THEN "refused" ELSE "opening"
    /\ readyState' = IF gone THEN 3 ELSE 0
    /\ pending' = ~gone /\ subscribed' = ~gone
    /\ told' = IF gone THEN Failed(told) ELSE told
    /\ UNCHANGED <<posted, sent, left>>

-----------------------------------------------------------------------------
(* The iframe. *)

Post(e) == posted' = Append(posted, e)

FrameOpens ==
    /\ frame = "opening"
    /\ frame' = "open"
    /\ Post(Event("ack"))
    /\ UNCHANGED <<readyState, pending, subscribed, sent, told, left>>

FrameSends ==
    /\ frame = "open"
    /\ sent["message"] < MaxMessages
    /\ sent' = [sent EXCEPT !["message"] = @ + 1]
    /\ Post(Message(sent'["message"]))
    /\ UNCHANGED <<readyState, pending, subscribed, frame, told, left>>

FrameErrs ==
    /\ frame \in {"opening", "open"}
    /\ sent["error"] < MaxErrors
    /\ sent' = [sent EXCEPT !["error"] = @ + 1]
    /\ Post(Event("error"))
    /\ UNCHANGED <<readyState, pending, subscribed, frame, told, left>>

\* The relay's socket ends, or never opened, or dsh's close() arrived.
FrameCloses ==
    /\ frame \in {"opening", "open"}
    /\ frame' = "closed"
    /\ Post(Event("close"))
    /\ UNCHANGED <<readyState, pending, subscribed, sent, told, left>>

-----------------------------------------------------------------------------
(* The adapter, one task of the browser at a time. *)

\* _onAck resolves `ready`; its reaction opens the adapter.
OnAck ==
    /\ posted # <<>> /\ Head(posted).type = "ack"
    /\ posted' = Tail(posted)
    /\ IF pending
       THEN /\ readyState' = 1
            /\ told' = [told EXCEPT !.open = @ + 1]
       ELSE UNCHANGED <<readyState, told>>
    /\ pending' = FALSE
    /\ UNCHANGED <<subscribed, frame, sent, left>>

OnMessage ==
    /\ posted # <<>> /\ Head(posted).type = "message"
    /\ posted' = Tail(posted)
    /\ told' = IF subscribed THEN [told EXCEPT !.message = Head(posted).n] ELSE told
    /\ UNCHANGED <<readyState, pending, subscribed, frame, sent, left>>

\* The callback is never taken back, so an error may come after dsh's close().
OnError ==
    /\ posted # <<>> /\ Head(posted).type = "error"
    /\ posted' = Tail(posted)
    /\ told' = [told EXCEPT !.error = @ + 1]
    /\ UNCHANGED <<readyState, pending, subscribed, frame, sent, left>>

\* Mutant: leaving also takes the close callback away.
OnCloseSubscribed ==
    /\ posted # <<>> /\ Head(posted).type = "close"
    /\ posted' = Tail(posted)
    /\ readyState' = 3
    /\ told' = IF subscribed THEN [told EXCEPT !.close = @ + 1] ELSE told
    /\ pending' = FALSE
    /\ UNCHANGED <<subscribed, frame, sent, left>>

\* _onClose rejects a pending `ready` and runs the close callbacks; the
\* reaction to the rejection comes after them.
OnClose ==
    /\ posted # <<>> /\ Head(posted).type = "close"
    /\ posted' = Tail(posted)
    /\ readyState' = 3
    /\ LET closed == [told EXCEPT !.close = @ + 1]
       IN  told' = IF pending THEN Failed(closed) ELSE closed
    /\ pending' = FALSE
    /\ UNCHANGED <<subscribed, frame, sent, left>>

\* Mutant: close() does not take the subscription back.
CloseKeepsListening ==
    /\ frame # "none" /\ ~left
    /\ left' = TRUE
    /\ readyState' = IF pending THEN 3 ELSE 2
    /\ told' = IF pending THEN Failed(told) ELSE told
    /\ pending' = FALSE
    /\ UNCHANGED <<subscribed, frame, posted, sent>>

\* dsh calls close().  The SDK's close rejects a pending `ready`; errors of a
\* socket that was never made are swallowed.  bounded: dsh calls it once.
Close ==
    /\ frame # "none" /\ ~left
    /\ left' = TRUE
    /\ subscribed' = FALSE
    /\ readyState' = IF pending THEN 3 ELSE 2
    /\ told' = IF pending THEN Failed(told) ELSE told
    /\ pending' = FALSE
    /\ UNCHANGED <<frame, posted, sent>>

\* With the iframe go what it has posted (the SDK removes its handler) and
\* every close to come: AuthFrame.destroy settles no sealed socket.
SocketLosesFrame ==
    /\ frame' = IF frame \in {"opening", "open", "closed"} THEN "gone" ELSE frame
    /\ posted' = <<>>
    /\ UNCHANGED <<readyState, pending, subscribed, sent, told, left>>

MuxNext ==
    \/ New \/ FrameOpens \/ FrameSends \/ FrameErrs \/ FrameCloses
    \/ OnAck \/ OnMessage \/ OnError \/ OnClose \/ Close

-----------------------------------------------------------------------------
Ended == told.close > 0

Life ==
    IF frame = "none" THEN "none"
    ELSE <<"connecting", "open", "closing", "closed">>[readyState + 1]

Socket == INSTANCE DshSocket WITH life <- Life

\* privasys-shell.js:333-336, the surface that dsh's mux client uses: however the
\* iframe, its loss and dsh's close() interleave, what dsh is told and can read of
\* readyState is a run of DshSocket.  Each message is heard once and in the order
\* the iframe posted them, none before the opening, after an end or after dsh has
\* left; the opening comes once and never after an end; and a socket that opened
\* ends once.
ImplementsSocket == Socket!SocketInit /\ [][Socket!SocketNext]_(Socket!socketVars)

\* Whichever side ends the socket, dsh is told, and can reconnect: a socket that
\* is closed, failed, refused or left comes to a close event.  Only one whose
\* iframe went away under it does not: nothing tells dsh of that.
CloseIsTold ==
    frame \in {"closed", "refused"} \/ left ~> Ended \/ frame = "gone"
=============================================================================
