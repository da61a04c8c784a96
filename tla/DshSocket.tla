----------------------------- MODULE DshSocket -----------------------------
(***************************************************************************)
(* What dsh's mux client gets of the socket it makes: readyState and the   *)
(* events, without the iframe, its tasks and the SDK's promise.  It is the *)
(* life of a native WebSocket but for two liberties of the adapter         *)
(* (privasys-shell.js:337-382): a socket that never opened may be told of  *)
(* its end twice, and close() of a closed socket sets readyState back to   *)
(* CLOSING, where it stays.                                                *)
(***************************************************************************)
EXTENDS Naturals

VARIABLES
    life,       \* readyState: "connecting", "open", "closing" or "closed"; or "none"
    told        \* how many open, error and close events dsh has been told, and
                \* the number of the last message

socketVars == <<life, told>>

SocketInit == life = "none" /\ told = [open |-> 0, message |-> 0, error |-> 0, close |-> 0]

Connect == life = "none" /\ life' = "connecting" /\ UNCHANGED told

Open ==
    /\ life = "connecting"
    /\ life' = "open" /\ told' = [told EXCEPT !.open = @ + 1]

\* The messages are heard in their order, while the socket is open.
Deliver ==
    /\ life = "open"
    /\ told' = [told EXCEPT !.message = @ + 1]
    /\ UNCHANGED life

Fault ==
    /\ life # "none"
    /\ told' = [told EXCEPT !.error = @ + 1]
    /\ UNCHANGED life

\* dsh calls close() on a socket that is open.
Leave == life = "open" /\ life' = "closing" /\ UNCHANGED told

\* A socket that was open has ended, by either side.
End ==
    /\ life \in {"open", "closing"} /\ told.close = 0
    /\ life' = "closed" /\ told' = [told EXCEPT !.close = 1]

\* A socket that was refused, or that dsh leaves before it opened.
Fail ==
    /\ life \in {"none", "connecting"}
    /\ life' = "closed" /\ told' = [told EXCEPT !.error = @ + 1, !.close = 1]

\* The other side ends a socket that never opened: the first liberty.
FailTwice ==
    /\ life = "connecting"
    /\ life' = "closed" /\ told' = [told EXCEPT !.error = @ + 1, !.close = 2]

\* The other side answers a close() before the opening: the first liberty too.
EndAgain ==
    /\ life = "closed" /\ told.open = 0 /\ told.close = 1
    /\ told' = [told EXCEPT !.close = 2]
    /\ UNCHANGED life

\* dsh calls close() on a socket that has ended: the second liberty.
LeaveAgain == life = "closed" /\ life' = "closing" /\ UNCHANGED told

SocketNext ==
    \/ Connect \/ Open \/ Deliver \/ Fault \/ Leave \/ End
    \/ Fail \/ FailTwice \/ EndAgain \/ LeaveAgain

SocketSpec == SocketInit /\ [][SocketNext]_socketVars
=============================================================================
