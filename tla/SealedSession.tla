--------------------------- MODULE SealedSession ---------------------------
(***************************************************************************)
(* What installSealedTransport puts in front of dsh: the chain of unary    *)
(* requests and the mux socket, over one iframe that may go away.          *)
(***************************************************************************)
EXTENDS SealedFetch, MuxSocket

vars == <<gone, fetchVars, muxVars>>

Init == FrameInit /\ FetchInit /\ MuxInit

\* AuthFrame.destroy.
RemoveFrame ==
    /\ ~gone /\ gone' = TRUE
    /\ FetchLosesFrame /\ SocketLosesFrame

Next ==
    \/ FetchNext /\ UNCHANGED <<gone, muxVars>>
    \/ MuxNext /\ UNCHANGED <<gone, fetchVars>>
    \/ RemoveFrame

\* The browser runs its tasks and microtasks, and an iframe told to close does
\* so.  Nothing is assumed of the network, which may never settle a request.
Spec ==
    /\ Init /\ [][Next]_vars
    /\ \A c \in Calls : WF_vars(Start(c) /\ UNCHANGED <<gone, muxVars>>)
    /\ WF_vars((OnAck \/ OnMessage \/ OnError \/ OnClose) /\ UNCHANGED <<gone, fetchVars>>)
    /\ WF_vars(left /\ FrameCloses /\ UNCHANGED <<gone, fetchVars>>)
=============================================================================
