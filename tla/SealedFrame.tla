---------------------------- MODULE SealedFrame ----------------------------
(***************************************************************************)
(* The iframe of the vendored SDK through which the sealed requests and    *)
(* the sealed socket go.  It is a child of the page's body; the SDK        *)
(* refuses what is asked of it once it is not there any more.  The shell   *)
(* itself never removes a frame that is in use, but it is written for the  *)
(* case.                                                                   *)
(***************************************************************************)

VARIABLE gone       \* AuthFrame.destroy has run

FrameInit == gone = FALSE
=============================================================================
