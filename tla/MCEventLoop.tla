------------------------------ MODULE MCEventLoop ------------------------------
(***************************************************************************)
(* Callers of the event loop for model checking.                           *)
(***************************************************************************)
EXTENDS EventLoop, TLC

CONSTANTS s1, s2, p1, p2, quit, relay, echo

\* A callback that stops the loop, and one that posts another.
MCKind == (quit :> "stop") @@ (relay :> "post")

=============================================================================
