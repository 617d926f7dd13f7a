----------------------------- MODULE MCThreadPool -----------------------------
(***************************************************************************)
(* A small pool for model checking.                                        *)
(***************************************************************************)
EXTENDS ThreadPool, TLC

CONSTANTS w1, w2, t1, t2, t3, x1

\* t3 is submitted by the body of t2.
MCParent == (t1 :> Caller) @@ (t2 :> Caller) @@ (t3 :> t2)

=============================================================================
