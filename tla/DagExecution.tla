----------------------------- MODULE DagExecution -----------------------------
(***************************************************************************)
(* What executing a plan promises, whichever scheduler does it: a node     *)
(* begins only when every node it depends on has succeeded and nothing has *)
(* failed yet; the execution ends when no node is running, with "ok" only  *)
(* if every node has succeeded and with "error" only if it was aborted by  *)
(* a failed node or by the request deadline.                               *)
(***************************************************************************)
CONSTANT
    Nodes        \* the nodes of the plan

VARIABLES
    parents,     \* the plan: per node, the nodes it reads
    status,      \* per node: "pending", "running", "ok" or "failed"
    aborted,     \* has an error been recorded?
    verdict      \* "none", "ok" or "error"

avars == <<parents, status, aborted, verdict>>

AInit ==
    /\ parents \in [Nodes -> SUBSET Nodes]
    /\ status = [n \in Nodes |-> "pending"]
    /\ aborted = FALSE
    /\ verdict = "none"

Begin(n) ==
    /\ verdict = "none"
    /\ ~aborted
    /\ status[n] = "pending"
    /\ \A m \in parents[n] : status[m] = "ok"
    /\ status' = [status EXCEPT ![n] = "running"]
    /\ UNCHANGED <<aborted, verdict>>

Succeed(n) ==
    /\ status[n] = "running"
    /\ status' = [status EXCEPT ![n] = "ok"]
    /\ UNCHANGED <<aborted, verdict>>

Fail(n) ==
    /\ status[n] = "running"
    /\ status' = [status EXCEPT ![n] = "failed"]
    /\ aborted' = TRUE
    /\ UNCHANGED verdict

\* The request deadline passes.
Abort ==
    /\ verdict = "none"
    /\ aborted' = TRUE
    /\ UNCHANGED <<status, verdict>>

End ==
    /\ verdict = "none"
    /\ \A n \in Nodes : status[n] # "running"
    /\ \/ aborted /\ verdict' = "error"
       \/ ~aborted /\ (\A n \in Nodes : status[n] = "ok") /\ verdict' = "ok"
    /\ UNCHANGED <<status, aborted>>

ANext ==
    /\ UNCHANGED parents
    /\ \/ \E n \in Nodes : Begin(n) \/ Succeed(n) \/ Fail(n)
       \/ Abort
       \/ End

ASpec == AInit /\ [][ANext]_avars

=============================================================================
