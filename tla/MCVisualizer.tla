----------------------------- MODULE MCVisualizer -----------------------------
(***************************************************************************)
(* Two plans that share a node, a dropped file, two registry tabs.         *)
(***************************************************************************)
EXTENDS Visualizer, TLC

CONSTANTS p1, p2, file, live, n1, n2, keys, endpoints, k1, e1

MCNodesOf == (p1 :> {n1, n2}) @@ (p2 :> {n1}) @@ (file :> {n2}) @@ (live :> {n1})
MCEntriesOf == (keys :> {k1}) @@ (endpoints :> {e1})

=============================================================================
