---------------------------- MODULE MCTuiSession ----------------------------
(* Values for model-checking TuiSession. *)
EXTENDS TuiSession

CONSTANTS p1, p2, z1, z2, a, b, c1, c2

(* A name that both peers have, and one that only one zone has. *)
MCShared == [p \in Peer |-> [z \in Zone |->
    IF p = p1 THEN (IF z = z1 THEN <<a, b>> ELSE <<a>>) ELSE <<b>>]]

(* The second peer moves when the first is lost. *)
MCPeerLists == {<<p1, p2>>, <<p2>>}

(* Two contents under one name, and a second name. *)
MCImports == {<<a, c1>>, <<a, c2>>, <<b, c1>>}
=============================================================================
