---------------------------- MODULE MCRsCluster ----------------------------
(* Three machines, four peer ids, files of one or two blocks.               *)
EXTENDS RsCluster, TLC

CONSTANTS n1, n2, n3, i1, i2, i3, i4, b1, b2, f1, f2, c1

MCInitId == n1 :> i1 @@ n2 :> i2 @@ n3 :> i3
MCInitId2 == n1 :> i1 @@ n2 :> i2
MCId == {i1, i2, i3, i4}
MCBlock == {b1, b2}
MCScore == [b \in MCBlock |->
    IF b = b1 THEN i1 :> 1 @@ i2 :> 3 @@ i3 :> 2 @@ i4 :> 4
              ELSE i1 :> 4 @@ i2 :> 1 @@ i3 :> 3 @@ i4 :> 2]
MCBlocksOf1 == [c \in {c1} |-> {b1, b2}]
(* Files are told apart by their content only, and there is one content. *)
MCFileSymmetry == Permutations({f1, f2})
(* One block, for which the machine of the user comes last. *)
MCBlocksOf2 == [c \in {c1} |-> {b1}]
=============================================================================
