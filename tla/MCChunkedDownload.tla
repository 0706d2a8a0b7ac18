------------------------- MODULE MCChunkedDownload -------------------------
(* Two versions of two chunks, a shorter one and an empty one.             *)
EXTENDS ChunkedDownload

CONSTANTS v1, v2, v3, v4

MCVersion == {v1, v2, v3, v4}
MCSize == [v \in MCVersion |-> CASE v \in {v1, v2} -> 2 [] v = v3 -> 1 [] OTHER -> 0]
MCRagged == {v2}
NoneRagged == {}
=============================================================================
