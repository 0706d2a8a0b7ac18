---------------------------- MODULE MCRsDownload ----------------------------
(* Two peers, one of them asked directly; a file of two blocks. *)
EXTENDS RsDownload

CONSTANTS p1, p2, b1, b2

MCHashOf == <<b1, b2>>
=============================================================================
