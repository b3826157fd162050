---------------------------- MODULE MCMediaGroup ----------------------------
(* Albums of three messages and of two for TLC.                            *)
EXTENDS MediaGroupInv

Album3 == {10, 20, 30}
Album2 == {10, 20}

=============================================================================
