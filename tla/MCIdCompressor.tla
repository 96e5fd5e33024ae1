--------------------------- MODULE MCIdCompressor ---------------------------
(* One compressor on a small instance: the other session is near enough that
   the claims of the two run into each other, so that finalize_range reaches
   its ClusterCollision return as well as the other two.                   *)
EXTENDS IdCompressor

MCSessions == {100, 106}
MCCapacities == {1, 2}

ASSUME MCSessionsApart == SessionsApart
=============================================================================
