----------------------------- MODULE MCRewrite -----------------------------
(* One compressor of the rewrite.  Sessions 100 and 200 are farther apart
   than claims reach; 100 and 102 overlap in their first clusters, and 100
   and 104 once the first has been expanded.                               *)
EXTENDS RewriteSystem

FarSessions == {100, 200}
CloseSessions == {100, 102}
NearSessions == {100, 104}
MCCapacities == {1, 2}

ASSUME FarAssumption == Sessions = FarSessions => SessionsFarApart
=============================================================================
