-------------------------- MODULE MCSessionTokens ---------------------------
(* The local session and four others, more than the cache can hold. *)
EXTENDS SessionTokens

CONSTANTS s1, s2, s3, s4, s5
MCSessions == {s1, s2, s3, s4, s5}
=============================================================================
