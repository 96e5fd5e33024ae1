---------------------------- MODULE MCNormalizer ----------------------------
(* Every pattern of up to nine local and eager final IDs: up to five ranges. *)
EXTENDS RewriteNormalizer
=============================================================================
