-------------------------- MODULE MCTokenResolution --------------------------
(* Token resolution over every graph of three vertices around the token,   *)
(* with up to two outgoing edges per vertex.                               *)
EXTENDS TokenResolution

MCVertices == 1..3
MCTokVariants == {"Token", "User"}
MCOtherVariants == {"User", "ServiceAccount", "Group", "ResourceProject"}
\* constants.rs relation_types OWNED_BY_USER (8) and PERMISSION_READ (3)
MCTokEdgeTypes == {8, 3}
MCCommittedSets == SUBSET MCVertices

=============================================================================
