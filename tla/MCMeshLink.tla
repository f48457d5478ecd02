----------------------------- MODULE MCMeshLink -----------------------------
(* The instance of MeshLink that TLC checks; the constants are in the .cfg   *)
(* files: rings of three slots, so that both wrap around and fill up.        *)
EXTENDS MeshLink
=============================================================================
