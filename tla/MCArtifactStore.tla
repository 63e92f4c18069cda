--------------------------- MODULE MCArtifactStore ---------------------------
(* Three threads that store two artifacts, so that two race for one path.  *)
EXTENDS ArtifactStore

CONSTANTS w1, w2, w3, c1, c2
=============================================================================
