--------------------------- MODULE MCStageRunner ----------------------------
(* Small instances of the runner: at most two runners, two slots and three *)
(* stages, the second of which depends on the first.                       *)
EXTENDS StageRunner

CONSTANTS g1, g2, g3, r1, r2, t1, t2

OneStage == g1 :> {}
ChainParents == (g1 :> {}) @@ (g2 :> {g1})
ForkParents == (g1 :> {}) @@ (g2 :> {g1}) @@ (g3 :> {})

OneOrder == <<g1>>
ChainOrder == <<g1, g2>>
ForkOrder == <<g1, g2, g3>>
=============================================================================
