----------------------------- MODULE MCSeeding ------------------------------
(* Two planners add a chain of two stages and a third one.                 *)
EXTENDS Seeding

CONSTANTS g1, g2, g3, r1, p1, p2

ForkParents == (g1 :> {}) @@ (g2 :> {g1}) @@ (g3 :> {})
ForkPlan == <<g1, g2, g3>>
=============================================================================
