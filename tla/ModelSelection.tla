--------------------------- MODULE ModelSelection ----------------------------
(***************************************************************************)
(* How the planner picks a model from a role's pool and an endpoint from   *)
(* the model's (_model_config_for_role, _select_from_pool in               *)
(* src/baroque/orchestration/planner.py).                                  *)
(*                                                                         *)
(* A pool is a record of its candidates (a list, repetitions count), its   *)
(* selection strategy, normalised, and the weights it gives to some of     *)
(* them.  draw_fraction, the first 64 bits of a hash over 2^64, is         *)
(* draw / Precision.  A draw can be Precision itself: the quotient is a    *)
(* float and is rounded, to 1.0 from 1 - 2^-54 on.                         *)
(***************************************************************************)
EXTENDS Integers, Sequences, SequencesExt, FiniteSets

CONSTANTS
    Precision,    \* the denominator of draws
    Endpoints,    \* the endpoint pool of each configured model
    Draw(_, _, _),\* the hash of a label, a pool and a selector context
    NoCandidate   \* no choice: a ValueError

ASSUME PrecisionAssumption == Precision \in Nat \ {0}

Draws == 0..Precision

First == {"first", "fixed", "ordered", "primary"}
Uniform == {"sampled", "uniform", "uniform_random", "random"}
Weighted == {"weighted", "weighted_random", "weighted_sampled"}

\* weights.get(candidate, 1.0)
Weight(pool, candidate) ==
    IF candidate \in DOMAIN pool.weights THEN pool.weights[candidate] ELSE 1

\* The weights of the first n candidates together.
Cumulative(pool, n) ==
    LET sum[k \in 0..Len(pool.candidates)] ==
            IF k = 0 THEN 0 ELSE sum[k - 1] + Weight(pool, pool.candidates[k])
    IN  sum[n]

\* The conditions under which _select_from_pool and _effective_weights raise
\* no ValueError.
Selectable(pool) ==
    /\ pool.candidates # << >>
    /\ pool.selection \in First \cup Uniform \cup Weighted
    /\ pool.selection \in Weighted =>
          LET candidates == ToSet(pool.candidates)
          IN  /\ \A candidate \in candidates : Weight(pool, candidate) >= 0
              /\ \E candidate \in candidates : Weight(pool, candidate) > 0

UniformIndex(pool, draw) ==
    LET n == Len(pool.candidates) IN 1 + Min({(draw * n) \div Precision, n - 1})

\* Mutated form of WeightedIndex: <= for <.
WeightedIndexClosed(pool, draw) ==
    LET n == Len(pool.candidates)
        threshold == draw * Cumulative(pool, n)
        passed == {i \in 1..n : threshold <= Cumulative(pool, i) * Precision}
    IN  IF passed = {} THEN n ELSE Min(passed)

\* The first candidate whose cumulated weight exceeds the threshold, and the
\* last one if none does.
WeightedIndex(pool, draw) ==
    LET n == Len(pool.candidates)
        threshold == draw * Cumulative(pool, n)
        passed == {i \in 1..n : threshold < Cumulative(pool, i) * Precision}
    IN  IF passed = {} THEN n ELSE Min(passed)

SelectedIndex(pool, draw) ==
    CASE pool.selection \in First -> 1
      [] pool.selection \in Uniform -> UniformIndex(pool, draw)
      [] pool.selection \in Weighted -> WeightedIndex(pool, draw)

Select(label, pool, context) ==
    IF Selectable(pool)
    THEN pool.candidates[SelectedIndex(pool, Draw(label, pool, context))]
    ELSE NoCandidate

\* A role's pool gives the model, the model's pool the endpoint.
ModelConfig(pool, context) ==
    LET model == Select("model", pool, context)
        endpoint == IF model \in DOMAIN Endpoints
                    THEN Select("endpoint", Endpoints[model], context)
                    ELSE NoCandidate
    IN  [model |-> model, endpoint |-> endpoint]

-----------------------------------------------------------------------------
\* Each candidate of a pool is drawn by its share of the draws, up to
\* rounding: its part of the weights, an equal part, or the first all.  So
\* one of weight zero is never drawn, wherever it stands in the list.  The
\* draw that rounds to one still picks a candidate: the last, of whatever
\* weight (planner.py:634, 639).
ProportionalDraws(pool) ==
    LET candidates == pool.candidates
        n == Len(candidates)
        drawn(c) == Cardinality({d \in 0..(Precision - 1) :
                                    candidates[SelectedIndex(pool, d)] = c})
        copies(c) == Cardinality({i \in 1..n : candidates[i] = c})
        share(c) == CASE pool.selection \in First ->
                            [of |-> 1, part |-> IF c = Head(candidates) THEN 1 ELSE 0]
                      [] pool.selection \in Uniform -> [of |-> n, part |-> copies(c)]
                      [] OTHER -> [of |-> Cumulative(pool, n),
                                   part |-> copies(c) * Weight(pool, c)]
        error(c) == drawn(c) * share(c).of - Precision * share(c).part
    IN  /\ \A c \in ToSet(candidates) :
              /\ error(c) < copies(c) * share(c).of /\ -error(c) < copies(c) * share(c).of
              /\ share(c).part = 0 => drawn(c) = 0
        /\ SelectedIndex(pool, Precision) \in 1..n
        /\ pool.selection \notin First => SelectedIndex(pool, Precision) = n
=============================================================================
