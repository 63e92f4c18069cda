-------------------------------- MODULE Loops --------------------------------
(* Python's loops and dicts, as far as sequences need them.                *)
EXTENDS Integers, Sequences, SequencesExt

\* f(0) \o ... \o f(n-1): a loop over range(n)
ForRange(n, f(_)) == FlattenSeq([i \in 1..n |-> f(i - 1)])

\* a loop over a list
ForEach(list, f(_)) == FlattenSeq([i \in 1..Len(list) |-> f(list[i])])

\* Keys of a dict filled from a list: one each, where it came first.
WithKey(keys, x) == IF x \in ToSet(keys) THEN keys ELSE Append(keys, x)

DictKeys(list) ==
    LET keys[n \in 0..Len(list)] ==
            IF n = 0 THEN << >> ELSE WithKey(keys[n - 1], list[n])
    IN  keys[Len(list)]

\* [x for x in list if x in X]
Only(list, X) == ForEach(list, LAMBDA x : IF x \in X THEN <<x>> ELSE << >>)

\* sum(list)
Total(list) ==
    LET sum[n \in 0..Len(list)] == IF n = 0 THEN 0 ELSE sum[n - 1] + list[n]
    IN  sum[Len(list)]
=============================================================================
