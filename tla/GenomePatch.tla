---------------------------- MODULE GenomePatch ------------------------------
(***************************************************************************)
(* apply_mutation_proposal (src/baroque/evolution/mutations.py): a list of *)
(* operations on a genome, a tree of dicts and lists.                      *)
(*                                                                         *)
(* Python's objects are shared and changed in place, so a tree is a root   *)
(* and a heap: a function from references to containers.  A container is   *)
(* [dict |-> f] with f a function from keys, or [list |-> s] with s a      *)
(* sequence; what it holds is [ref |-> r] or a text, a record that has no  *)
(* field ref.  A proposal has operations and the heap of their values.     *)
(***************************************************************************)
EXTENDS Integers, Sequences, SequencesExt, FiniteSets

NoGenome == << >>     \* child_genome_id is None

\* What int() makes of the keys that it takes.
Numeral == [key \in {"0", "1", "2", "-1", "-2"} |->
               CASE key = "0" -> 0 [] key = "1" -> 1 [] key = "2" -> 2
                 [] key = "-1" -> -1 [] key = "-2" -> -2]

\* KeyError, TypeError, ValueError, IndexError: the operation failed.
Raised == [raised |-> TRUE]

IsRef(item) == "ref" \in DOMAIN item
IsDict(container) == "dict" \in DOMAIN container

\* Where int(key) is in a list, 0 if nowhere: negative indices count from
\* the end.
Position(list, key) ==
    IF key \notin DOMAIN Numeral THEN 0
    ELSE LET n == Numeral[key]
             i == IF n < 0 THEN Len(list) + n + 1 ELSE n + 1
         IN  IF i \in 1..Len(list) THEN i ELSE 0

\* _get_child
Child(heap, item, key) ==
    IF ~IsRef(item) THEN Raised
    ELSE LET container == heap[item.ref] IN
         IF IsDict(container)
         THEN IF key \in DOMAIN container.dict THEN container.dict[key] ELSE Raised
         ELSE LET i == Position(container.list, key)
              IN  IF i = 0 THEN Raised ELSE container.list[i]

\* What is read with a list of keys.
Descend(heap, root, keys) ==
    LET at[n \in 0..Len(keys)] ==
            IF n = 0 THEN [ref |-> root] ELSE Child(heap, at[n - 1], keys[n])
    IN  at[Len(keys)]

\* _set_child: in a list, an index that is there is overwritten also by ADD,
\* which appends at "-" and at the index after the last.
SetChild(container, key, value, allowNew) ==
    IF IsDict(container)
    THEN IF ~allowNew /\ key \notin DOMAIN container.dict THEN Raised
         ELSE [dict |-> [k \in DOMAIN container.dict \cup {key} |->
                            IF k = key THEN value ELSE container.dict[k]]]
    ELSE LET i == Position(container.list, key)
             atEnd == \/ key = "-"
                      \/ key \in DOMAIN Numeral /\ Numeral[key] = Len(container.list)
         IN  IF allowNew /\ atEnd THEN [list |-> Append(container.list, value)]
             ELSE IF i = 0 THEN Raised
             ELSE [list |-> [container.list EXCEPT ![i] = value]]

\* _remove_child
RemoveChild(container, key) ==
    IF IsDict(container)
    THEN IF key \notin DOMAIN container.dict THEN Raised
         ELSE [dict |-> [k \in DOMAIN container.dict \ {key} |-> container.dict[k]]]
    ELSE LET i == Position(container.list, key)
         IN  IF i = 0 THEN Raised ELSE [list |-> RemoveAt(container.list, i)]

\* The container as the operation leaves it.
Changed(heap, parent, key, operation) ==
    LET container == heap[parent.ref] IN
    CASE operation.op = "add" -> SetChild(container, key, operation.value, TRUE)
      [] operation.op = "replace" ->
            IF Child(heap, parent, key) = Raised THEN Raised
            ELSE SetChild(container, key, operation.value, FALSE)
      [] operation.op = "remove" -> RemoveChild(container, key)

\* _apply_operation: whether it succeeds, and the heap after it.  A path that
\* is empty or does not begin with "/" is the empty sequence.
ApplyOperation(heap, root, operation) ==
    LET failed == [ok |-> FALSE, heap |-> heap]
        parent == Descend(heap, root, Front(operation.path))
        changed == Changed(heap, parent, Last(operation.path), operation)
    IN  IF operation.path = << >> \/ ~IsRef(parent) THEN failed
        ELSE IF changed = Raised THEN failed
        ELSE [ok |-> TRUE, heap |-> [heap EXCEPT ![parent.ref] = changed]]

\* The genome's objects and those of the proposal's values.
Objects(proposal, genome) ==
    [r \in DOMAIN proposal.heap \cup DOMAIN genome.heap |->
        IF r \in DOMAIN proposal.heap THEN proposal.heap[r] ELSE genome.heap[r]]

\* The operations in turn, up to the first that fails.
Patched(proposal, genome) ==
    LET after[n \in 0..Len(proposal.operations)] ==
            IF n = 0 THEN [ok |-> TRUE, heap |-> Objects(proposal, genome)]
            ELSE IF ~after[n - 1].ok THEN after[n - 1]
            ELSE ApplyOperation(after[n - 1].heap, genome.root, proposal.operations[n])
    IN  after[Len(proposal.operations)]

\* _child_genome_id: a hash of the proposal as it was made, with the parent's
\* id in it, and of the genome that came out.
ChildGenomeId(proposal, heap) == <<proposal, heap>>

\* The proposal after its operations: what they set into the genome is the
\* proposal's own value, and changes with it.
Left(proposal, heap) == [proposal EXCEPT !.heap = [r \in DOMAIN @ |-> heap[r]]]

\* Mutated form of Application: the parent's genome is not copied.
ApplicationInPlace(proposal, genome) ==
    LET patched == Patched(proposal, genome)
    IN  [applied |-> patched.ok, genome |-> [genome EXCEPT !.heap = patched.heap],
         child |-> IF patched.ok THEN ChildGenomeId(proposal, patched.heap) ELSE NoGenome,
         proposal |-> Left(proposal, patched.heap)]

\* apply_mutation_proposal: operations change a copy of the genome, which is
\* dropped when one of them fails.
Application(proposal, genome) ==
    LET patched == Patched(proposal, genome)
    IN  [applied |-> patched.ok,
         genome |-> IF patched.ok THEN [genome EXCEPT !.heap = patched.heap] ELSE genome,
         child |-> IF patched.ok THEN ChildGenomeId(proposal, patched.heap) ELSE NoGenome,
         proposal |-> Left(proposal, patched.heap)]

-----------------------------------------------------------------------------
\* Genomes and proposals are read from JSON: no object is in two places.
Slots(container) == IF IsDict(container) THEN DOMAIN container.dict ELSE DOMAIN container.list

Held(container, slot) ==
    IF IsDict(container) THEN container.dict[slot] ELSE container.list[slot]

\* Each object of a heap but those on top is in one place at most.
AreTrees(heap, tops) ==
    /\ heap = [r \in DOMAIN heap |-> heap[r]] /\ tops \subseteq DOMAIN heap
    /\ \A r \in DOMAIN heap :
          /\ \/ DOMAIN heap[r] = {"dict"}
             \/ DOMAIN heap[r] = {"list"} /\ heap[r].list \in Seq(ToSet(heap[r].list))
          /\ \A slot \in Slots(heap[r]) :
                LET item == Held(heap[r], slot)
                IN  item # Raised /\ (IsRef(item) => item.ref \in DOMAIN heap \ tops)
    /\ \A q, r \in DOMAIN heap : \A i \in Slots(heap[q]), j \in Slots(heap[r]) :
          LET first == Held(heap[q], i)
              second == Held(heap[r], j)
          IN  IsRef(first) /\ IsRef(second) /\ first.ref = second.ref => q = r /\ i = j

IsGenome(genome) ==
    /\ genome = [root |-> genome.root, heap |-> genome.heap]
    /\ AreTrees(genome.heap, {genome.root})

IsProposal(proposal) ==
    LET operations == proposal.operations
        setting == {i \in DOMAIN operations : IsRef(operations[i].value)}
    IN  /\ proposal = [operations |-> operations, heap |-> proposal.heap]
        /\ operations \in Seq(ToSet(operations))
        /\ \A operation \in ToSet(operations) :
              /\ operation.op \in {"add", "replace", "remove"}
              /\ operation.path \in Seq(ToSet(operation.path))
              /\ operation.value # Raised
        /\ AreTrees(proposal.heap, {operations[i].value.ref : i \in setting})
        /\ \A i, j \in setting : operations[i].value.ref = operations[j].value.ref => i = j
=============================================================================
