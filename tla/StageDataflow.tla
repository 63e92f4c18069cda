--------------------------- MODULE StageDataflow ----------------------------
(***************************************************************************)
(* What the runtime store promises about a graph of stages, with no        *)
(* leases, attempts or clocks: each stage is settled at most once.  It is  *)
(* done with one output, which its parents' outputs precede, or it has     *)
(* failed for good, which leaves everything that depends on it open.       *)
(***************************************************************************)
CONSTANTS Stages, Outputs, NoOutput, Parents

VARIABLES outcome, output

vars == <<outcome, output>>

Init ==
    /\ outcome = [s \in Stages |-> "open"]
    /\ output = [s \in Stages |-> NoOutput]

Ready(s) ==
    /\ outcome[s] = "open"
    /\ \A p \in Parents[s] : outcome[p] = "done"

Finish(s, out) ==
    /\ Ready(s)
    /\ outcome' = [outcome EXCEPT ![s] = "done"]
    /\ output' = [output EXCEPT ![s] = out]

GiveUp(s) ==
    /\ Ready(s)
    /\ outcome' = [outcome EXCEPT ![s] = "failed"]
    /\ UNCHANGED output

Next == \E s \in Stages : GiveUp(s) \/ \E out \in Outputs : Finish(s, out)

Spec == Init /\ [][Next]_vars
=============================================================================
