------------------------------ MODULE Seeding -------------------------------
(***************************************************************************)
(* StaticRunPlanner.seed_run (src/baroque/orchestration/planner.py) over   *)
(* the store: planners add the stages of the plan one after the other,     *)
(* while other planners may add the same stages and runners already work   *)
(* on those that are there.                                                *)
(*                                                                         *)
(* add_stage takes the store's lock twice: to look for the content hash,   *)
(* and to insert the row if it was not there.  created_at is read between  *)
(* the two, so a new row is listed after every row the lookup could see;   *)
(* the clock is taken to advance from one add_stage of a planner to its    *)
(* next.                                                                   *)
(***************************************************************************)
EXTENDS LeaseStore

CONSTANTS
    Planners,   \* concurrent calls of seed_run
    Plan,       \* what plan_missing_stages returns
    MaxCrashes  \* bound: deaths of the process

\* The plan lists every stage once, after its parents (see RunPlan).
ASSUME PlanAssumption ==
    /\ Plan \in Seq(Hashes)
    /\ MaxCrashes \in Nat
    /\ \A i \in DOMAIN Plan : \A p \in Parents[Plan[i]] :
          \E j \in DOMAIN Plan : j < i /\ Plan[j] = p

VARIABLES
    step,     \* what each planner does next
    next,     \* the position of the stage it is adding
    seen,     \* the rows that were there when it read created_at
    crashes

plannerVars == <<step, next, seen, crashes>>
vars == <<storeVars, plannerVars>>

Rows == {h \in Hashes : status[h] # "absent"}

\* seed_run starts with the first stage of the plan, if there is one.
Begun == IF Plan = << >> THEN "seeded" ELSE "lookup"

\* Mutated form of SeedInit: the plan is read from its second stage on.
SeedInitAtSecond ==
    /\ StoreInit
    /\ step = [p \in Planners |-> Begun]
    /\ next = [p \in Planners |-> 2]
    /\ seen = [p \in Planners |-> {}]
    /\ crashes = 0

SeedInit ==
    /\ StoreInit
    /\ step = [p \in Planners |-> Begun]
    /\ next = [p \in Planners |-> 1]
    /\ seen = [p \in Planners |-> {}]
    /\ crashes = 0

\* Mutated form of Advance: every other stage is left out.
AdvanceByTwo(p) ==
    /\ next' = [next EXCEPT ![p] = @ + 2]
    /\ step' = [step EXCEPT ![p] = IF next[p] < Len(Plan) THEN "lookup" ELSE "seeded"]
    /\ seen' = [seen EXCEPT ![p] = {}]

\* add_stage returned; seed_run goes on to the next stage of the plan.
Advance(p) ==
    /\ next' = [next EXCEPT ![p] = @ + 1]
    /\ step' = [step EXCEPT ![p] = IF next[p] < Len(Plan) THEN "lookup" ELSE "seeded"]
    /\ seen' = [seen EXCEPT ![p] = {}]

\* _get_stage_by_hash_sync: an existing row is returned as it is.
Lookup(p) ==
    /\ step[p] = "lookup"
    /\ \/ Plan[next[p]] \in Rows /\ Advance(p)
       \/ /\ Plan[next[p]] \notin Rows
          /\ step' = [step EXCEPT ![p] = "insert"]
          /\ seen' = [seen EXCEPT ![p] = Rows]
          /\ UNCHANGED next
    /\ UNCHANGED <<storeVars, crashes>>

\* Mutated form of Insert: created_at is older than the lookup.
InsertAnywhere(p) ==
    /\ step[p] = "insert"
    /\ \E pos \in Positions : InsertStage(Plan[next[p]], pos)
    /\ Advance(p)
    /\ UNCHANGED crashes

\* The INSERT, whose row comes after the rows that were seen; another
\* planner's row for the same content hash makes it fail.
Insert(p) ==
    /\ step[p] = "insert"
    /\ \/ /\ \E pos \in Positions :
                /\ \A i \in DOMAIN order : order[i] \in seen[p] => i < pos
                /\ InsertStage(Plan[next[p]], pos)
          /\ Advance(p)
       \/ /\ Plan[next[p]] \in Rows
          /\ step' = [step EXCEPT ![p] = "raised"]
          /\ seen' = [seen EXCEPT ![p] = {}]
          /\ UNCHANGED <<storeVars, next>>
    /\ UNCHANGED crashes

\* Mutated form of Reseed: the failed insert is tried again.
ReseedInPlace(p) ==
    /\ step[p] = "raised"
    /\ step' = [step EXCEPT ![p] = "insert"]
    /\ UNCHANGED <<storeVars, next, seen, crashes>>

\* A caller whose seed_run raised calls it again.
Reseed(p) ==
    /\ step[p] = "raised"
    /\ step' = [step EXCEPT ![p] = "lookup"]
    /\ next' = [next EXCEPT ![p] = 1]
    /\ UNCHANGED <<storeVars, seen, crashes>>

\* The process dies and all planners start again; the rows are durable.
Crash ==
    /\ crashes < MaxCrashes
    /\ crashes' = crashes + 1
    /\ step' = [p \in Planners |-> Begun]
    /\ next' = [p \in Planners |-> 1]
    /\ seen' = [p \in Planners |-> {}]
    /\ UNCHANGED storeVars

\* What runners do in the meantime (all of StoreNext but InsertStage).
RunnerStep ==
    /\ \/ \E h \in Hashes, r \in Runners, lag \in Lags :
             \/ Claim(h, r, lag)
             \/ Heartbeat(h, r, lag)
             \/ \E retryable \in BOOLEAN : Fail(h, r, retryable, lag)
       \/ \E h \in Hashes, r \in Runners, art \in Artifacts : Complete(h, r, art)
       \/ \E lag \in Lags : Reclaim(lag)
       \/ Tick
    /\ UNCHANGED plannerVars

PlannerStep(p) == Lookup(p) \/ Insert(p) \/ Reseed(p)

SeedNext == (\E p \in Planners : PlannerStep(p)) \/ Crash \/ RunnerStep

SeedSpec ==
    /\ SeedInit
    /\ [][SeedNext]_vars
    /\ \A p \in Planners : WF_vars(PlannerStep(p))

-----------------------------------------------------------------------------
\* However planners race, fail and die halfway, no stage is in the store
\* without its parents: none can wait for a parent nobody has planned.
RowsParentClosed == \A h \in Rows : Parents[h] \subseteq Rows

\* The claim query lists every stage after its parents, so that a LIMIT cuts
\* off descendants before ancestors.
ParentsListedFirst ==
    \A i \in DOMAIN order : \A p \in Parents[order[i]] :
        \E j \in DOMAIN order : j < i /\ order[j] = p

\* A planner that returned leaves no stage of its plan out, also when other
\* planners added a part of it.
SeededMeansPresent ==
    \A p \in Planners : step[p] = "seeded" => ToSet(Plan) \subseteq Rows

\* Seeding a run again never resets a stage: once claimed, it never gets
\* back to pending, and its row never disappears.
ReseedingKeepsProgress ==
    [][\A h \in Rows : /\ status'[h] # "absent"
                       /\ status[h] # "pending" => status'[h] # "pending"]_vars

\* Each planner gets through its plan, if callers retry: a retry finds what
\* made it fail.
PlansGetSeeded == \A p \in Planners : <>(step[p] = "seeded")

\* "Insert a pending stage if its content hash is new, otherwise return the
\* existing row" (duckdb_runtime.py:42): add_stage has no third outcome.
AddStageReturns == \A p \in Planners : step[p] # "raised"
=============================================================================
