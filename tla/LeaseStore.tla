----------------------------- MODULE LeaseStore -----------------------------
(***************************************************************************)
(* DuckDBRuntimeStore (src/baroque/storage/duckdb_runtime.py): the two     *)
(* tables `stages` and `stage_attempts`, and the operations of the         *)
(* LeaseStore and StageStore protocols on them.                            *)
(*                                                                         *)
(* Every operation takes the store's lock once and runs one SQL statement  *)
(* or one transaction under it, so it is one atomic action here; what the  *)
(* code does outside the lock is kept apart: `now` is read BEFORE the lock *)
(* is taken (the parameter `lag` of the actions), and add_stage's lookup   *)
(* and claim_next_stage's final re-read are separate lock holds, which the *)
(* modules of their callers (Seeding, StageRunner) give steps of their own.*)
(*                                                                         *)
(* The callers are arbitrary here: any runner may call any operation at    *)
(* any time.  A call whose WHERE clause matches no row raises RuntimeError *)
(* and changes nothing, so it is no step of this module.                   *)
(*                                                                         *)
(* Not covered: the columns no statement reads back (heartbeat_at,         *)
(* started_at, updated_at, error_json, metadata_json) and several          *)
(* processes opening the database file at once (DuckDB refuses that).      *)
(***************************************************************************)
EXTENDS Integers, Sequences, SequencesExt, FiniteSets

CONSTANTS
    Hashes,       \* content hashes of the stages that may be planned
    Runners,      \* runner ids
    Artifacts,    \* values of artifact_refs a caller may complete a stage with
    NoRunner,     \* lease_owner IS NULL
    NoArtifact,   \* artifact_refs_json = '[]'
    Parents,      \* parent_hashes of each stage
    LeaseTTL,     \* lease_ttl, in ticks
    RetryDelay,   \* retry_delay, in ticks
    MaxLag,       \* bound: ticks between reading `now` and getting the lock
    ClaimLimit,   \* the LIMIT of the claim query (100 in the code)
    MaxAttempts   \* bound: attempts of one stage that are explored

ASSUME StoreAssumption ==
    /\ Parents \in [Hashes -> SUBSET Hashes]
    /\ NoRunner \notin Runners
    /\ NoArtifact \notin Artifacts
    /\ LeaseTTL \in Nat
    /\ RetryDelay \in Nat
    /\ MaxLag \in Nat
    /\ ClaimLimit \in Nat
    /\ MaxAttempts \in Nat

VARIABLES
    status,     \* stages.status; "absent" when there is no row
    order,      \* the rows in the claim query's order (created_at, stage_id)
    attempt,    \* stages.attempt
    owner,      \* stages.lease_owner
    leaseLeft,  \* stages.leased_until minus the clock
    retryLeft,  \* stages.completed_at + retry_delay minus the clock
    artifact,   \* stages.artifact_refs_json
    log         \* stage_attempts: log[h][k] is the row with key (h, k)

storeVars == <<status, order, attempt, owner, leaseLeft, retryLeft, artifact, log>>

\* The statuses the store writes; StageStatus also declares LEASED and
\* CANCELLED, which no statement ever stores.
RowStatus == {"pending", "running", "succeeded", "failed_retryable",
              "failed_terminal", "abandoned"}

Lags == 0..MaxLag

\* The two columns that hold times are kept relative to the clock and stop
\* falling where no comparison with a `now` of at most MaxLag ticks ago can
\* tell values apart; they are 0 where SQL has NULL or nothing reads them.
LeaseFloor == -(MaxLag + 1)
RetryFloor == -MaxLag

NoRow == [runner |-> NoRunner, status |-> "none", artifact |-> NoArtifact]

AttemptRow == [runner   : Runners \cup {NoRunner},
               status   : {"none", "running", "succeeded", "failed_retryable",
                           "failed_terminal"},
               artifact : Artifacts \cup {NoArtifact}]

Settled(h) == status[h] \in {"succeeded", "failed_terminal"}

\* Mutated form of Leased: the owner is not compared.
LeasedByAnyone(h, r) == status[h] = "running" /\ r \in Runners

(***************************************************************************)
(* Every operation but claim and reclaim names one stage; complete_stage,  *)
(* fail_stage and heartbeat find it with                                   *)
(*   WHERE stage_id = ? AND lease_owner = ? AND status = 'running'.        *)
(***************************************************************************)
Leased(h, r) == status[h] = "running" /\ owner[h] = r

\* Mutated form of ParentsSucceeded: a parent without a row is no obstacle.
MissingParentsIgnored(h) == \A p \in Parents[h] : status[p] \in {"succeeded", "absent"}

\* _parents_succeeded: a parent without a row counts as not succeeded.
ParentsSucceeded(h) == \A p \in Parents[h] : status[p] = "succeeded"

\* Mutated forms of Selectable: everything that is not running; reclaimed
\* stages are left out.
SelectableUnlessRunning(h, lag) == lag \in Lags /\ status[h] # "running"
SelectableUnlessReclaimed(h, lag) ==
    \/ status[h] = "pending"
    \/ status[h] = "failed_retryable" /\ retryLeft[h] <= -lag

(***************************************************************************)
(* The claim query.  `retry_cutoff` is computed from a `now` of `lag`      *)
(* ticks ago: completed_at <= now - retry_delay.                           *)
(***************************************************************************)
Selectable(h, lag) ==
    \/ status[h] \in {"pending", "abandoned"}
    \/ status[h] = "failed_retryable" /\ retryLeft[h] <= -lag

Selected(lag) == {i \in DOMAIN order : Selectable(order[i], lag)}

\* ORDER BY created_at, stage_id LIMIT 100
Window(lag) == {i \in Selected(lag) :
                   Cardinality({j \in Selected(lag) : j < i}) < ClaimLimit}

\* Mutated form of RunnableIn: the parents are not looked at.
RunnableAnyway(lag) == Window(lag)

\* _first_runnable_stage looks at the rows of the window only.
RunnableIn(lag) == {i \in Window(lag) : ParentsSucceeded(order[i])}

\* h is the row claim_next_stage picks.
FirstRunnable(h, lag) ==
    \E i \in RunnableIn(lag) :
        /\ h = order[i]
        /\ \A j \in RunnableIn(lag) : i <= j

NothingToClaim(lag) == RunnableIn(lag) = {}

StoreInit ==
    /\ status = [h \in Hashes |-> "absent"]
    /\ order = << >>
    /\ attempt = [h \in Hashes |-> 0]
    /\ owner = [h \in Hashes |-> NoRunner]
    /\ leaseLeft = [h \in Hashes |-> 0]
    /\ retryLeft = [h \in Hashes |-> 0]
    /\ artifact = [h \in Hashes |-> NoArtifact]
    /\ log = [h \in Hashes |-> [k \in 1..MaxAttempts |-> NoRow]]

\* Mutated form of InsertStage: an existing row is replaced.
UpsertStage(h, pos) ==
    /\ status' = [status EXCEPT ![h] = "pending"]
    /\ order' = IF status[h] = "absent" THEN InsertAt(order, pos, h) ELSE order
    /\ UNCHANGED <<attempt, owner, leaseLeft, retryLeft, artifact, log>>

(***************************************************************************)
(* The INSERT of add_stage, which succeeds only when content_hash is new   *)
(* (the column is UNIQUE).  created_at was read before the lock was taken  *)
(* and ties are broken by a random stage_id, so the row may land anywhere  *)
(* among the rows of concurrent callers.                                   *)
(***************************************************************************)
InsertStage(h, pos) ==
    /\ status[h] = "absent"
    /\ status' = [status EXCEPT ![h] = "pending"]
    /\ order' = InsertAt(order, pos, h)
    /\ UNCHANGED <<attempt, owner, leaseLeft, retryLeft, artifact, log>>

Positions == 1..(Len(order) + 1)

\* Mutated form of NextAttempt: counted by the SELECT and by the UPDATE.
NextAttemptTwice(h) == attempt[h] + 2

NextAttempt(h) == attempt[h] + 1

\* The transaction of claim_next_stage on the row it picked: the UPDATE of
\* `stages` and the INSERT into `stage_attempts`, whose PRIMARY KEY is
\* (stage_id, attempt).
Claim(h, r, lag) ==
    LET n == NextAttempt(h) IN
    /\ FirstRunnable(h, lag)
    /\ n \in 1..MaxAttempts
    /\ log[h][n] = NoRow
    /\ status' = [status EXCEPT ![h] = "running"]
    /\ attempt' = [attempt EXCEPT ![h] = n]
    /\ owner' = [owner EXCEPT ![h] = r]
    /\ leaseLeft' = [leaseLeft EXCEPT ![h] = LeaseTTL - lag]
    /\ retryLeft' = [retryLeft EXCEPT ![h] = 0]
    /\ log' = [log EXCEPT ![h][n] =
                  [runner |-> r, status |-> "running", artifact |-> NoArtifact]]
    /\ UNCHANGED <<order, artifact>>

Heartbeat(h, r, lag) ==
    /\ Leased(h, r)
    /\ leaseLeft' = [leaseLeft EXCEPT ![h] = LeaseTTL - lag]
    /\ UNCHANGED <<status, order, attempt, owner, retryLeft, artifact, log>>

\* Mutated forms of CloseAttempt: the UPDATE names no attempt; the UPDATE finds
\* nothing because the owner has been cleared before.
CloseAllAttempts(h, r, result, art) ==
    log' = [log EXCEPT ![h] = [k \in 1..MaxAttempts |->
                IF log[h][k].runner = r
                THEN [runner |-> r, status |-> result, artifact |-> art]
                ELSE log[h][k]]]
CloseNoAttempt(h, r, result, art) ==
    log' = IF owner'[h] = r
           THEN [log EXCEPT ![h][attempt[h]] =
                    [runner |-> r, status |-> result, artifact |-> art]]
           ELSE log

\* UPDATE stage_attempts ... WHERE stage_id = h AND attempt = <the row's
\* attempt> AND runner_id = r: no error when no row matches.
CloseAttempt(h, r, result, art) ==
    log' = IF log[h][attempt[h]].runner = r
           THEN [log EXCEPT ![h][attempt[h]] =
                    [runner |-> r, status |-> result, artifact |-> art]]
           ELSE log

(***************************************************************************)
(* complete_stage and fail_stage check the owner, not the attempt: the     *)
(* attempt they close is the row's current one, whichever attempt the      *)
(* caller was given when it claimed.                                       *)
(***************************************************************************)
Complete(h, r, art) ==
    /\ Leased(h, r)
    /\ status' = [status EXCEPT ![h] = "succeeded"]
    /\ artifact' = [artifact EXCEPT ![h] = art]
    /\ owner' = [owner EXCEPT ![h] = NoRunner]
    /\ leaseLeft' = [leaseLeft EXCEPT ![h] = 0]
    /\ CloseAttempt(h, r, "succeeded", art)
    /\ UNCHANGED <<order, attempt, retryLeft>>

\* completed_at is the `now` of lag ticks ago; only a retryable failure is
\* ever compared with it again.
Fail(h, r, retryable, lag) ==
    LET result == IF retryable THEN "failed_retryable" ELSE "failed_terminal" IN
    /\ Leased(h, r)
    /\ status' = [status EXCEPT ![h] = result]
    /\ retryLeft' = [retryLeft EXCEPT ![h] =
                        IF retryable THEN RetryDelay - lag ELSE 0]
    /\ owner' = [owner EXCEPT ![h] = NoRunner]
    /\ leaseLeft' = [leaseLeft EXCEPT ![h] = 0]
    /\ CloseAttempt(h, r, result, NoArtifact)
    /\ UNCHANGED <<order, attempt, artifact>>

\* Mutated form of Expired: leased_until <= now.
ExpiredAtEnd(lag) == {h \in Hashes : status[h] = "running" /\ leaseLeft[h] <= -lag}

\* leased_until < now, for a `now` of lag ticks ago
Expired(lag) == {h \in Hashes : status[h] = "running" /\ leaseLeft[h] < -lag}

\* Mutated forms of Reclaim: lease_owner is not cleared; the attempt is marked.
ReclaimKeepingOwner(lag) ==
    /\ Expired(lag) # {}
    /\ status' = [h \in Hashes |-> IF h \in Expired(lag) THEN "abandoned" ELSE status[h]]
    /\ UNCHANGED <<order, attempt, owner, leaseLeft, retryLeft, artifact, log>>
ReclaimMarkingAttempt(lag) ==
    /\ Expired(lag) # {}
    /\ status' = [h \in Hashes |-> IF h \in Expired(lag) THEN "abandoned" ELSE status[h]]
    /\ owner' = [h \in Hashes |-> IF h \in Expired(lag) THEN NoRunner ELSE owner[h]]
    /\ leaseLeft' = [h \in Hashes |-> IF h \in Expired(lag) THEN 0 ELSE leaseLeft[h]]
    /\ log' = [h \in Hashes |-> IF h \in Expired(lag)
                  THEN [log[h] EXCEPT ![attempt[h]].status = "abandoned"] ELSE log[h]]
    /\ UNCHANGED <<order, attempt, retryLeft, artifact>>

\* One UPDATE for all expired rows.  The row's attempt in stage_attempts is
\* left "running", and completed_at stays NULL.
Reclaim(lag) ==
    /\ Expired(lag) # {}
    /\ status' = [h \in Hashes |-> IF h \in Expired(lag) THEN "abandoned" ELSE status[h]]
    /\ owner' = [h \in Hashes |-> IF h \in Expired(lag) THEN NoRunner ELSE owner[h]]
    /\ leaseLeft' = [h \in Hashes |-> IF h \in Expired(lag) THEN 0 ELSE leaseLeft[h]]
    /\ UNCHANGED <<order, attempt, retryLeft, artifact, log>>

\* The wall clock advances.
Tick ==
    /\ leaseLeft' = [h \in Hashes |->
          IF status[h] = "running" /\ leaseLeft[h] > LeaseFloor
          THEN leaseLeft[h] - 1 ELSE leaseLeft[h]]
    /\ retryLeft' = [h \in Hashes |->
          IF status[h] = "failed_retryable" /\ retryLeft[h] > RetryFloor
          THEN retryLeft[h] - 1 ELSE retryLeft[h]]
    /\ UNCHANGED <<status, order, attempt, owner, artifact, log>>

StoreNext ==
    \/ \E h \in Hashes, pos \in Positions : InsertStage(h, pos)
    \/ \E h \in Hashes, r \in Runners, lag \in Lags : Claim(h, r, lag)
    \/ \E h \in Hashes, r \in Runners, lag \in Lags : Heartbeat(h, r, lag)
    \/ \E h \in Hashes, r \in Runners, art \in Artifacts : Complete(h, r, art)
    \/ \E h \in Hashes, r \in Runners, retryable \in BOOLEAN, lag \in Lags :
          Fail(h, r, retryable, lag)
    \/ \E lag \in Lags : Reclaim(lag)
    \/ Tick

StoreSpec == StoreInit /\ [][StoreNext]_storeVars

-----------------------------------------------------------------------------
(***************************************************************************)
(* Properties.                                                             *)
(***************************************************************************)

\* Every column and every attempt row holds a value the schema allows.
StoreTypeOK ==
    /\ status \in [Hashes -> RowStatus \cup {"absent"}]
    /\ order \in Seq(Hashes)
    /\ attempt \in [Hashes -> 0..MaxAttempts]
    /\ owner \in [Hashes -> Runners \cup {NoRunner}]
    /\ leaseLeft \in [Hashes -> Int]
    /\ retryLeft \in [Hashes -> Int]
    /\ artifact \in [Hashes -> Artifacts \cup {NoArtifact}]
    /\ log \in [Hashes -> [1..MaxAttempts -> AttemptRow]]

\* A stage has a lease owner exactly while it is running, and then the
\* attempt row of its current attempt is open and belongs to that owner: the
\* two tables agree on who works on what, so that the WHERE clause with
\* which complete_stage and fail_stage close the attempt always finds it.
LeaseMatchesAttempt ==
    \A h \in Hashes :
        /\ (status[h] = "running") <=> (owner[h] # NoRunner)
        /\ status[h] = "running" =>
              /\ attempt[h] \in 1..MaxAttempts
              /\ log[h][attempt[h]].status = "running"
              /\ log[h][attempt[h]].runner = owner[h]

\* A stage whose last attempt ended has that attempt's result, and one that
\* succeeded has the artifact recorded with the attempt.
RowMatchesAttempt ==
    \A h \in Hashes :
        /\ status[h] \in {"succeeded", "failed_retryable", "failed_terminal"} =>
              /\ attempt[h] \in 1..MaxAttempts
              /\ log[h][attempt[h]].status = status[h]
              /\ log[h][attempt[h]].artifact = artifact[h]
        /\ status[h] = "abandoned" =>
              /\ attempt[h] \in 1..MaxAttempts
              /\ log[h][attempt[h]].status = "running"

\* The attempt rows of a stage are numbered 1..attempt without a gap, so the
\* INSERT of claim_next_stage never meets its primary key.
AttemptsContiguous ==
    \A h \in Hashes, k \in 1..MaxAttempts :
        (log[h][k] = NoRow) <=> (k > attempt[h])

\* Whatever happened to the attempts before the current one, none of them
\* succeeded or failed for good: no stage is worked on again after it was
\* settled, and at most one attempt of a stage ever succeeds.
EarlierAttemptsRetryable ==
    \A h \in Hashes, k \in 1..MaxAttempts :
        k < attempt[h] => log[h][k].status \in {"running", "failed_retryable"}

\* Work on a stage starts only after all its parents have succeeded, and
\* they stay succeeded: _parents_succeeded is checked once, at the claim,
\* and handlers rely on it for as long as they run.
ParentsStaySucceeded ==
    \A h \in Hashes : attempt[h] > 0 => ParentsSucceeded(h)

\* A stage that succeeded or failed terminally keeps its status and its
\* artifact whatever later callers do.
SettledIsFinal ==
    [][\A h \in Hashes : Settled(h) =>
          status'[h] = status[h] /\ artifact'[h] = artifact[h]]_storeVars

\* The history of attempts is only ever extended: a closed attempt row is
\* never rewritten, and an attempt row never changes its runner.
ClosedAttemptsKept ==
    [][\A h \in Hashes, k \in 1..MaxAttempts :
          /\ log[h][k].status \notin {"none", "running"} => log'[h][k] = log[h][k]
          /\ log[h][k] # NoRow => log'[h][k].runner = log[h][k].runner]_storeVars

\* No one takes a stage away from a runner whose lease has not expired,
\* although reclaim_expired_leases and claim_next_stage compare with a time
\* that was read before they got the lock.
LiveLeaseKept ==
    [][\A h \in Hashes : status[h] = "running" /\ leaseLeft[h] >= 0 =>
          \/ owner'[h] = owner[h] /\ attempt'[h] = attempt[h]
          \/ status'[h] \in {"succeeded", "failed_retryable", "failed_terminal"}]_storeVars

\* What a user of the store sees of a stage (see StageDataflow).
Outcome == [h \in Hashes |->
               IF status[h] = "succeeded" THEN "done"
               ELSE IF status[h] = "failed_terminal" THEN "failed" ELSE "open"]
Output == [h \in Hashes |->
              IF status[h] = "succeeded" THEN artifact[h] ELSE NoArtifact]

Promise == INSTANCE StageDataflow WITH
    Stages <- Hashes, Outputs <- Artifacts, NoOutput <- NoArtifact,
    outcome <- Outcome, output <- Output

\* Leases, retries, crashes of runners, late calls and reclaims never show:
\* each stage is settled at most once, with one output or as failed, and only
\* when all its parents have their outputs.
ImplementsDataflow == Promise!Spec
=============================================================================
