---------------------------- MODULE StageRunner -----------------------------
(***************************************************************************)
(* AsyncStageRunner (src/baroque/orchestration/runner.py) over the store:  *)
(* the loop of run_until_idle, alone or under run_forever, one asyncio     *)
(* task per claimed stage (_execute_stage) and its heartbeat task.         *)
(*                                                                         *)
(* Code between two awaits is one step; what may happen at an await is     *)
(* interleaved: the other tasks, the other runners of the process, the     *)
(* clock, stop(), cancellation, and the death of the process.  Every call  *)
(* of the store runs in a thread (asyncio.to_thread), which cancelling the *)
(* awaiting task does not stop: such a call may still take effect later    *)
(* (the "late" states).                                                    *)
(*                                                                         *)
(* A handler is external here: it returns or raises.  What it stores       *)
(* contains the attempt number of the record it was given (_stage_summary  *)
(* in src/baroque/agents/prompt_only.py), so an artifact is that number.   *)
(*                                                                         *)
(* Not covered: the event records themselves and RunnerStats.reclaimed,    *)
(* which only feed the log; a heartbeat or a reclaim that is in its thread *)
(* when its task is cancelled (the first renews a lease, the second is     *)
(* what any other runner may do at that time).                             *)
(***************************************************************************)
EXTENDS LeaseStore

CONSTANTS
    Slots,          \* as many as max_concurrent_stages
    NoStage,
    PlanOrder,      \* the planned stages in the order they were added
    Forever,        \* TRUE: run_forever; FALSE: one call of run_until_idle
    MaxClaims,      \* the max_claims argument (more than can be claimed: None)
    Unhandled,      \* stages of a type no handler is registered for
    SinkFails,      \* TRUE: the event sink may raise
    FlakyAttempts,  \* bound: attempts in which a handler may fail retryably
    MaxCrashes      \* bound: deaths of the process

ASSUME RunnerAssumption ==
    /\ Runners # {}
    /\ IsFiniteSet(Slots) /\ Slots # {}
    /\ NoStage \notin Hashes
    /\ PlanOrder \in Seq(Hashes) /\ ToSet(PlanOrder) = Hashes
    /\ Forever \in BOOLEAN
    /\ SinkFails \in BOOLEAN
    /\ Unhandled \subseteq Hashes
    /\ MaxClaims \in Nat /\ FlakyAttempts \in Nat /\ MaxCrashes \in Nat
    /\ 1..MaxAttempts \subseteq Artifacts

VARIABLES
    pc,        \* where the main coroutine of each runner is
    picked,    \* the stage claimed but not yet re-read
    fresh,     \* next_reclaim_after is still 0.0
    tasks,     \* the task in each slot
    stats,     \* RunnerStats of the current call of run_until_idle
    stopping,  \* _stop_event
    crashes

runnerVars == <<pc, picked, fresh, tasks, stats, stopping, crashes>>
vars == <<storeVars, runnerVars>>

Looping == {"start", "top", "claim", "reread", "empty", "wait", "idle"}
Over    == {"returned", "raised", "cancelled"}

Working == {"starting", "handling", "completing", "reporting_success",
            "failing", "reporting_failure"}
Results == {"succeeded", "failed_retryable", "failed_terminal"}
Late    == {"late_completing", "late_failing"}

\* retryable: what the exception being handled says
FreeTask == [pc |-> "free", stage |-> NoStage, attempt |-> 0,
             retryable |-> FALSE, beating |-> FALSE]
NoStats == [claimed |-> 0, succeeded |-> 0, failed_retryable |-> 0, failed_terminal |-> 0]

InFlight(r) == {s \in Slots : tasks[r][s].pc # "free"}
Done(r) == {s \in Slots : tasks[r][s].pc \in Results \cup {"raised"}}

\* stats.plus(...) of the tasks in `slots` that returned a result
Tally(r, slots) ==
    LET Count(result) == Cardinality({s \in slots : tasks[r][s].pc = result}) IN
    [claimed |-> stats[r].claimed,
     succeeded |-> stats[r].succeeded + Count("succeeded"),
     failed_retryable |-> stats[r].failed_retryable + Count("failed_retryable"),
     failed_terminal |-> stats[r].failed_terminal + Count("failed_terminal")]

Goto(r, label) == pc' = [pc EXCEPT ![r] = label]

\* run_until_idle returns: to run_forever, or to its caller.
Returns(r) == Goto(r, IF Forever THEN "idle" ELSE "returned")

\* The plan has been added to the store: every stage is pending.
SeededStore ==
    /\ status = [h \in Hashes |-> "pending"]
    /\ order = PlanOrder
    /\ attempt = [h \in Hashes |-> 0]
    /\ owner = [h \in Hashes |-> NoRunner]
    /\ leaseLeft = [h \in Hashes |-> 0]
    /\ retryLeft = [h \in Hashes |-> 0]
    /\ artifact = [h \in Hashes |-> NoArtifact]
    /\ log = [h \in Hashes |-> [k \in 1..MaxAttempts |-> NoRow]]

RunnerInit ==
    /\ SeededStore
    /\ pc = [r \in Runners |-> IF Forever THEN "start" ELSE "top"]
    /\ picked = [r \in Runners |-> NoStage]
    /\ fresh = [r \in Runners |-> TRUE]
    /\ tasks = [r \in Runners |-> [s \in Slots |-> FreeTask]]
    /\ stats = [r \in Runners |-> NoStats]
    /\ stopping = [r \in Runners |-> FALSE]
    /\ crashes = 0

-----------------------------------------------------------------------------
(***************************************************************************)
(* run_forever around run_until_idle.                                      *)
(***************************************************************************)

\* emit("runner.started"), before the try statement
Start(r) ==
    /\ pc[r] = "start"
    /\ \/ Goto(r, "top")
       \/ SinkFails /\ Goto(r, "raised")
    /\ UNCHANGED <<storeVars, picked, fresh, tasks, stats, stopping, crashes>>

\* Mutated form of Idle: the stop event is not looked at.
IdleForever(r) ==
    /\ pc[r] = "idle"
    /\ Goto(r, "top")
    /\ fresh' = [fresh EXCEPT ![r] = TRUE]
    /\ stats' = [stats EXCEPT ![r] = NoStats]
    /\ UNCHANGED <<storeVars, picked, tasks, stopping, crashes>>

\* emit("runner.idle"), sleep, and the next call of run_until_idle
Idle(r) ==
    /\ pc[r] = "idle"
    /\ \/ SinkFails /\ Goto(r, "raised") /\ UNCHANGED <<fresh, stats>>
       \/ stopping[r] /\ Goto(r, "returned") /\ UNCHANGED <<fresh, stats>>
       \/ /\ ~stopping[r]
          /\ Goto(r, "top")
          /\ fresh' = [fresh EXCEPT ![r] = TRUE]
          /\ stats' = [stats EXCEPT ![r] = NoStats]
    /\ UNCHANGED <<storeVars, picked, tasks, stopping, crashes>>

(***************************************************************************)
(* The loop of run_until_idle.                                             *)
(***************************************************************************)

\* What cancelling a task leaves: a store call that is in its thread runs on.
Cancelled(t) ==
    CASE t.pc = "completing" -> [t EXCEPT !.pc = "late_completing", !.beating = FALSE]
      [] t.pc = "failing" -> [t EXCEPT !.pc = "late_failing", !.beating = FALSE]
      [] t.pc \in Late -> t
      [] OTHER -> FreeTask

CancelAll(r) == [tasks EXCEPT ![r] = [s \in Slots |-> Cancelled(tasks[r][s])]]

\* The loop test fails: the tasks in flight are cancelled, and gathering them
\* counts those that had finished.
Drain(r) ==
    /\ pc[r] = "top"
    /\ stopping[r]
    /\ tasks' = CancelAll(r)
    /\ stats' = [stats EXCEPT ![r] = Tally(r, Slots)]
    /\ Returns(r)
    /\ UNCHANGED <<storeVars, picked, fresh, stopping, crashes>>

\* The reclaim interval has passed (it always has on the first turn).
ReclaimLeases(r, lag) ==
    /\ pc[r] = "top"
    /\ ~stopping[r]
    /\ fresh' = [fresh EXCEPT ![r] = FALSE]
    /\ \/ Reclaim(lag) /\ (Goto(r, "claim") \/ (SinkFails /\ Goto(r, "raised")))
       \/ Expired(lag) = {} /\ Goto(r, "claim") /\ UNCHANGED storeVars
    /\ UNCHANGED <<picked, tasks, stats, stopping, crashes>>

SkipReclaim(r) ==
    /\ pc[r] = "top"
    /\ ~stopping[r]
    /\ ~fresh[r]
    /\ Goto(r, "claim")
    /\ UNCHANGED <<storeVars, picked, fresh, tasks, stats, stopping, crashes>>

MayClaim(r) ==
    /\ Cardinality(InFlight(r)) < Cardinality(Slots)
    /\ stats[r].claimed < MaxClaims

\* The transaction of claim_next_stage; the thread still has to re-read.
ClaimStage(r, h, lag) ==
    /\ pc[r] = "claim"
    /\ MayClaim(r)
    /\ Claim(h, r, lag)
    /\ picked' = [picked EXCEPT ![r] = h]
    /\ Goto(r, "reread")
    /\ UNCHANGED <<fresh, tasks, stats, stopping, crashes>>

\* The record the runner works with is the row as it is NOW, which may
\* already be another attempt's.
Spawn(r, s) ==
    /\ pc[r] = "reread"
    /\ tasks[r][s] = FreeTask
    /\ tasks' = [tasks EXCEPT ![r][s] =
                    [FreeTask EXCEPT !.pc = "starting", !.stage = picked[r],
                                     !.attempt = attempt[picked[r]]]]
    /\ picked' = [picked EXCEPT ![r] = NoStage]
    /\ stats' = [stats EXCEPT ![r].claimed = @ + 1]
    /\ Goto(r, "claim")
    /\ UNCHANGED <<storeVars, fresh, stopping, crashes>>

\* claim_next_stage finds nothing, under the store's lock; the loop hears of
\* it when its coroutine resumes, and others may change the store until then.
NoStageFound(r, lag) ==
    /\ pc[r] = "claim"
    /\ MayClaim(r)
    /\ NothingToClaim(lag)
    /\ Goto(r, "empty")
    /\ UNCHANGED <<storeVars, picked, fresh, tasks, stats, stopping, crashes>>

ClaimLoopEnds(r) == pc[r] = "empty" \/ (pc[r] = "claim" /\ ~MayClaim(r))

\* Mutated form of StopClaiming: tasks that are done, but not yet collected,
\* do not count as in flight.
StopClaimingPruning(r) ==
    /\ ClaimLoopEnds(r)
    /\ IF InFlight(r) \ Done(r) = {} THEN Returns(r) ELSE Goto(r, "wait")
    /\ UNCHANGED <<storeVars, picked, fresh, tasks, stats, stopping, crashes>>

\* The test of in_flight after the claim loop: nothing was found, or there is
\* no room for more.
StopClaiming(r) ==
    /\ ClaimLoopEnds(r)
    /\ IF InFlight(r) = {} THEN Returns(r) ELSE Goto(r, "wait")
    /\ UNCHANGED <<storeVars, picked, fresh, tasks, stats, stopping, crashes>>

\* Mutated form of Collect: in_flight is emptied when some tasks are done.
CollectForgetting(r) ==
    /\ pc[r] = "wait"
    /\ \A s \in Done(r) : tasks[r][s].pc # "raised"
    /\ tasks' = IF Done(r) = {} THEN tasks
                ELSE [tasks EXCEPT ![r] = [s \in Slots |-> FreeTask]]
    /\ stats' = [stats EXCEPT ![r] = Tally(r, Done(r))]
    /\ Goto(r, "top")
    /\ UNCHANGED <<storeVars, picked, fresh, stopping, crashes>>

\* asyncio.wait returned the finished tasks, none of which raised; without
\* any it timed out after idle_sleep_s.
Collect(r) ==
    LET left == InFlight(r) \ Done(r) IN
    /\ pc[r] = "wait"
    /\ \A s \in Done(r) : tasks[r][s].pc # "raised"
    /\ tasks' = [tasks EXCEPT ![r] =
                    [s \in Slots |-> IF s \in Done(r) THEN FreeTask ELSE tasks[r][s]]]
    /\ stats' = [stats EXCEPT ![r] = Tally(r, Done(r))]
    /\ IF stats[r].claimed >= MaxClaims /\ left = {} THEN Returns(r) ELSE Goto(r, "top")
    /\ UNCHANGED <<storeVars, picked, fresh, stopping, crashes>>

\* task.result() raises out of the loop; the tasks still pending are neither
\* cancelled nor awaited.
CollectRaises(r) ==
    /\ pc[r] = "wait"
    /\ \E s \in Done(r) : tasks[r][s].pc = "raised"
    /\ tasks' = [tasks EXCEPT ![r] =
                    [s \in Slots |-> IF s \in Done(r) THEN FreeTask ELSE tasks[r][s]]]
    /\ Goto(r, "raised")
    /\ UNCHANGED <<storeVars, picked, fresh, stats, stopping, crashes>>

-----------------------------------------------------------------------------
(***************************************************************************)
(* _execute_stage and _heartbeat_until_done.                               *)
(***************************************************************************)
At(r, s, label) == tasks[r][s].pc = label

TaskGoto(r, s, label) ==
    tasks' = [tasks EXCEPT ![r][s].pc = label,
                           ![r][s].beating = @ /\ label \in Working]

OnlyTasks == UNCHANGED <<pc, picked, fresh, stats, stopping, crashes>>

Raising(r, s, retryable) ==
    tasks' = [tasks EXCEPT ![r][s].pc = "failing", ![r][s].retryable = retryable]

\* emit("stage.claimed") comes before the try statement and the heartbeat.
\* A missing handler is a StageExecutionError that is not retryable.
Begin(r, s) ==
    /\ At(r, s, "starting")
    /\ \/ tasks' = [tasks EXCEPT ![r][s].beating = TRUE,
                       ![r][s].pc = IF tasks[r][s].stage \in Unhandled
                                    THEN "failing" ELSE "handling"]
       \/ SinkFails /\ TaskGoto(r, s, "raised")
    /\ UNCHANGED storeVars
    /\ OnlyTasks

HandlerReturns(r, s) ==
    /\ At(r, s, "handling")
    /\ TaskGoto(r, s, "completing")
    /\ UNCHANGED storeVars
    /\ OnlyTasks

\* A StageExecutionError says whether it is retryable; any other exception is.
HandlerRaises(r, s) ==
    /\ At(r, s, "handling")
    /\ \E retryable \in BOOLEAN :
          /\ retryable => tasks[r][s].attempt <= FlakyAttempts
          /\ Raising(r, s, retryable)
    /\ UNCHANGED storeVars
    /\ OnlyTasks

\* Mutated forms of CompleteStage: its RuntimeError is swallowed; the call is
\* repeated after it succeeded.
CompleteStageSwallowing(r, s) ==
    LET h == tasks[r][s].stage IN
    /\ At(r, s, "completing")
    /\ TaskGoto(r, s, "reporting_success")
    /\ Complete(h, r, tasks[r][s].attempt) \/ (~Leased(h, r) /\ UNCHANGED storeVars)
    /\ OnlyTasks
CompleteStageTwice(r, s) ==
    LET h == tasks[r][s].stage IN
    /\ At(r, s, "completing")
    /\ \/ Complete(h, r, tasks[r][s].attempt) /\ UNCHANGED tasks
       \/ ~Leased(h, r) /\ Raising(r, s, TRUE) /\ UNCHANGED storeVars
    /\ OnlyTasks

\* complete_stage: its RuntimeError is an exception like any other here.
CompleteStage(r, s) ==
    LET h == tasks[r][s].stage IN
    /\ At(r, s, "completing")
    /\ \/ Complete(h, r, tasks[r][s].attempt) /\ TaskGoto(r, s, "reporting_success")
       \/ ~Leased(h, r) /\ Raising(r, s, TRUE) /\ UNCHANGED storeVars
    /\ OnlyTasks

\* emit("stage.succeeded") is inside the try statement as well.
ReportSuccess(r, s) ==
    /\ At(r, s, "reporting_success")
    /\ \/ TaskGoto(r, s, "succeeded")
       \/ SinkFails /\ Raising(r, s, TRUE)
    /\ UNCHANGED storeVars
    /\ OnlyTasks

\* fail_stage, in an except clause: its RuntimeError leaves the task.
FailStage(r, s, lag) ==
    LET t == tasks[r][s] IN
    /\ t.pc = "failing"
    /\ \/ Fail(t.stage, r, t.retryable, lag) /\ TaskGoto(r, s, "reporting_failure")
       \/ ~Leased(t.stage, r) /\ TaskGoto(r, s, "raised") /\ UNCHANGED storeVars
    /\ OnlyTasks

ReportFailure(r, s) ==
    /\ At(r, s, "reporting_failure")
    /\ \/ TaskGoto(r, s, IF tasks[r][s].retryable
                         THEN "failed_retryable" ELSE "failed_terminal")
       \/ SinkFails /\ TaskGoto(r, s, "raised")
    /\ UNCHANGED storeVars
    /\ OnlyTasks

\* One turn of the heartbeat task.  A failed heartbeat is only reported; if
\* the report itself raises, the heartbeat task ends and nobody notices.
Beat(r, s, lag) ==
    LET h == tasks[r][s].stage IN
    /\ tasks[r][s].beating
    /\ \/ Heartbeat(h, r, lag)
       \/ ~Leased(h, r) /\ UNCHANGED storeVars
    /\ \/ UNCHANGED tasks
       \/ SinkFails /\ tasks' = [tasks EXCEPT ![r][s].beating = FALSE]
    /\ OnlyTasks

\* The thread of a cancelled task's store call gets to the store after all,
\* or the call fails, or the thread had not started when it was cancelled.
LateCall(r, s, lag) ==
    LET t == tasks[r][s] IN
    /\ t.pc \in Late
    /\ tasks' = [tasks EXCEPT ![r][s] = FreeTask]
    /\ \/ t.pc = "late_completing" /\ Complete(t.stage, r, t.attempt)
       \/ t.pc = "late_failing" /\ Fail(t.stage, r, t.retryable, lag)
       \/ UNCHANGED storeVars
    /\ OnlyTasks

-----------------------------------------------------------------------------
(***************************************************************************)
(* The surroundings: stop(), cancellation, the event loop and the process. *)
(***************************************************************************)
Stop(r) ==
    /\ pc[r] \in Looping
    /\ ~stopping[r]
    /\ stopping' = [stopping EXCEPT ![r] = TRUE]
    /\ UNCHANGED <<storeVars, pc, picked, fresh, tasks, stats, crashes>>

\* run_forever is cancelled at an await: it sets _stop_event, and no one
\* cancels the tasks in flight.  A claim in its thread runs on.
CancelMain(r) ==
    /\ Forever
    /\ pc[r] \in Looping
    /\ Goto(r, IF pc[r] = "claim" /\ MayClaim(r) THEN "late_claim" ELSE "cancelled")
    /\ stopping' = [stopping EXCEPT ![r] = TRUE]
    /\ picked' = [picked EXCEPT ![r] = NoStage]
    /\ UNCHANGED <<storeVars, fresh, tasks, stats, crashes>>

LateClaim(r, lag) ==
    /\ pc[r] = "late_claim"
    /\ Goto(r, "cancelled")
    /\ \/ \E h \in Hashes : Claim(h, r, lag)
       \/ UNCHANGED storeVars
    /\ UNCHANGED <<picked, fresh, tasks, stats, stopping, crashes>>

\* asyncio.run cancels what is left when the main coroutine is over.
ExitLoop(r) ==
    /\ pc[r] \in Over
    /\ \E s \in Slots : tasks[r][s].pc \notin {"free"} \cup Late
    /\ tasks' = CancelAll(r)
    /\ UNCHANGED storeVars
    /\ OnlyTasks

\* The process dies between two steps, with all its runners, tasks and
\* threads, and is started again with the same runner ids.
Crash ==
    /\ crashes < MaxCrashes
    /\ crashes' = crashes + 1
    /\ pc' = [r \in Runners |-> IF Forever THEN "start" ELSE "top"]
    /\ picked' = [r \in Runners |-> NoStage]
    /\ fresh' = [r \in Runners |-> TRUE]
    /\ tasks' = [r \in Runners |-> [s \in Slots |-> FreeTask]]
    /\ stats' = [r \in Runners |-> NoStats]
    /\ stopping' = [r \in Runners |-> FALSE]
    /\ UNCHANGED storeVars

PassTime == Tick /\ UNCHANGED runnerVars

MainStep(r) ==
    \/ Start(r)
    \/ Idle(r)
    \/ Drain(r)
    \/ \E lag \in Lags : ReclaimLeases(r, lag)
    \/ SkipReclaim(r)
    \/ \E h \in Hashes, lag \in Lags : ClaimStage(r, h, lag)
    \/ \E s \in Slots : Spawn(r, s)
    \/ \E lag \in Lags : NoStageFound(r, lag)
    \/ StopClaiming(r)
    \/ Collect(r)
    \/ CollectRaises(r)

TaskStep(r, s) ==
    \/ Begin(r, s)
    \/ HandlerReturns(r, s)
    \/ HandlerRaises(r, s)
    \/ CompleteStage(r, s)
    \/ ReportSuccess(r, s)
    \/ \E lag \in Lags : FailStage(r, s, lag)
    \/ ReportFailure(r, s)

Interruption(r) ==
    \/ Stop(r)
    \/ CancelMain(r)
    \/ \E lag \in Lags : LateClaim(r, lag)
    \/ ExitLoop(r)
    \/ \E s \in Slots, lag \in Lags : LateCall(r, s, lag)

RunnerNext ==
    \/ \E r \in Runners : MainStep(r) \/ Interruption(r)
    \/ \E r \in Runners, s \in Slots : TaskStep(r, s) \/ \E lag \in Lags : Beat(r, s, lag)
    \/ Crash
    \/ PassTime

RunnerSpec == RunnerInit /\ [][RunnerNext]_vars

(***************************************************************************)
(* Liveness is claimed only where the code can deliver it: nobody cancels  *)
(* run_forever, a handler always returns or raises, and heartbeats are     *)
(* prompt, that is time does not take a lease that a live task or a claim  *)
(* in progress still has to its end.  Then every coroutine that can move   *)
(* moves (the event loop is fair), and the clock advances.                 *)
(***************************************************************************)
InHand(h) ==
    \E r \in Runners :
        /\ owner[h] = r
        /\ picked[r] = h \/ \E s \in Slots : /\ tasks[r][s].stage = h
                                            /\ tasks[r][s].pc \in Working

PromptTime ==
    /\ \A h \in Hashes : status[h] = "running" /\ InHand(h) => leaseLeft[h] > 0
    /\ PassTime

BeatAny(r, s) == \E lag \in Lags : Beat(r, s, lag)

LiveNext ==
    \/ \E r \in Runners : MainStep(r)
    \/ \E r \in Runners, s \in Slots : TaskStep(r, s) \/ BeatAny(r, s)
    \/ Crash
    \/ PromptTime

Shutdown ==
    \/ \E r \in Runners : Stop(r) \/ ExitLoop(r)
    \/ \E r \in Runners, s \in Slots, lag \in Lags : LateCall(r, s, lag)

Fairness ==
    /\ WF_vars(PromptTime)
    /\ \A r \in Runners : WF_vars(MainStep(r))
    /\ \A r \in Runners, s \in Slots : WF_vars(TaskStep(r, s)) /\ WF_vars(BeatAny(r, s))

LiveSpec == RunnerInit /\ [][LiveNext \/ Shutdown]_vars /\ Fairness

-----------------------------------------------------------------------------
(***************************************************************************)
(* Properties.                                                             *)
(***************************************************************************)

\* While a runner is in its loop, every lease it holds is in someone's hand:
\* being re-read after the claim, worked on by a task, or held by a task that
\* raised and is about to end the loop.  Only a stop or a crash leaves a stage
\* running that nobody works on.
LeaseHasWorker ==
    \A h \in Hashes, r \in Runners :
        Leased(h, r) /\ pc[r] \in Looping /\ ~stopping[r] /\ crashes = 0 =>
            \/ picked[r] = h
            \/ \E s \in Slots : /\ tasks[r][s].stage = h
                               /\ tasks[r][s].pc \in Working \cup {"raised"}

\* Every success or failure a runner counts, or is about to count, was
\* recorded in the store by that runner: stats never claim work the store
\* does not know of.
OutcomesRecorded ==
    \A r \in Runners :
        LET counted == Tally(r, Slots)
            Recorded(result) ==
                Cardinality({e \in Hashes \X (1..MaxAttempts) :
                                /\ log[e[1]][e[2]].runner = r
                                /\ log[e[1]][e[2]].status = result})
        IN  /\ counted.succeeded <= Recorded("succeeded")
            /\ counted.failed_retryable <= Recorded("failed_retryable")
            /\ counted.failed_terminal <= Recorded("failed_terminal")

\* When run_until_idle returns of itself, each of its claims is accounted for
\* by exactly one outcome and no task of it is left behind.
ClaimsAccountedFor ==
    \A r \in Runners :
        pc[r] \in {"idle", "returned"} /\ ~stopping[r] =>
            /\ InFlight(r) = {}
            /\ stats[r].claimed = stats[r].succeeded + stats[r].failed_retryable
                                    + stats[r].failed_terminal

\* The artifact of a stage that succeeded is the one its successful attempt
\* produced, not what an earlier attempt, which lost its lease, came up with
\* in the meantime (docs/storage-strategy.md: "the successful attempt gets
\* its own artifact hash").
AttemptProvenance ==
    \A h \in Hashes : status[h] = "succeeded" => artifact[h] = attempt[h]

\* A handler works only while what it reads, its parents' artifacts, is there
\* and final.
HandlersSeeParents ==
    \A r \in Runners, s \in Slots :
        tasks[r][s].pc = "handling" => ParentsSucceeded(tasks[r][s].stage)

Runnable(h) == status[h] \in {"pending", "abandoned"} /\ ParentsSucceeded(h)

\* "Run claimed work until no runnable stages remain" (runner.py:83): at the
\* step with which run_until_idle returns because there was nothing to claim,
\* there is no stage that waits for nothing but a runner.
IdleMeansNothingRunnable ==
    [][\A r \in Runners :
          pc[r] = "empty" /\ pc'[r] \in {"idle", "returned"} =>
              \A h \in Hashes : ~Runnable(h)]_vars

\* The rows among which claim_next_stage looks, or will look.
WaitingRows ==
    {i \in DOMAIN order : status[order[i]] \in {"pending", "abandoned", "failed_retryable"}}

\* No wakeup is lost.  What a runner found, or did not find, is out of date
\* when its coroutine resumes: another runner may have finished a parent or
\* taken a lease back in between.  That runner is then still in its loop and
\* looks again, so when all runners have gone idle no stage waits for nothing
\* but a runner.  The exceptions: runners that were stopped or have used up
\* max_claims, rows cut off by the LIMIT of the claim query, and retries, which
\* come due by the clock while everyone sleeps.
NoWorkOverlooked ==
    (\A r \in Runners : /\ pc[r] \in {"idle", "returned"}
                        /\ ~stopping[r]
                        /\ stats[r].claimed < MaxClaims) =>
        \A h \in Hashes : Runnable(h) => Cardinality(WaitingRows) > ClaimLimit

\* "Run continuously until `stop` is called or the task is cancelled"
\* (runner.py:135).
RunsUntilStopped == \A r \in Runners : pc[r] # "raised"

\* A stage whose parents have succeeded is eventually settled, whatever its
\* handler raises and although the process dies, unless all runners are told
\* to stop (docs/scaling-and-operations, "the stage was not completed and can
\* be reclaimed after its lease expires").
EveryReadyStageSettles ==
    \A h \in Hashes :
        ParentsSucceeded(h) ~> (Settled(h) \/ \A r \in Runners : stopping[r])

\* A runner that is told to stop leaves its loop, unless it dies before; it
\* never waits for a task that does not end.
StopIsHeeded ==
    \A r \in Runners : stopping[r] ~> (pc[r] \in Over \/ ~stopping[r])
=============================================================================
