------------------------- MODULE RunnerOutcomeProofs --------------------------
(***************************************************************************)
(* Theorems about StageRunner: what becomes of the work of runners.        *)
(*                                                                         *)
(* Which attempt the output of a stage is of: complete_stage checks the    *)
(* owner of the lease, not the attempt, so it is the runner that must not  *)
(* let a task of an attempt that lost its lease finish a later one.  It    *)
(* does not with one slot, nor when heartbeats are prompt; otherwise it    *)
(* may, as the run runner_zombie shows.                                    *)
(*                                                                         *)
(* What RunnerStats counts: it was recorded in the store, and what         *)
(* run_until_idle claimed it accounts for.                                 *)
(***************************************************************************)
EXTENDS StageRunnerProofs

-----------------------------------------------------------------------------
(***************************************************************************)
(* Who changes what.                                                       *)
(***************************************************************************)

\* Only a claim counts an attempt, and only of a stage nobody works on.
LEMMA AttemptFixed ==
    ASSUME IInv, [StoreNext]_storeVars, NEW h \in Hashes,
           status[h] \in {"running", "succeeded"}
    PROVE  attempt'[h] = attempt[h]
<1>1. StoreTypeOK
  BY DEF IInv
<1>2. ASSUME NEW g \in Hashes, NEW r \in Runners, NEW lag \in Lags, Claim(g, r, lag)
      PROVE  attempt'[h] = attempt[h]
  <2>1. g # h
    BY <1>1, <1>2, FirstRunnableFacts DEF Claim, Selectable
  <2> QED BY <1>1, <1>2, <2>1 DEF Claim, StoreTypeOK
<1>3. ASSUME ~ \E g \in Hashes, r \in Runners, lag \in Lags : Claim(g, r, lag)
      PROVE  attempt' = attempt
  BY <1>3 DEF StoreNext, InsertStage, Heartbeat, Complete, Fail, Reclaim, Tick, storeVars
<1> QED BY <1>2, <1>3

\* A stage succeeds by the call of a task that has it, in time or late.
LEMMA CompletedByTask ==
    ASSUME RunnerInv, [RunnerNext]_vars, NEW h \in Hashes,
           status[h] # "succeeded", status'[h] = "succeeded"
    PROVE  \E r \in Runners, s \in Slots :
              /\ tasks[r][s].pc \in {"completing", "late_completing"}
              /\ tasks[r][s].stage = h
              /\ Complete(h, r, tasks[r][s].attempt)
<1> DEFINE Goal == \E r \in Runners, s \in Slots :
                      /\ tasks[r][s].pc \in {"completing", "late_completing"}
                      /\ tasks[r][s].stage = h
                      /\ Complete(h, r, tasks[r][s].attempt)
<1>1. StoreTypeOK
  BY DEF RunnerInv, IInv
<1>2. ~(UNCHANGED storeVars) /\ ~(UNCHANGED status)
  BY DEF storeVars
<1>3. ASSUME NEW g, NEW r, NEW lag, Claim(g, r, lag) PROVE FALSE
  BY <1>1, <1>3 DEF Claim, StoreTypeOK
<1>4. ASSUME NEW g, NEW r, NEW retryable, NEW lag, Fail(g, r, retryable, lag) PROVE FALSE
  BY <1>1, <1>4 DEF Fail, StoreTypeOK
<1>5. ASSUME NEW lag, Reclaim(lag) PROVE FALSE
  BY <1>1, <1>5 DEF Reclaim, StoreTypeOK
<1>6. ASSUME NEW r \in Runners, NEW s \in Slots,
             tasks[r][s].pc \in {"completing", "late_completing"},
             Complete(tasks[r][s].stage, r, tasks[r][s].attempt)
      PROVE  Goal
  <2>1. tasks[r][s].stage = h
    BY <1>1, <1>6 DEF Complete, StoreTypeOK
  <2> QED BY <1>6, <2>1
<1>7. ASSUME NEW r \in Runners, MainStep(r) PROVE FALSE
  <2>1. ASSUME NEW lag \in Lags, ReclaimLeases(r, lag) PROVE FALSE
    BY <1>2, <1>5, <2>1 DEF ReclaimLeases
  <2>2. ASSUME NEW g \in Hashes, NEW lag \in Lags, ClaimStage(r, g, lag) PROVE FALSE
    BY <1>3, <2>2 DEF ClaimStage
  <2>3. ASSUME \/ Start(r) \/ Idle(r) \/ Drain(r) \/ SkipReclaim(r)
               \/ (\E s \in Slots : Spawn(r, s)) \/ (\E lag \in Lags : NoStageFound(r, lag))
               \/ StopClaiming(r)
               \/ Collect(r) \/ CollectRaises(r)
        PROVE  FALSE
    BY <1>2, <2>3 DEF Start, Idle, Drain, SkipReclaim, Spawn, NoStageFound, StopClaiming,
                      Collect, CollectRaises
  <2> QED BY <1>7, <2>1, <2>2, <2>3 DEF MainStep
<1>8. ASSUME NEW r \in Runners, Interruption(r) PROVE Goal
  <2>1. ASSUME NEW s \in Slots, NEW lag \in Lags, LateCall(r, s, lag) PROVE Goal
    BY <1>2, <1>4, <1>6, <2>1 DEF LateCall
  <2>2. ASSUME NEW lag \in Lags, LateClaim(r, lag) PROVE FALSE
    BY <1>2, <1>3, <2>2 DEF LateClaim
  <2>3. ~Stop(r) /\ ~CancelMain(r) /\ ~ExitLoop(r)
    BY <1>2 DEF Stop, CancelMain, ExitLoop
  <2> QED BY <1>8, <2>1, <2>2, <2>3 DEF Interruption
<1>9. ASSUME NEW r \in Runners, NEW s \in Slots, TaskStep(r, s) PROVE Goal
  <2>1. CASE CompleteStage(r, s)
    BY <1>2, <1>6, <2>1 DEF CompleteStage, At
  <2>2. ASSUME NEW lag \in Lags, FailStage(r, s, lag) PROVE FALSE
    BY <1>2, <1>4, <2>2 DEF FailStage
  <2>3. /\ ~Begin(r, s) /\ ~HandlerReturns(r, s) /\ ~HandlerRaises(r, s)
        /\ ~ReportSuccess(r, s) /\ ~ReportFailure(r, s)
    BY <1>2 DEF Begin, HandlerReturns, HandlerRaises, ReportSuccess, ReportFailure
  <2> QED BY <1>9, <2>1, <2>2, <2>3 DEF TaskStep
<1>10. ASSUME NEW r \in Runners, NEW s \in Slots, NEW lag \in Lags, Beat(r, s, lag)
       PROVE  FALSE
  BY <1>2, <1>10 DEF Beat, Heartbeat
<1>11. ~Crash /\ ~PassTime /\ ~(UNCHANGED vars)
  BY <1>2 DEF Crash, PassTime, Tick, vars
<1> QED BY <1>7, <1>8, <1>9, <1>10, <1>11 DEF RunnerNext

\* A task that can finish its stage is of the attempt the stage's row shows.
Current(r, s) ==
    tasks[r][s].pc # "free" /\ Leased(tasks[r][s].stage, r) =>
        attempt[tasks[r][s].stage] = tasks[r][s].attempt

\* That is all the output of a stage depends on.
LEMMA ProvenanceStep ==
    ASSUME RunnerInv, AttemptProvenance, [RunnerNext]_vars,
           \A r \in Runners, s \in Slots :
              tasks[r][s].pc \in {"completing", "late_completing"} => Current(r, s)
    PROVE  AttemptProvenance'
<1> SUFFICES ASSUME NEW h \in Hashes, status'[h] = "succeeded"
             PROVE  artifact'[h] = attempt'[h]
  BY DEF AttemptProvenance
<1>1. IInv /\ [StoreNext]_storeVars
  BY RunnerStoreStep DEF RunnerInv
<1>2. CASE status[h] = "succeeded"
  BY <1>1, <1>2, SettledStep, AttemptFixed DEF Settled, AttemptProvenance
<1>3. CASE status[h] # "succeeded"
  <2>1. PICK r \in Runners, s \in Slots :
                /\ tasks[r][s].pc \in {"completing", "late_completing"}
                /\ tasks[r][s].stage = h
                /\ Complete(h, r, tasks[r][s].attempt)
    BY <1>3, CompletedByTask
  <2>2. attempt[h] = tasks[r][s].attempt
    BY <2>1 DEF Current, Complete
  <2>3. artifact'[h] = tasks[r][s].attempt /\ attempt' = attempt
    BY <1>1, <2>1 DEF Complete, IInv, StoreTypeOK
  <2> QED BY <2>2, <2>3
<1> QED BY <1>2, <1>3

-----------------------------------------------------------------------------
(***************************************************************************)
(* One slot: a runner claims only when it has no task, not even one that   *)
(* was cancelled and has a call that runs on, so the task it has is of the *)
(* last attempt that it claimed.                                           *)
(***************************************************************************)
Claiming(r) == pc[r] \in {"reread", "late_claim"}

OneTaskInv ==
    \A r \in Runners, s \in Slots :
        /\ tasks[r][s].pc # "free" => ~Claiming(r)
        /\ Current(r, s)

\* What becomes a claim was one, or the runner had room for it.
LEMMA ClaimingFrom ==
    ASSUME RunnerInv, [RunnerNext]_vars, NEW r \in Runners, Claiming(r)'
    PROVE  Claiming(r) \/ MayClaim(r)
<1> USE DEF Claiming
<1>1. pc \in [Runners -> Looping \cup Over \cup {"late_claim"}]
  BY DEF RunnerInv, RunnerTypeOK
<1>2. ASSUME NEW q \in Runners, MainStep(q) PROVE Claiming(r) \/ MayClaim(r)
  BY <1>1, <1>2 DEF MainStep, Start, Idle, Drain, ReclaimLeases, SkipReclaim, ClaimStage,
                    Spawn, NoStageFound, StopClaiming, ClaimLoopEnds, Collect,
                    CollectRaises, Goto, Returns
<1>3. ASSUME NEW q \in Runners, Interruption(q) PROVE Claiming(r) \/ MayClaim(r)
  BY <1>1, <1>3 DEF Interruption, Stop, CancelMain, LateClaim, ExitLoop, LateCall,
                    OnlyTasks, Goto
<1>4. ASSUME NEW q \in Runners, NEW s \in Slots,
             TaskStep(q, s) \/ \E lag \in Lags : Beat(q, s, lag)
      PROVE  Claiming(r)
  BY <1>4 DEF TaskStep, Begin, HandlerReturns, HandlerRaises, CompleteStage,
              ReportSuccess, FailStage, ReportFailure, Beat, OnlyTasks
<1>5. Crash => FALSE
  BY DEF Crash
<1>6. PassTime \/ UNCHANGED vars => Claiming(r)
  BY DEF PassTime, vars, runnerVars
<1> QED BY <1>2, <1>3, <1>4, <1>5, <1>6 DEF RunnerNext

LEMMA RoomMeansFree ==
    ASSUME NEW s0, Slots = {s0}, NEW r \in Runners, MayClaim(r), NEW s \in Slots
    PROVE  tasks[r][s].pc = "free"
<1>1. Cardinality(Slots) = 1 /\ IsFiniteSet(Slots)
  BY FS_Singleton
<1>2. InFlight(r) \in SUBSET Slots
  BY DEF InFlight
<1>3. IsFiniteSet(InFlight(r)) /\ Cardinality(InFlight(r)) \in Nat
  BY <1>2, CountNat
<1>4. Cardinality(InFlight(r)) = 0
  BY <1>1, <1>3 DEF MayClaim
<1>5. InFlight(r) = {}
  BY <1>3, <1>4, FS_EmptySet
<1> QED BY <1>5 DEF InFlight

LEMMA OneTaskStep ==
    ASSUME NEW s0, Slots = {s0}, RunnerInv, OneTaskInv, [RunnerNext]_vars
    PROVE  OneTaskInv'
<1> SUFFICES ASSUME NEW r \in Runners, NEW s \in Slots
             PROVE  /\ tasks'[r][s].pc # "free" => ~Claiming(r)'
                    /\ Current(r, s)'
  BY DEF OneTaskInv
<1>1. IInv /\ [StoreNext]_storeVars /\ TasksMove
  BY RunnerStoreStep, TasksMoveStep DEF RunnerInv
<1>2. CASE tasks'[r][s].pc = "free"
  BY <1>2 DEF Current
<1>3. CASE Spawned(r, s)
  <2>1. tasks'[r][s].attempt = attempt'[tasks'[r][s].stage]
    BY <1>3 DEF Spawned, FreeTask, storeVars
  <2> QED BY <1>3, <2>1 DEF Spawned, Claiming, Current
<1>4. CASE Moved(r, s) /\ tasks'[r][s].pc # "free"
  <2>1. tasks[r][s].pc # "free"
    BY <1>4, FreeTaskFacts DEF Moved
  <2>2. PICK h \in Hashes : h = tasks[r][s].stage
    BY <2>1 DEF RunnerInv, TasksOK
  <2>3. tasks'[r][s].stage = h /\ tasks'[r][s].attempt = tasks[r][s].attempt
    BY <1>4, <2>2, FreeTaskFacts DEF Moved
  <2>4. ~Claiming(r) /\ Current(r, s) /\ ~MayClaim(r)
    BY <2>1, RoomMeansFree DEF OneTaskInv
  <2>5. ~Claiming(r)'
    BY <2>4, ClaimingFrom
  <2>6. ASSUME Leased(h, r)' PROVE Leased(h, r)
    BY <2>4, <2>6, NewLease DEF ClaimStage, LateClaim, Claiming
  <2>7. Leased(h, r) => attempt'[h] = attempt[h]
    BY <1>1, AttemptFixed DEF Leased
  <2>8. Leased(h, r)' => attempt'[h] = tasks[r][s].attempt
    BY <2>1, <2>2, <2>4, <2>6, <2>7 DEF Current
  <2> QED BY <2>3, <2>5, <2>8 DEF Current, Leased
<1> QED BY <1>1, <1>2, <1>3, <1>4 DEF TasksMove

\* With max_concurrent_stages = 1 the artifact of a stage that succeeded is
\* the one that its successful attempt produced, whatever leases are lost and
\* whatever is cancelled or called late: a runner makes its next claim only
\* when its task is over (run_until_idle, runner.py), so none of its tasks can
\* finish an attempt that another one was given.
THEOREM OneSlotProvenance ==
    ASSUME NEW s0, Slots = {s0}
    PROVE  RunnerSpec => []AttemptProvenance
<1>1. RunnerInit => OneTaskInv /\ AttemptProvenance
  BY FreeTaskFacts DEF RunnerInit, SeededStore, OneTaskInv, Claiming, Current,
                       AttemptProvenance
<1>2. RunnerInv /\ OneTaskInv /\ AttemptProvenance /\ [RunnerNext]_vars =>
          OneTaskInv' /\ AttemptProvenance'
  BY OneTaskStep, ProvenanceStep DEF OneTaskInv
<1> QED BY <1>1, <1>2, RunnerInvariant, PTL DEF RunnerSpec

-----------------------------------------------------------------------------
(***************************************************************************)
(* Prompt heartbeats, with any number of slots: under LiveSpec, and when a *)
(* call of the store waits no longer for the lock than a lease lasts, a    *)
(* lease that a runner has in hand does not expire.  Nothing of what       *)
(* follows uses the fairness of LiveSpec.                                  *)
(***************************************************************************)
LiveStep == LiveNext \/ Shutdown

LEMMA LiveIsRunner == [LiveStep]_vars => [RunnerNext]_vars
<1>1. LiveStep => RunnerNext
  BY DEF LiveStep, LiveNext, Shutdown, RunnerNext, BeatAny, PromptTime, Interruption
<1> QED BY <1>1

Safe(h, r) == Leased(h, r) /\ leaseLeft[h] >= 0

\* A task of runner r ends the lease on h.
EndsLease(r, s, h) ==
    /\ tasks[r][s].stage = h
    /\ \/ /\ tasks[r][s].pc = "completing"
          /\ Complete(h, r, tasks[r][s].attempt)
          /\ TaskGoto(r, s, "reporting_success")
       \/ /\ tasks[r][s].pc = "failing"
          /\ TaskGoto(r, s, "reporting_failure")
       \/ tasks[r][s].pc \in Late

\* The lease that a runner has in hand stays, until it ends it itself.
LEMMA SafeLeaseStep ==
    ASSUME MaxLag <= LeaseTTL, RunnerInv, [LiveStep]_vars, NEW h \in Hashes,
           NEW r \in Runners, Safe(h, r), InHand(h)
    PROVE  Safe(h, r)' \/ \E s \in Slots : EndsLease(r, s, h)
<1> DEFINE Goal == Safe(h, r)' \/ \E s \in Slots : EndsLease(r, s, h)
<1> USE DEF Safe
<1>1. StoreTypeOK /\ StoreAssumption /\ status[h] = "running" /\ owner[h] = r
  BY StoreAssumption DEF RunnerInv, IInv, Leased
<1>2. UNCHANGED storeVars => Goal
  BY DEF Leased, storeVars
<1>3. ASSUME NEW g \in Hashes, NEW q \in Runners, NEW lag \in Lags, Claim(g, q, lag)
      PROVE  Goal
  <2>1. g # h
    BY <1>1, <1>3, FirstRunnableFacts DEF Claim, Selectable
  <2> QED BY <1>1, <1>3, <2>1 DEF Claim, Leased, StoreTypeOK
<1>4. ASSUME NEW g \in Hashes, NEW q \in Runners, NEW lag \in Lags, Heartbeat(g, q, lag)
      PROVE  Goal
  <2>1. LeaseTTL - lag >= 0
    BY <1>1 DEF Lags
  <2> QED BY <1>1, <1>4, <2>1 DEF Heartbeat, Leased, StoreTypeOK
<1>5. ASSUME NEW lag \in Lags, Reclaim(lag) PROVE Goal
  <2>1. h \notin Expired(lag)
    BY <1>1, <1>5 DEF Expired, Lags, StoreTypeOK
  <2> QED BY <1>1, <1>5, <2>1 DEF Reclaim, Leased, StoreTypeOK
<1>6. ASSUME NEW q \in Runners, NEW s \in Slots,
             \/ Complete(tasks[q][s].stage, q, tasks[q][s].attempt)
             \/ \E retryable \in BOOLEAN, lag \in Lags :
                   Fail(tasks[q][s].stage, q, retryable, lag),
             tasks[q][s].stage \in Hashes,
             ~(q = r /\ tasks[r][s].stage = h)
      PROVE  Goal
  <2>1. tasks[q][s].stage # h
    BY <1>1, <1>6 DEF Complete, Fail, Leased
  <2> QED BY <1>1, <1>6, <2>1 DEF Complete, Fail, Leased, StoreTypeOK
<1>7. ASSUME PromptTime PROVE Goal
  <2>1. leaseLeft[h] > 0
    BY <1>1, <1>7 DEF PromptTime
  <2>2. leaseLeft[h] \in Int /\ leaseLeft' = [g \in Hashes |->
          IF status[g] = "running" /\ leaseLeft[g] > LeaseFloor
          THEN leaseLeft[g] - 1 ELSE leaseLeft[g]]
    BY <1>1, <1>7 DEF PromptTime, PassTime, Tick, StoreTypeOK
  <2>3. leaseLeft'[h] >= 0
    BY <2>1, <2>2
  <2>4. status' = status /\ owner' = owner
    BY <1>7 DEF PromptTime, PassTime, Tick
  <2> QED BY <1>1, <2>3, <2>4 DEF Leased
<1>8. ASSUME NEW q \in Runners, MainStep(q) PROVE Goal
  <2>1. ASSUME NEW lag \in Lags, ReclaimLeases(q, lag) PROVE Goal
    BY <1>2, <1>5, <2>1 DEF ReclaimLeases
  <2>2. ASSUME NEW g \in Hashes, NEW lag \in Lags, ClaimStage(q, g, lag) PROVE Goal
    BY <1>3, <2>2 DEF ClaimStage
  <2>3. ASSUME \/ Start(q) \/ Idle(q) \/ Drain(q) \/ SkipReclaim(q)
               \/ (\E s \in Slots : Spawn(q, s)) \/ (\E lag \in Lags : NoStageFound(q, lag))
               \/ StopClaiming(q)
               \/ Collect(q) \/ CollectRaises(q)
        PROVE  Goal
    BY <1>2, <2>3 DEF Start, Idle, Drain, SkipReclaim, Spawn, NoStageFound, StopClaiming,
                      Collect, CollectRaises
  <2> HIDE DEF Goal
  <2> QED BY <1>8, <2>1, <2>2, <2>3 DEF MainStep
<1>9. ASSUME NEW q \in Runners, NEW s \in Slots, TaskStep(q, s) PROVE Goal
  <2>1. tasks[q][s].pc # "free" => tasks[q][s].stage \in Hashes
    BY DEF RunnerInv, TasksOK
  <2>2. tasks[q][s].retryable \in BOOLEAN
    BY DEF RunnerInv, RunnerTypeOK, Task
  <2>3. CASE CompleteStage(q, s)
    BY <1>2, <1>6, <2>1, <2>3 DEF CompleteStage, At, EndsLease
  <2>4. ASSUME NEW lag \in Lags, FailStage(q, s, lag) PROVE Goal
    BY <1>2, <1>6, <2>1, <2>2, <2>4 DEF FailStage, EndsLease
  <2>5. CASE \/ Begin(q, s) \/ HandlerReturns(q, s) \/ HandlerRaises(q, s)
             \/ ReportSuccess(q, s) \/ ReportFailure(q, s)
    BY <1>2, <2>5 DEF Begin, HandlerReturns, HandlerRaises, ReportSuccess, ReportFailure
  <2> HIDE DEF Goal
  <2> QED BY <1>9, <2>3, <2>4, <2>5 DEF TaskStep
<1>10. ASSUME NEW q \in Runners, NEW s \in Slots, BeatAny(q, s) PROVE Goal
  <2>1. PICK lag \in Lags : Beat(q, s, lag)
    BY <1>10 DEF BeatAny
  <2>2. tasks[q][s].stage \in Hashes
    BY <2>1 DEF Beat, RunnerInv, TasksOK
  <2> QED BY <1>2, <1>4, <2>1, <2>2 DEF Beat
<1>11. ASSUME Shutdown PROVE Goal
  <2>1. ASSUME NEW q \in Runners, Stop(q) \/ ExitLoop(q) PROVE Goal
    BY <1>2, <2>1 DEF Stop, ExitLoop
  <2>2. ASSUME NEW q \in Runners, NEW s \in Slots, NEW lag \in Lags, LateCall(q, s, lag)
        PROVE  Goal
    <3>1. tasks[q][s].pc \in Late /\ tasks[q][s].stage \in Hashes
      BY <2>2 DEF LateCall, RunnerInv, TasksOK, Late
    <3>2. tasks[q][s].retryable \in BOOLEAN
      BY DEF RunnerInv, RunnerTypeOK, Task
    <3> QED BY <1>2, <1>6, <2>2, <3>1, <3>2 DEF LateCall, EndsLease
  <2> HIDE DEF Goal
  <2> QED BY <1>11, <2>1, <2>2 DEF Shutdown
<1>12. Crash \/ UNCHANGED vars => Goal
  BY <1>2 DEF Crash, vars
<1> HIDE DEF Goal
<1>13. Goal
  BY <1>7, <1>8, <1>9, <1>10, <1>11, <1>12 DEF LiveStep, LiveNext
<1> QED BY <1>13 DEF Goal

(***************************************************************************)
(* The inductive invariant.  A task that may still end its lease has it in *)
(* time, or it has completed the stage and reports that; no two tasks of a *)
(* runner have one lease; a call that runs on is that of a runner that has *)
(* been told to stop and claims no more.                                   *)
(***************************************************************************)
Engaged == {"starting", "handling", "completing", "failing", "reporting_success"}

InTime(r, s) == Safe(tasks[r][s].stage, r) /\ Current(r, s)

Reporting(r, s) ==
    /\ tasks[r][s].pc \in {"failing", "reporting_success"}
    /\ status[tasks[r][s].stage] = "succeeded"

EngagedInTime ==
    \A r \in Runners, s \in Slots :
        tasks[r][s].pc \in Engaged => InTime(r, s) \/ Reporting(r, s)

OneTaskPerLease ==
    \A r \in Runners : \A s, u \in Slots :
        s # u /\ tasks[r][s].pc \in Engaged /\ tasks[r][u].pc \in Engaged =>
            tasks[r][s].stage # tasks[r][u].stage

PickedInTime ==
    \A r \in Runners : picked[r] # NoStage =>
        /\ Safe(picked[r], r)
        /\ \A s \in Slots : tasks[r][s].pc \in Engaged => tasks[r][s].stage # picked[r]

Retired(r) ==
    /\ pc[r] \in Over \/ (pc[r] = "idle" /\ stopping[r])
    /\ \A s \in Slots : tasks[r][s].pc \in {"free"} \cup Late

LateRetired ==
    \A r \in Runners, s \in Slots :
        tasks[r][s].pc \in Late => /\ Retired(r)
                                   /\ tasks[r][s].pc = "late_completing" => Current(r, s)

PromptInv == EngagedInTime /\ OneTaskPerLease /\ PickedInTime /\ LateRetired

\* A task gets to be engaged only from where it was engaged already.
LEMMA EngagedFrom ==
    ASSUME RunnerInv, [RunnerNext]_vars, NEW r \in Runners, NEW s \in Slots,
           tasks'[r][s].pc \in Engaged, ~Spawn(r, s)
    PROVE  /\ tasks[r][s].pc \in Engaged
           /\ tasks'[r][s].stage = tasks[r][s].stage
           /\ tasks'[r][s].attempt = tasks[r][s].attempt
           /\ tasks[r][s].pc \in {"failing", "reporting_success"} =>
                 tasks'[r][s].pc \in {"failing", "reporting_success"}
<1> USE DEF Engaged
<1>1. tasks'[r][s].pc \notin {"free"} \cup Late
  BY DEF Late
<1>2. tasks'[r][s].pc = tasks[r][s].pc \/ TaskStep(r, s)
  BY <1>1, TaskPcMoves
<1>3. CASE TaskStep(r, s)
  BY <1>3, TaskMoves DEF TaskMove
<1>4. CASE tasks'[r][s].pc = tasks[r][s].pc
  <2>1. Moved(r, s) \/ Spawned(r, s)
    BY TasksMoveStep DEF TasksMove
  <2>2. ~Spawned(r, s)
    BY <1>4, FreeTaskFacts DEF Spawned
  <2> QED BY <1>1, <1>4, <2>1, <2>2, FreeTaskFacts DEF Moved
<1> QED BY <1>2, <1>3, <1>4

LEMMA EngagedStep ==
    ASSUME MaxLag <= LeaseTTL, RunnerInv, PromptInv, [LiveStep]_vars
    PROVE  EngagedInTime'
<1> SUFFICES ASSUME NEW r \in Runners, NEW s \in Slots, tasks'[r][s].pc \in Engaged
             PROVE  InTime(r, s)' \/ Reporting(r, s)'
  BY DEF EngagedInTime
<1>1. /\ [RunnerNext]_vars /\ [StoreNext]_storeVars /\ IInv /\ RunnerTypeOK
      /\ EngagedInTime /\ OneTaskPerLease /\ PickedInTime /\ LateRetired
  BY LiveIsRunner, RunnerStoreStep DEF RunnerInv, PromptInv
<1>2. CASE Spawn(r, s)
  BY <1>1, <1>2, SpawnGives
     DEF PickedInTime, InTime, Safe, Current, Leased, storeVars
<1>3. CASE ~Spawn(r, s)
  <2>1. /\ tasks[r][s].pc \in Engaged
        /\ tasks'[r][s].stage = tasks[r][s].stage
        /\ tasks'[r][s].attempt = tasks[r][s].attempt
        /\ tasks[r][s].pc \in {"failing", "reporting_success"} =>
              tasks'[r][s].pc \in {"failing", "reporting_success"}
    BY <1>1, <1>3, EngagedFrom
  <2>2. PICK h \in Hashes : h = tasks[r][s].stage
    BY <2>1 DEF RunnerInv, TasksOK, Engaged
  <2>3. CASE Reporting(r, s)
    BY <1>1, <2>1, <2>2, <2>3, SettledStep DEF Reporting, Settled
  <2>4. CASE InTime(r, s) /\ Safe(h, r)'
    <3>1. attempt'[h] = attempt[h]
      BY <1>1, <2>2, <2>4, AttemptFixed DEF InTime, Safe, Leased
    <3> QED BY <2>1, <2>2, <2>4, <3>1 DEF InTime, Current, Safe, Engaged
  <2>5. ASSUME InTime(r, s), NEW u \in Slots, EndsLease(r, u, h)
        PROVE  Reporting(r, s)'
    <3>1. tasks[r][u].pc \notin Late
      BY <1>1, <2>1 DEF LateRetired, Retired, Engaged, Late
    <3>2. u = s
      BY <1>1, <2>1, <2>2, <2>5, <3>1 DEF OneTaskPerLease, EndsLease, Engaged
    <3>3. tasks[r][s].pc # "failing"
      BY <1>1, <2>1, <2>5, <3>1, <3>2, TaskGotoFacts
         DEF EndsLease, Engaged, TaskPcs, Working
    <3>4. Complete(h, r, tasks[r][s].attempt) /\ TaskGoto(r, s, "reporting_success")
      BY <2>5, <3>1, <3>2, <3>3 DEF EndsLease
    <3>5. tasks'[r][s].pc = "reporting_success"
      BY <1>1, <3>4, TaskGotoFacts DEF TaskPcs, Working
    <3>6. status'[h] = "succeeded"
      BY <1>1, <3>4 DEF Complete, IInv, StoreTypeOK
    <3> QED BY <2>1, <2>2, <3>5, <3>6 DEF Reporting
  <2>6. InTime(r, s) => InHand(h)
    BY <2>1, <2>2 DEF InTime, Safe, Leased, InHand, Engaged, Working
  <2>7. CASE InTime(r, s)
    <3>1. Safe(h, r)' \/ \E u \in Slots : EndsLease(r, u, h)
      BY <2>2, <2>6, <2>7, SafeLeaseStep DEF InTime
    <3> QED BY <2>4, <2>5, <2>7, <3>1
  <2> QED BY <1>1, <2>1, <2>3, <2>7 DEF EngagedInTime
<1> QED BY <1>2, <1>3

LEMMA OneTaskPerLeaseStep ==
    ASSUME RunnerInv, PromptInv, [RunnerNext]_vars
    PROVE  OneTaskPerLease'
<1>1. OneTaskPerLease /\ PickedInTime
  BY DEF PromptInv
<1>2. ASSUME NEW r \in Runners, NEW s \in Slots, NEW u \in Slots, s # u, Spawn(r, s),
             tasks'[r][u].pc \in Engaged
      PROVE  tasks'[r][s].stage # tasks'[r][u].stage
  BY <1>1, <1>2, SpawnGives DEF PickedInTime
<1> SUFFICES ASSUME NEW r \in Runners, NEW s \in Slots, NEW u \in Slots, s # u,
                    tasks'[r][s].pc \in Engaged, tasks'[r][u].pc \in Engaged
             PROVE  tasks'[r][s].stage # tasks'[r][u].stage
  BY DEF OneTaskPerLease
<1>3. CASE ~Spawn(r, s) /\ ~Spawn(r, u)
  BY <1>1, <1>3, EngagedFrom DEF OneTaskPerLease
<1> QED BY <1>2, <1>3

\* A stage is picked by a claim, and stays so until it is given to a task.
LEMMA PickedFrom ==
    ASSUME RunnerInv, [RunnerNext]_vars, NEW r \in Runners, picked'[r] # NoStage
    PROVE  \/ picked'[r] = picked[r]
           \/ \E h \in Hashes, lag \in Lags : ClaimStage(r, h, lag) /\ picked'[r] = h
<1> DEFINE Goal == \/ picked'[r] = picked[r]
                   \/ \E h \in Hashes, lag \in Lags : ClaimStage(r, h, lag) /\ picked'[r] = h
<1>1. picked \in [Runners -> Hashes \cup {NoStage}]
  BY DEF RunnerInv, RunnerTypeOK
<1>2. ASSUME NEW q \in Runners, MainStep(q) PROVE Goal
  <2>1. ASSUME NEW h \in Hashes, NEW lag \in Lags, ClaimStage(q, h, lag) PROVE Goal
    BY <1>1, <2>1 DEF ClaimStage
  <2>2. ASSUME NEW s \in Slots, Spawn(q, s) PROVE Goal
    BY <1>1, <2>2 DEF Spawn
  <2>3. ASSUME \/ Start(q) \/ Idle(q) \/ Drain(q) \/ SkipReclaim(q)
               \/ (\E lag \in Lags : ReclaimLeases(q, lag) \/ NoStageFound(q, lag))
               \/ StopClaiming(q)
               \/ Collect(q) \/ CollectRaises(q)
        PROVE  Goal
    BY <2>3 DEF Start, Idle, Drain, SkipReclaim, ReclaimLeases, NoStageFound,
                StopClaiming, Collect,
                CollectRaises
  <2> HIDE DEF Goal
  <2> QED BY <1>2, <2>1, <2>2, <2>3 DEF MainStep
<1>3. ASSUME NEW q \in Runners, Interruption(q) PROVE Goal
  BY <1>1, <1>3 DEF Interruption, Stop, CancelMain, LateClaim, ExitLoop, LateCall, OnlyTasks
<1>4. ASSUME NEW q \in Runners, NEW s \in Slots,
             TaskStep(q, s) \/ \E lag \in Lags : Beat(q, s, lag)
      PROVE  Goal
  BY <1>4 DEF TaskStep, Begin, HandlerReturns, HandlerRaises, CompleteStage,
              ReportSuccess, FailStage, ReportFailure, Beat, OnlyTasks
<1>5. Crash \/ PassTime \/ UNCHANGED vars => Goal
  BY DEF Crash, PassTime, vars, runnerVars
<1> HIDE DEF Goal
<1>6. Goal
  BY <1>2, <1>3, <1>4, <1>5 DEF RunnerNext
<1> QED BY <1>6 DEF Goal

LEMMA PickedStep ==
    ASSUME MaxLag <= LeaseTTL, RunnerInv, PromptInv, [LiveStep]_vars
    PROVE  PickedInTime'
<1> SUFFICES ASSUME NEW r \in Runners, picked'[r] # NoStage
             PROVE  /\ Safe(picked[r], r)'
                    /\ \A s \in Slots : tasks'[r][s].pc \in Engaged =>
                          tasks'[r][s].stage # picked'[r]
  BY DEF PickedInTime
<1>1. /\ [RunnerNext]_vars /\ IInv /\ RunnerTypeOK /\ PickedOK
      /\ EngagedInTime /\ PickedInTime /\ LateRetired
  BY LiveIsRunner DEF RunnerInv, PromptInv
<1>2. \A s \in Slots : ~Spawn(r, s)
  BY SpawnGives
<1>3. CASE picked'[r] = picked[r]
  <2>1. pc[r] = "reread"
    BY <1>1, <1>3 DEF PickedOK
  <2>2. PICK h \in Hashes : h = picked[r]
    BY <1>1, <2>1 DEF PickedOK
  <2>3. Safe(h, r) /\ InHand(h)
    BY <1>1, <1>3, <2>2 DEF PickedInTime, Safe, Leased, InHand
  <2>4. ASSUME NEW u \in Slots PROVE ~EndsLease(r, u, h)
    <3>1. tasks[r][u].pc \notin Late
      BY <1>1, <2>1 DEF LateRetired, Retired, Over
    <3> QED BY <1>1, <1>3, <2>2, <3>1 DEF EndsLease, PickedInTime, Engaged
  <2>5. Safe(h, r)'
    BY <2>3, <2>4, SafeLeaseStep
  <2>6. \A s \in Slots : tasks'[r][s].pc \in Engaged => tasks'[r][s].stage # h
    BY <1>1, <1>2, <1>3, <2>2, EngagedFrom DEF PickedInTime
  <2> QED BY <1>3, <2>2, <2>5, <2>6
<1>4. ASSUME NEW h \in Hashes, NEW lag \in Lags, ClaimStage(r, h, lag), picked'[r] = h
      PROVE  /\ Safe(picked[r], r)'
             /\ \A s \in Slots : tasks'[r][s].pc \in Engaged =>
                   tasks'[r][s].stage # picked'[r]
  <2>1. Claim(h, r, lag) /\ tasks' = tasks
    BY <1>4 DEF ClaimStage
  <2>2. status[h] \notin {"running", "succeeded"}
    BY <1>1, <2>1, FirstRunnableFacts DEF Claim, Selectable, IInv
  <2>3. LeaseTTL - lag >= 0
    BY StoreAssumption DEF Lags
  <2>4. Safe(h, r)'
    BY <1>1, <2>1, <2>3 DEF Claim, Safe, Leased, IInv, StoreTypeOK
  <2>5. \A s \in Slots : tasks[r][s].pc \in Engaged => tasks[r][s].stage # h
    BY <1>1, <2>2 DEF EngagedInTime, InTime, Safe, Leased, Reporting
  <2> QED BY <1>4, <2>1, <2>4, <2>5
<1> QED BY <1>1, <1>3, <1>4, PickedFrom

\* A runner that has been told to stop, and whose tasks are cancelled, stays so.
LEMMA StaysRetired ==
    ASSUME RunnerInv, [LiveStep]_vars, NEW r \in Runners, Retired(r),
           NEW s \in Slots, tasks'[r][s].pc \in Late
    PROVE  Retired(r)'
<1> DEFINE Out == pc[r] \in Over \/ (pc[r] = "idle" /\ stopping[r])
<1>1. /\ pc \in [Runners -> Looping \cup Over \cup {"late_claim"}]
      /\ stopping \in [Runners -> BOOLEAN] /\ Out
  BY DEF RunnerInv, RunnerTypeOK, Retired
<1>2. ASSUME NEW q \in Runners, MainStep(q) PROVE Out'
  BY <1>1, <1>2 DEF MainStep, Start, Idle, Drain, ReclaimLeases, SkipReclaim, ClaimStage,
                    Spawn, NoStageFound, StopClaiming, ClaimLoopEnds, Collect,
                    CollectRaises, Goto, Returns, Over
<1>3. ASSUME Shutdown PROVE Out'
  BY <1>1, <1>3 DEF Shutdown, Stop, ExitLoop, LateCall, OnlyTasks
<1>4. ASSUME NEW q \in Runners, NEW u \in Slots, TaskStep(q, u) \/ BeatAny(q, u) PROVE Out'
  BY <1>1, <1>4 DEF TaskStep, Begin, HandlerReturns, HandlerRaises, CompleteStage,
                    ReportSuccess, FailStage, ReportFailure, BeatAny, Beat, OnlyTasks
<1>5. ~Crash
  BY FreeTaskFacts DEF Crash, Late
<1>6. PromptTime \/ UNCHANGED vars => Out'
  BY <1>1 DEF PromptTime, PassTime, vars, runnerVars
<1>7. Out'
  <2> HIDE DEF Out
  <2> QED BY <1>2, <1>3, <1>4, <1>5, <1>6 DEF LiveStep, LiveNext
<1>8. ASSUME NEW u \in Slots PROVE tasks'[r][u].pc \in {"free"} \cup Late
  <2>1. tasks[r][u].pc \in {"free"} \cup Late
    BY DEF Retired
  <2>2. ~Spawn(r, u)
    BY <1>1 DEF Spawn, Over
  <2>3. ~TaskStep(r, u)
    BY <2>1, TaskMoves DEF TaskMove, Late
  <2> QED BY <2>1, <2>2, <2>3, TaskPcMoves, LiveIsRunner
<1> QED BY <1>7, <1>8 DEF Retired

LEMMA LateStep ==
    ASSUME RunnerInv, PromptInv, [LiveStep]_vars
    PROVE  LateRetired'
<1> SUFFICES ASSUME NEW r \in Runners, NEW s \in Slots, tasks'[r][s].pc \in Late
             PROVE  /\ Retired(r)'
                    /\ tasks'[r][s].pc = "late_completing" => Current(r, s)'
  BY DEF LateRetired
<1>1. /\ [RunnerNext]_vars /\ [StoreNext]_storeVars /\ IInv /\ RunnerTypeOK
      /\ EngagedInTime /\ LateRetired
  BY LiveIsRunner, RunnerStoreStep DEF RunnerInv, PromptInv
<1>2. CASE Cancels(r)
  <2>1. \A u \in Slots : tasks'[r][u] = Cancelled(tasks[r][u]) /\ tasks[r][u] \in Task
    BY <1>1, <1>2, CancelAllFacts DEF Cancels, RunnerTypeOK
  <2>2. \A u \in Slots : tasks'[r][u].pc \in {"free"} \cup Late
    BY <2>1, CancelledFacts
  <2>3. pc'[r] \in Over \/ (pc'[r] = "idle" /\ stopping'[r])
    BY <1>1, <1>2 DEF Cancels, Drain, ExitLoop, OnlyTasks, Goto, Returns, Over, RunnerTypeOK
  <2>4. storeVars' = storeVars
    BY <1>2 DEF Cancels, Drain, ExitLoop
  <2>5. /\ tasks'[r][s].stage = tasks[r][s].stage
        /\ tasks'[r][s].attempt = tasks[r][s].attempt
        /\ tasks[r][s].pc # "free"
        /\ tasks'[r][s].pc = "late_completing" =>
              tasks[r][s].pc \in {"completing", "late_completing"}
    BY <2>1, CancelledFacts DEF Late
  <2>6. tasks'[r][s].pc = "late_completing" => Current(r, s)
    BY <1>1, <2>5 DEF EngagedInTime, InTime, Reporting, LateRetired, Engaged, Late
  <2> QED BY <2>2, <2>3, <2>4, <2>5, <2>6 DEF Retired, Current, Leased, storeVars
<1>3. CASE tasks'[r][s].pc = tasks[r][s].pc
  <2>1. Retired(r) /\ (tasks[r][s].pc = "late_completing" => Current(r, s))
    BY <1>1, <1>3 DEF LateRetired
  <2>2. Retired(r)'
    BY <2>1, StaysRetired
  <2>3. PICK h \in Hashes : h = tasks[r][s].stage
    BY <1>3 DEF RunnerInv, TasksOK, Late
  <2>4. ~Spawned(r, s)
    BY <2>1 DEF Spawned, Retired, Over
  <2>5. tasks'[r][s].stage = h /\ tasks'[r][s].attempt = tasks[r][s].attempt
    BY <1>1, <2>3, <2>4, TasksMoveStep, FreeTaskFacts DEF TasksMove, Moved, Late
  <2>6. ASSUME Leased(h, r)' PROVE Leased(h, r)
    BY <1>1, <2>1, <2>6, NewLease DEF ClaimStage, LateClaim, Retired, Over
  <2>7. Leased(h, r) => attempt'[h] = attempt[h]
    BY <1>1, AttemptFixed DEF Leased
  <2>8. tasks'[r][s].pc = "late_completing" => Current(r, s)'
    BY <1>3, <2>1, <2>3, <2>5, <2>6, <2>7 DEF Current, Leased
  <2> QED BY <2>2, <2>8
<1>4. ~Spawn(r, s)
  BY SpawnGives DEF Late
<1>5. ~TaskStep(r, s)
  BY TaskMoves DEF TaskMove, Late
<1> QED BY <1>1, <1>2, <1>3, <1>4, <1>5, TaskPcMoves DEF Late

LEMMA PromptInit == RunnerInit => PromptInv /\ AttemptProvenance
<1> SUFFICES ASSUME RunnerInit PROVE PromptInv /\ AttemptProvenance
  OBVIOUS
<1>1. \A r \in Runners, s \in Slots : tasks[r][s].pc = "free" /\ picked[r] = NoStage
  BY FreeTaskFacts DEF RunnerInit
<1>2. AttemptProvenance
  BY DEF RunnerInit, SeededStore, AttemptProvenance
<1>3. \A r \in Runners : picked[r] = NoStage
  BY DEF RunnerInit
<1> QED BY <1>1, <1>2, <1>3
        DEF PromptInv, EngagedInTime, OneTaskPerLease, PickedInTime, LateRetired, Engaged, Late

LEMMA PromptStep ==
    ASSUME MaxLag <= LeaseTTL, RunnerInv, PromptInv, [LiveStep]_vars
    PROVE  RunnerInv' /\ PromptInv'
<1>1. [RunnerNext]_vars
  BY LiveIsRunner
<1>2. RunnerInv'
  BY <1>1, RunnerNextInv
<1>3. PromptInv'
  BY <1>1, EngagedStep, OneTaskPerLeaseStep, PickedStep, LateStep DEF PromptInv
<1> QED BY <1>2, <1>3

\* Whatever the number of slots, the artifact of a stage that succeeded is
\* the one that its successful attempt produced, as long as heartbeats are
\* prompt: with leases that do not expire in a runner's hand, neither
\* _execute_stage nor a call of it that runs on after stop() can complete a
\* stage with what an earlier attempt came up with.
THEOREM PromptProvenance ==
    ASSUME MaxLag <= LeaseTTL
    PROVE  LiveSpec => []AttemptProvenance
<1>1. RunnerInv /\ PromptInv /\ AttemptProvenance /\ [LiveStep]_vars =>
          RunnerInv' /\ PromptInv' /\ AttemptProvenance'
  <2> SUFFICES ASSUME RunnerInv, PromptInv, AttemptProvenance, [LiveStep]_vars
               PROVE  RunnerInv' /\ PromptInv' /\ AttemptProvenance'
    OBVIOUS
  <2>1. \A r \in Runners, s \in Slots :
           tasks[r][s].pc \in {"completing", "late_completing"} => Current(r, s)
    BY DEF PromptInv, EngagedInTime, InTime, Reporting, LateRetired, Engaged, Late
  <2>2. AttemptProvenance'
    BY <2>1, LiveIsRunner, ProvenanceStep
  <2> QED BY <2>2, PromptStep
<1>2. LiveSpec => RunnerInit /\ [][LiveStep]_vars
  BY DEF LiveSpec, LiveStep
<1> QED BY <1>1, <1>2, RunnerInitInv, PromptInit, PTL

(***************************************************************************)
(* No exception leaves a task: fail_stage finds the lease of a task whose  *)
(* handler failed, as nobody else can have completed the stage by then.    *)
(***************************************************************************)
Quiet ==
    \A r \in Runners :
        /\ pc[r] # "raised"
        /\ \A s \in Slots :
              /\ tasks[r][s].pc # "raised"
              /\ tasks[r][s].pc = "failing" => status[tasks[r][s].stage] # "succeeded"

\* run_forever ends with an exception only if a task has, or its sink raises.
LEMMA LoopRaises ==
    ASSUME ~SinkFails, RunnerInv, [RunnerNext]_vars, NEW r \in Runners, pc'[r] = "raised"
    PROVE  pc[r] = "raised" \/ \E s \in Slots : tasks[r][s].pc = "raised"
<1> DEFINE Goal == pc[r] = "raised" \/ \E s \in Slots : tasks[r][s].pc = "raised"
<1>1. pc \in [Runners -> Looping \cup Over \cup {"late_claim"}]
  BY DEF RunnerInv, RunnerTypeOK
<1>2. ASSUME NEW q \in Runners, CollectRaises(q) PROVE Goal
  BY <1>1, <1>2 DEF CollectRaises, Done, Goto
<1>3. ASSUME NEW q \in Runners, MainStep(q) PROVE Goal
  <2> HIDE DEF Goal
  <2>1. CollectRaises(q) \/ pc[r] = "raised"
    BY <1>1, <1>3 DEF MainStep, Start, Idle, Drain, ReclaimLeases, SkipReclaim, ClaimStage,
                      Spawn, NoStageFound, StopClaiming, ClaimLoopEnds, Collect, Goto,
                      Returns
  <2> QED BY <1>2, <2>1 DEF Goal
<1>4. ASSUME NEW q \in Runners, Interruption(q) PROVE Goal
  BY <1>1, <1>4 DEF Interruption, Stop, CancelMain, LateClaim, ExitLoop, LateCall,
                    OnlyTasks, Goto
<1>5. ASSUME NEW q \in Runners, NEW s \in Slots,
             TaskStep(q, s) \/ \E lag \in Lags : Beat(q, s, lag)
      PROVE  Goal
  BY <1>5 DEF TaskStep, Begin, HandlerReturns, HandlerRaises, CompleteStage,
              ReportSuccess, FailStage, ReportFailure, Beat, OnlyTasks
<1>6. ~Crash
  BY DEF Crash
<1>7. PassTime \/ UNCHANGED vars => Goal
  BY DEF PassTime, vars, runnerVars
<1> HIDE DEF Goal
<1>8. Goal
  BY <1>3, <1>4, <1>5, <1>6, <1>7 DEF RunnerNext
<1> QED BY <1>8 DEF Goal

LEMMA QuietStep ==
    ASSUME ~SinkFails, RunnerInv, PromptInv, Quiet, [RunnerNext]_vars
    PROVE  Quiet'
<1>1. /\ EngagedInTime /\ OneTaskPerLease /\ LateRetired
      /\ IInv /\ [StoreNext]_storeVars
  BY RunnerStoreStep DEF PromptInv, RunnerInv
<1>2. \A r \in Runners : pc'[r] # "raised"
  BY LoopRaises DEF Quiet
<1>3. ASSUME NEW r \in Runners, NEW s \in Slots, tasks[r][s].pc \in Engaged,
             tasks[r][s].pc # "reporting_success"
      PROVE  InTime(r, s) /\ Leased(tasks[r][s].stage, r)
  BY <1>1, <1>3 DEF EngagedInTime, Reporting, Quiet, InTime, Safe
<1>4. ASSUME NEW r \in Runners, NEW s \in Slots PROVE tasks'[r][s].pc # "raised"
  <2>1. ~Spawn(r, s) \/ tasks'[r][s].pc # "raised"
    BY SpawnGives
  <2>2. TaskStep(r, s) => tasks'[r][s].pc # "raised"
    BY <1>3, TaskMoves DEF TaskMove, Engaged
  <2> QED BY <2>1, <2>2, TaskPcMoves DEF Quiet, Late
<1>5. ASSUME NEW r \in Runners, NEW s \in Slots, tasks'[r][s].pc = "failing",
             status'[tasks'[r][s].stage] = "succeeded"
      PROVE  FALSE
  <2>1. ~Spawn(r, s)
    BY <1>5, SpawnGives
  <2>2. tasks[r][s].pc \in Engaged /\ tasks'[r][s].stage = tasks[r][s].stage
    BY <1>5, <2>1, EngagedFrom DEF Engaged
  <2>3. PICK h \in Hashes : h = tasks[r][s].stage
    BY <2>2 DEF RunnerInv, TasksOK, Engaged
  <2>4. tasks[r][s].pc = "failing"
    <3>1. ASSUME TaskStep(r, s) PROVE FALSE
      <4>1. \/ tasks[r][s].pc \in {"starting", "handling"} /\ status' = status
            \/ tasks[r][s].pc = "completing" /\ ~Leased(tasks[r][s].stage, r)
        BY <1>5, <3>1, TaskMoves DEF TaskMove, storeVars
      <4> QED BY <1>3, <1>5, <2>2, <4>1 DEF Engaged, Leased
    <3> QED BY <1>5, <2>1, <3>1, TaskPcMoves DEF Late
  <2>5. Leased(h, r)
    BY <1>3, <2>3, <2>4 DEF Engaged
  <2>6. PICK q \in Runners, u \in Slots :
           /\ tasks[q][u].pc \in {"completing", "late_completing"}
           /\ tasks[q][u].stage = h
           /\ Complete(h, q, tasks[q][u].attempt)
    BY <1>5, <2>2, <2>3, <2>5, CompletedByTask DEF Leased
  <2>7. q = r
    BY <2>5, <2>6 DEF Complete, Leased
  <2>8. tasks[r][u].pc = "completing" => FALSE
    BY <1>1, <2>3, <2>4, <2>6, <2>7 DEF OneTaskPerLease, Engaged
  <2>9. tasks[r][u].pc = "late_completing" => FALSE
    BY <1>1, <2>4 DEF LateRetired, Retired, Late
  <2> QED BY <2>6, <2>7, <2>8, <2>9
<1> QED BY <1>2, <1>4, <1>5 DEF Quiet

\* run_forever runs until it is stopped, through any failures of handlers,
\* retries, deaths of the process and calls that wait for the store, as long
\* as heartbeats are prompt and the sink does not raise: a lost lease is the
\* only other thing that makes it end with an exception (the run
\* runner_lost_lease has one).
THEOREM PromptRunnersKeepRunning ==
    ASSUME MaxLag <= LeaseTTL, ~SinkFails
    PROVE  LiveSpec => []RunsUntilStopped
<1>1. RunnerInv /\ PromptInv /\ Quiet /\ [LiveStep]_vars =>
          RunnerInv' /\ PromptInv' /\ Quiet'
  BY PromptStep, LiveIsRunner, QuietStep
<1>2. RunnerInit => Quiet
  BY FreeTaskFacts DEF RunnerInit, Quiet
<1>3. Quiet => RunsUntilStopped
  BY DEF Quiet, RunsUntilStopped
<1>4. LiveSpec => RunnerInit /\ [][LiveStep]_vars
  BY DEF LiveSpec, LiveStep
<1> QED BY <1>1, <1>2, <1>3, <1>4, RunnerInitInv, PromptInit, PTL

-----------------------------------------------------------------------------
(***************************************************************************)
(* The attempts of a runner that ended with a result.                      *)
(***************************************************************************)
Recorded(r, result) ==
    {e \in Hashes \X (1..MaxAttempts) : /\ log[e[1]][e[2]].runner = r
                                        /\ log[e[1]][e[2]].status = result}

\* There are finitely many stages, as the plan lists them all.
LEMMA HashesFinite == IsFiniteSet(Hashes)
<1> DEFINE n == Len(PlanOrder)
<1>1. PlanOrder \in Seq(Hashes) /\ n \in Nat /\ DOMAIN PlanOrder = 1..n
  BY RunnerAssumption
<1>2. \A h \in Hashes : \E i \in 1..n : PlanOrder[i] = h
  BY <1>1, RunnerAssumption DEF ToSet
<1>3. PlanOrder \in [1..n -> Hashes]
  BY <1>1
<1> HIDE DEF n
<1>4. PlanOrder \in Surjection(1..n, Hashes)
  BY <1>2, <1>3 DEF Surjection
<1> QED BY <1>1, <1>4, FS_NatSurjection DEF ExistsSurjection

LEMMA AttemptsFinite ==
    ASSUME NEW S \in SUBSET (Hashes \X (1..MaxAttempts))
    PROVE  IsFiniteSet(S) /\ Cardinality(S) \in Nat
<1>1. IsFiniteSet(1..MaxAttempts)
  <2>1. 1 \in Int /\ MaxAttempts \in Int
    BY StoreAssumption
  <2> QED BY <2>1, FS_Interval
<1>2. IsFiniteSet(Hashes \X (1..MaxAttempts))
  BY <1>1, HashesFinite, FS_Product
<1> QED BY <1>2, FS_Subset, FS_CardinalityType

\* A result that was recorded stays recorded.
LEMMA RecordedKept ==
    ASSUME IInv, [StoreNext]_storeVars, NEW r \in Runners, NEW result \in Results
    PROVE  Recorded(r, result) \subseteq Recorded(r, result)'
<1> SUFFICES ASSUME NEW e \in Recorded(r, result)
             PROVE  e \in Recorded(r, result)'
  OBVIOUS
<1> DEFINE h == e[1]
           k == e[2]
<1>1. /\ e \in Hashes \X (1..MaxAttempts) /\ h \in Hashes /\ k \in 1..MaxAttempts
      /\ log[h][k].runner = r /\ log[h][k].status = result
  BY DEF Recorded
<1>2. log[h][k] # NoRow /\ log[h][k].status # "running"
  BY <1>1 DEF NoRow, Results
<1>3. log'[h][k] = log[h][k]
  BY <1>1, <1>2, LogStep
<1> QED BY <1>1, <1>3 DEF Recorded

LEMMA RecordedGrows ==
    ASSUME IInv, [StoreNext]_storeVars, NEW r \in Runners, NEW result \in Results
    PROVE  /\ Cardinality(Recorded(r, result)) \in Nat
           /\ Cardinality(Recorded(r, result)') \in Nat
           /\ Cardinality(Recorded(r, result)) <= Cardinality(Recorded(r, result)')
<1> DEFINE S == Recorded(r, result)
           T == Recorded(r, result)'
<1>1. S \in SUBSET (Hashes \X (1..MaxAttempts)) /\ T \in SUBSET (Hashes \X (1..MaxAttempts))
  BY DEF Recorded
<1>2. S \in SUBSET T
  BY RecordedKept
<1> HIDE DEF S, T
<1>3. IsFiniteSet(S) /\ IsFiniteSet(T) /\ Cardinality(S) \in Nat /\ Cardinality(T) \in Nat
  BY <1>1, AttemptsFinite
<1>4. Cardinality(S) <= Cardinality(T)
  BY <1>2, <1>3, FS_Subset
<1> QED BY <1>3, <1>4 DEF S, T

\* Ending an attempt records one more.
LEMMA OneMoreRecorded ==
    ASSUME IInv, [StoreNext]_storeVars, NEW h \in Hashes, NEW r \in Runners,
           Leased(h, r), NEW result \in Results,
           NEW art \in Artifacts \cup {NoArtifact}, CloseAttempt(h, r, result, art)
    PROVE  Cardinality(Recorded(r, result)) + 1 <= Cardinality(Recorded(r, result)')
<1> DEFINE S == Recorded(r, result)
           T == Recorded(r, result)'
           e == <<h, attempt[h]>>
<1>1. /\ attempt[h] \in 1..MaxAttempts
      /\ log'[h][attempt[h]] = [runner |-> r, status |-> result, artifact |-> art]
  BY CloseAttemptFacts DEF Results
<1>2. log[h][attempt[h]].status = "running"
  BY DEF IInv, LeaseMatchesAttempt, Leased
<1>3. e \notin S
  BY <1>2 DEF Recorded, Results
<1>4. e \in T
  BY <1>1 DEF Recorded
<1>5. S \subseteq T
  BY RecordedKept
<1>6. S \in SUBSET (Hashes \X (1..MaxAttempts)) /\ T \in SUBSET (Hashes \X (1..MaxAttempts))
  BY DEF Recorded
<1> HIDE DEF S, T, e
<1>7. IsFiniteSet(S) /\ IsFiniteSet(T)
  BY <1>6, AttemptsFinite
<1>8. Cardinality(S \cup {e}) = Cardinality(S) + 1
  BY <1>3, <1>7, FS_AddElement
<1>9. S \cup {e} \in SUBSET T
  BY <1>4, <1>5
<1>10. Cardinality(S \cup {e}) <= Cardinality(T)
  BY <1>7, <1>9, FS_Subset
<1> QED BY <1>8, <1>10 DEF S, T

-----------------------------------------------------------------------------
(***************************************************************************)
(* What a runner counts.  Besides what it has counted, and the tasks whose *)
(* results it will count when it collects them, there are the tasks that   *)
(* have recorded a result and are still about to report it: without them   *)
(* the bound is not inductive.                                             *)
(***************************************************************************)
Counted(st, result) ==
    IF result = "succeeded" THEN st.succeeded
    ELSE IF result = "failed_retryable" THEN st.failed_retryable
    ELSE st.failed_terminal

Finished(r, slots, result) == {s \in slots : tasks[r][s].pc = result}

Failure(t) == IF t.retryable THEN "failed_retryable" ELSE "failed_terminal"

Counting(r, result) ==
    {s \in Slots :
        \/ tasks[r][s].pc = result
        \/ tasks[r][s].pc = "reporting_success" /\ result = "succeeded"
        \/ tasks[r][s].pc = "reporting_failure" /\ result = Failure(tasks[r][s])}

CountsRecorded ==
    \A r \in Runners, result \in Results :
        Counted(stats[r], result) + Cardinality(Counting(r, result))
            <= Cardinality(Recorded(r, result))

LEMMA CountedNat ==
    ASSUME RunnerTypeOK, NEW r \in Runners, NEW result \in Results
    PROVE  Counted(stats[r], result) \in Nat
BY DEF RunnerTypeOK, Stats, Counted

LEMMA TallyCounts ==
    ASSUME NEW r \in Runners, NEW slots \in SUBSET Slots, NEW result \in Results
    PROVE  Counted(Tally(r, slots), result)
              = Counted(stats[r], result) + Cardinality(Finished(r, slots, result))
BY DEF Tally, Counted, Finished, Results

\* What was counted does not change but by a tally or by starting anew.
LEMMA StatsMove ==
    ASSUME RunnerInv, [RunnerNext]_vars, NEW r \in Runners
    PROVE  \/ \A result \in Results : Counted(stats'[r], result) = Counted(stats[r], result)
           \/ \A result \in Results : Counted(stats'[r], result) = 0
           \/ Drain(r) /\ stats'[r] = Tally(r, Slots)
           \/ Collect(r) /\ stats'[r] = Tally(r, Done(r))
<1> DEFINE Goal ==
       \/ \A result \in Results : Counted(stats'[r], result) = Counted(stats[r], result)
       \/ \A result \in Results : Counted(stats'[r], result) = 0
       \/ Drain(r) /\ stats'[r] = Tally(r, Slots)
       \/ Collect(r) /\ stats'[r] = Tally(r, Done(r))
<1>1. stats \in [Runners -> Stats]
  BY DEF RunnerInv, RunnerTypeOK
<1>2. stats'[r] = stats[r] => Goal
  OBVIOUS
<1>3. stats'[r] = NoStats => Goal
  BY DEF NoStats, Counted
<1>4. ASSUME NEW q \in Runners, MainStep(q) PROVE Goal
  <2>1. ASSUME Idle(q) PROVE Goal
    BY <1>1, <1>2, <1>3, <2>1 DEF Idle
  <2>2. ASSUME NEW s \in Slots, Spawn(q, s) PROVE Goal
    BY <1>1, <2>2 DEF Spawn, Stats, Counted
  <2>3. ASSUME Drain(q) \/ Collect(q) PROVE Goal
    BY <1>1, <2>3 DEF Drain, Collect
  <2>4. ASSUME \/ Start(q) \/ SkipReclaim(q) \/ CollectRaises(q)
               \/ (\E lag \in Lags : ReclaimLeases(q, lag) \/ NoStageFound(q, lag))
               \/ StopClaiming(q)
               \/ (\E h \in Hashes, lag \in Lags : ClaimStage(q, h, lag))
        PROVE  Goal
    BY <1>2, <2>4 DEF Start, SkipReclaim, CollectRaises, ReclaimLeases, NoStageFound,
                      StopClaiming, ClaimStage
  <2> HIDE DEF Goal
  <2> QED BY <1>4, <2>1, <2>2, <2>3, <2>4 DEF MainStep
<1> HIDE DEF Goal
<1>5. ASSUME NEW q \in Runners, Interruption(q) PROVE Goal
  BY <1>2, <1>5 DEF Interruption, Stop, CancelMain, LateClaim, ExitLoop, LateCall, OnlyTasks
<1>6. ASSUME NEW q \in Runners, NEW s \in Slots,
             TaskStep(q, s) \/ \E lag \in Lags : Beat(q, s, lag)
      PROVE  Goal
  BY <1>2, <1>6 DEF TaskStep, Begin, HandlerReturns, HandlerRaises, CompleteStage,
              ReportSuccess, FailStage, ReportFailure, Beat, OnlyTasks
<1>7. Crash => Goal
  BY <1>3 DEF Crash
<1>8. PassTime \/ UNCHANGED vars => Goal
  BY <1>2 DEF PassTime, vars, runnerVars
<1>9. Goal
  BY <1>4, <1>5, <1>6, <1>7, <1>8 DEF RunnerNext
<1> QED BY <1>9 DEF Goal

LEMMA CountingFinite ==
    ASSUME NEW S \in SUBSET Slots
    PROVE  IsFiniteSet(S) /\ Cardinality(S) \in Nat
BY CountNat

\* Only by its own step does a task begin to count.
LEMMA CountingFrom ==
    ASSUME RunnerInv, [RunnerNext]_vars, NEW r \in Runners, NEW result \in Results,
           NEW s \in Slots, ~TaskStep(r, s), s \in Counting(r, result)'
    PROVE  s \in Counting(r, result)
<1> USE DEF Counting, Results
<1>1. ~Spawn(r, s)
  BY SpawnGives
<1>2. tasks'[r][s].pc \notin {"free"} \cup Late
  BY DEF Late
<1>3. tasks'[r][s].pc = tasks[r][s].pc /\ tasks'[r][s].retryable = tasks[r][s].retryable
  BY <1>1, <1>2, TaskPcMoves
<1> QED BY <1>3 DEF Failure

\* A task begins to count with the call that records its result.
LEMMA CountsWhenRecorded ==
    ASSUME RunnerInv, [RunnerNext]_vars, NEW r \in Runners, NEW result \in Results,
           NEW s \in Slots, TaskStep(r, s),
           s \in Counting(r, result)', s \notin Counting(r, result)
    PROVE  Cardinality(Recorded(r, result)) + 1 <= Cardinality(Recorded(r, result)')
<1> DEFINE t == tasks[r][s]
<1>1. IInv /\ [StoreNext]_storeVars
  BY RunnerStoreStep DEF RunnerInv
<1>2. t.pc \in {"completing", "failing"} =>
         t.stage \in Hashes /\ t.attempt \in 1..attempt[t.stage] /\ t.retryable \in BOOLEAN
  BY DEF RunnerInv, TasksOK, RunnerTypeOK, Task
<1>3. TaskMove(r, s)
  BY TaskMoves
<1>4. \/ result = "succeeded" /\ t.pc = "completing" /\ Complete(t.stage, r, t.attempt)
      \/ /\ result = Failure(t) /\ t.pc = "failing"
         /\ \E lag \in Lags : Fail(t.stage, r, t.retryable, lag)
  BY <1>3 DEF TaskMove, Counting, Results, Failure
<1>5. CASE result = "succeeded" /\ t.pc = "completing" /\ Complete(t.stage, r, t.attempt)
  <2>1. t.attempt \in Artifacts
    <3>1. attempt[t.stage] \in 0..MaxAttempts
      BY <1>1, <1>2, <1>5 DEF IInv, StoreTypeOK
    <3>2. t.attempt \in 1..MaxAttempts
      BY <1>2, <1>5, <3>1, StoreAssumption
    <3> QED BY <3>2, RunnerAssumption
  <2> QED BY <1>1, <1>2, <1>5, <2>1, OneMoreRecorded DEF Complete
<1>6. ASSUME result = Failure(t), t.pc = "failing",
             NEW lag \in Lags, Fail(t.stage, r, t.retryable, lag)
      PROVE  Cardinality(Recorded(r, result)) + 1 <= Cardinality(Recorded(r, result)')
  BY <1>1, <1>2, <1>6, OneMoreRecorded DEF Fail, Failure
<1> QED BY <1>4, <1>5, <1>6

\* What is collected was counting, and counts no longer.
LEMMA CollectedCounted ==
    ASSUME RunnerTypeOK, NEW r \in Runners, NEW result \in Results, NEW slots \in SUBSET Slots,
           (Drain(r) /\ slots = Slots) \/ (Collect(r) /\ slots = Done(r))
    PROVE  /\ Finished(r, slots, result) \subseteq Counting(r, result)
           /\ Finished(r, slots, result) \cap Counting(r, result)' = {}
<1>1. Finished(r, slots, result) \subseteq Counting(r, result)
  BY DEF Finished, Counting
<1>2. ASSUME NEW s \in slots PROVE tasks'[r][s].pc \in {"free"} \cup Late
  <2>1. CASE Drain(r)
    BY <2>1, CancelAllFacts, CancelledFacts DEF Drain, RunnerTypeOK
  <2>2. CASE Collect(r) /\ slots = Done(r)
    BY <2>2, CollectFacts, FreeTaskFacts
  <2> QED BY <2>1, <2>2
<1>3. Finished(r, slots, result) \cap Counting(r, result)' = {}
  BY <1>2 DEF Finished, Counting, Results, Late
<1> QED BY <1>1, <1>3

LEMMA CountsStep ==
    ASSUME RunnerInv, CountsRecorded, [RunnerNext]_vars
    PROVE  CountsRecorded'
<1> SUFFICES ASSUME NEW r \in Runners, NEW result \in Results
             PROVE  Counted(stats'[r], result) + Cardinality(Counting(r, result)')
                       <= Cardinality(Recorded(r, result)')
  BY DEF CountsRecorded
<1> DEFINE c == Counted(stats[r], result)
           d == Counted(stats'[r], result)
           C == Counting(r, result)
           D == Counting(r, result)'
           m == Cardinality(Recorded(r, result))
           n == Cardinality(Recorded(r, result)')
<1>1. RunnerTypeOK /\ RunnerTypeOK' /\ IInv /\ [StoreNext]_storeVars
  BY RunnerStoreStep, RunnerNextInv DEF RunnerInv
<1>2. c \in Nat /\ d \in Nat
  BY <1>1 DEF RunnerTypeOK, Stats, Counted
<1>3. m \in Nat /\ n \in Nat /\ m <= n
  BY <1>1, RecordedGrows
<1>4. C \in SUBSET Slots /\ D \in SUBSET Slots
  BY DEF Counting
<1>5. c + Cardinality(C) <= m
  BY DEF CountsRecorded
<1>6. \A s \in Slots : ~TaskStep(r, s) /\ s \in D => s \in C
  BY CountingFrom
<1>7. \A s \in Slots : TaskStep(r, s) /\ s \in D /\ s \notin C => m + 1 <= n
  BY CountsWhenRecorded
<1>8. ASSUME NEW s \in Slots, TaskStep(r, s)
      PROVE  d = c /\ \A u \in Slots \ {s} : u \in D => u \in C
  <2>1. stats' = stats
    BY <1>8 DEF TaskStep, Begin, HandlerReturns, HandlerRaises, CompleteStage,
                ReportSuccess, FailStage, ReportFailure, OnlyTasks
  <2>2. \A u \in Slots \ {s} : tasks'[r][u] = tasks[r][u]
    BY <1>1, <1>8, TaskStepElsewhere DEF Elsewhere
  <2> QED BY <2>1, <2>2 DEF Counting, Failure
<1>9. \/ d = c \/ d = 0
      \/ \E slots \in SUBSET Slots :
            LET F == Finished(r, slots, result) IN
            d = c + Cardinality(F) /\ F \subseteq C /\ F \cap D = {}
  <2>1. CASE Drain(r) /\ stats'[r] = Tally(r, Slots)
    <3>1. Slots \in SUBSET Slots
      OBVIOUS
    <3>2. d = c + Cardinality(Finished(r, Slots, result))
      BY <2>1, <3>1, TallyCounts
    <3>3. /\ Finished(r, Slots, result) \subseteq C
          /\ Finished(r, Slots, result) \cap D = {}
      BY <1>1, <2>1, <3>1, CollectedCounted
    <3> QED BY <3>1, <3>2, <3>3
  <2>2. CASE Collect(r) /\ stats'[r] = Tally(r, Done(r))
    <3>1. Done(r) \in SUBSET Slots
      BY DEF Done
    <3> QED BY <1>1, <2>2, <3>1, TallyCounts, CollectedCounted
  <2> QED BY <2>1, <2>2, StatsMove
<1>10. \A slots \in SUBSET Slots : Finished(r, slots, result) \in SUBSET Slots
  BY DEF Finished
<1> HIDE DEF c, d, C, D, m, n
<1>11. /\ IsFiniteSet(C) /\ Cardinality(C) \in Nat
       /\ IsFiniteSet(D) /\ Cardinality(D) \in Nat
  BY <1>4, CountingFinite
<1>12. D \in SUBSET C => Cardinality(D) <= Cardinality(C)
  BY <1>11, FS_Subset
<1>13. CASE \E s \in Slots : TaskStep(r, s)
  <2>1. PICK s \in Slots : TaskStep(r, s)
    BY <1>13
  <2>2. CASE s \in D /\ s \notin C
    <3>1. D \in SUBSET (C \cup {s}) /\ m + 1 <= n /\ d = c
      BY <1>4, <1>7, <1>8, <2>1, <2>2
    <3>2. IsFiniteSet(C \cup {s}) /\ Cardinality(C \cup {s}) = Cardinality(C) + 1
      BY <1>11, <2>2, FS_AddElement
    <3>3. Cardinality(D) <= Cardinality(C) + 1
      BY <3>1, <3>2, FS_Subset
    <3>4. d + Cardinality(D) <= n
      BY <1>2, <1>3, <1>5, <1>11, <3>1, <3>3
    <3> QED BY <3>4 DEF d, D, n
  <2>3. CASE ~(s \in D /\ s \notin C)
    <3>1. D \in SUBSET C /\ d = c
      BY <1>4, <1>8, <2>1, <2>3
    <3>2. d + Cardinality(D) <= n
      BY <1>2, <1>3, <1>5, <1>11, <1>12, <3>1
    <3> QED BY <3>2 DEF d, D, n
  <2> QED BY <2>2, <2>3
<1>14. CASE ~ \E s \in Slots : TaskStep(r, s)
  <2>1. D \in SUBSET C
    BY <1>4, <1>6, <1>14
  <2>2. CASE d = c \/ d = 0
    <3>1. d + Cardinality(D) <= n
      BY <1>2, <1>3, <1>5, <1>11, <1>12, <2>1, <2>2
    <3> QED BY <3>1 DEF d, D, n
  <2>3. ASSUME NEW F \in SUBSET Slots, d = c + Cardinality(F), F \subseteq C, F \cap D = {}
        PROVE  d + Cardinality(D) <= n
    <3>1. D \in SUBSET (C \ F) /\ C \cap F = F
      BY <2>1, <2>3
    <3>2. /\ IsFiniteSet(C \ F)
          /\ Cardinality(C \ F) = Cardinality(C) - Cardinality(F)
          /\ Cardinality(F) \in Nat
      BY <1>11, <2>3, <3>1, FS_Difference, CountingFinite
    <3>3. Cardinality(D) <= Cardinality(C) - Cardinality(F)
      BY <3>1, <3>2, FS_Subset
    <3> QED BY <1>2, <1>3, <1>5, <1>11, <2>3, <3>2, <3>3
  <2>4. d + Cardinality(D) <= n
    BY <1>9, <1>10, <2>2, <2>3 DEF d, D, n
  <2> QED BY <2>4 DEF d, D, n
<1> QED BY <1>13, <1>14

LEMMA CountsInit == RunnerInit => CountsRecorded
<1> SUFFICES ASSUME RunnerInit, NEW r \in Runners, NEW result \in Results
             PROVE  Counted(stats[r], result) + Cardinality(Counting(r, result))
                       <= Cardinality(Recorded(r, result))
  BY DEF CountsRecorded
<1>1. Counting(r, result) = {}
  BY FreeTaskFacts DEF RunnerInit, Counting, Results
<1>2. Cardinality(Counting(r, result)) = 0
  BY <1>1, FS_EmptySet
<1>3. Counted(stats[r], result) = 0
  BY DEF RunnerInit, NoStats, Counted
<1>4. Cardinality(Recorded(r, result)) \in Nat
  <2>1. Recorded(r, result) \in SUBSET (Hashes \X (1..MaxAttempts))
    BY DEF Recorded
  <2> QED BY <2>1, AttemptsFinite
<1> QED BY <1>2, <1>3, <1>4

LEMMA CountsBound ==
    ASSUME RunnerInv, CountsRecorded, NEW r \in Runners, NEW result \in Results
    PROVE  Counted(Tally(r, Slots), result) <= Cardinality(Recorded(r, result))
<1> DEFINE F == Finished(r, Slots, result)
           C == Counting(r, result)
           m == Cardinality(Recorded(r, result))
<1>1. F \in SUBSET C /\ C \in SUBSET Slots /\ Slots \in SUBSET Slots
  BY DEF Finished, Counting
<1>2. Counted(Tally(r, Slots), result) = Counted(stats[r], result) + Cardinality(F)
  BY <1>1, TallyCounts
<1>3. Counted(stats[r], result) \in Nat
  BY CountedNat DEF RunnerInv
<1>4. m \in Nat
  <2>1. Recorded(r, result) \in SUBSET (Hashes \X (1..MaxAttempts))
    BY DEF Recorded
  <2> QED BY <2>1, AttemptsFinite
<1>5. Counted(stats[r], result) + Cardinality(C) <= m
  BY DEF CountsRecorded
<1> HIDE DEF F, C, m
<1>6. /\ Cardinality(F) <= Cardinality(C)
      /\ Cardinality(F) \in Nat /\ Cardinality(C) \in Nat
  BY <1>1, FS_Subset, CountingFinite
<1> QED BY <1>2, <1>3, <1>4, <1>5, <1>6 DEF m

\* Every success or failure that a runner counts, or is about to count, was
\* recorded in the store by that runner, whatever leases it lost and whatever
\* became of its tasks: stats never claim work that the store does not know of
\* (_execute_stage returns its result after complete_stage or fail_stage has,
\* and run_until_idle adds each result once, runner.py).
THEOREM StatsAreRecorded == RunnerSpec => []OutcomesRecorded
<1>1. RunnerInv /\ CountsRecorded => OutcomesRecorded
  <2> SUFFICES ASSUME RunnerInv, CountsRecorded, NEW r \in Runners
               PROVE  /\ Tally(r, Slots).succeeded
                            <= Cardinality(Recorded(r, "succeeded"))
                      /\ Tally(r, Slots).failed_retryable
                            <= Cardinality(Recorded(r, "failed_retryable"))
                      /\ Tally(r, Slots).failed_terminal
                            <= Cardinality(Recorded(r, "failed_terminal"))
    BY DEF OutcomesRecorded, Recorded
  <2>1. \A result \in Results :
           Counted(Tally(r, Slots), result) <= Cardinality(Recorded(r, result))
    BY CountsBound
  <2> QED BY <2>1 DEF Counted, Results
<1> QED BY <1>1, CountsInit, CountsStep, RunnerInvariant, PTL DEF RunnerSpec

-----------------------------------------------------------------------------
(***************************************************************************)
(* Claims.  As long as a runner is neither stopped nor raised, each of its *)
(* claims has been counted with a result or is a task in in_flight.        *)
(***************************************************************************)
Total(st) == st.succeeded + st.failed_retryable + st.failed_terminal

Going(r) == pc[r] \in Looping \cup {"returned"} /\ ~stopping[r]

Accounted(r) ==
    /\ \A s \in Slots : tasks[r][s].pc \notin Late
    /\ pc[r] \in {"start", "idle", "returned"} => InFlight(r) = {}
    /\ stats[r].claimed = Total(stats[r]) + Cardinality(InFlight(r))

ClaimsKnown == \A r \in Runners : Going(r) => Accounted(r)

\* A step that neither fills nor frees a slot nor counts.
LEMMA AccountedSame ==
    ASSUME NEW r \in Runners, Accounted(r), stats'[r] = stats[r],
           \A s \in Slots : /\ (tasks'[r][s].pc = "free") <=> (tasks[r][s].pc = "free")
                            /\ tasks'[r][s].pc \notin Late,
           pc'[r] \in {"start", "idle", "returned"} => InFlight(r) = {}
    PROVE  Accounted(r)'
<1>1. InFlight(r)' = InFlight(r)
  BY DEF InFlight
<1> QED BY <1>1 DEF Accounted

\* Steps of other runners are none of r's business.
LEMMA OtherRunners ==
    ASSUME RunnerTypeOK, NEW r \in Runners, NEW q \in Runners, q # r,
           MainStep(q) \/ Interruption(q)
    PROVE  tasks'[r] = tasks[r] /\ stats'[r] = stats[r] /\ pc'[r] = pc[r]
<1> USE DEF RunnerTypeOK, Goto, Returns
<1>1. CASE MainStep(q)
  BY <1>1 DEF MainStep, Start, Idle, Drain, CancelAll, ReclaimLeases, SkipReclaim,
              ClaimStage, Spawn, NoStageFound, StopClaiming, Collect, CollectRaises
<1>2. CASE Interruption(q)
  BY <1>2 DEF Interruption, Stop, CancelMain, LateClaim, ExitLoop, CancelAll, LateCall,
              OnlyTasks
<1> QED BY <1>1, <1>2

LEMMA SpawnAccounted ==
    ASSUME RunnerInv, NEW r \in Runners, NEW s \in Slots, Spawn(r, s), Accounted(r)
    PROVE  Accounted(r)'
<1>1. RunnerTypeOK
  BY DEF RunnerInv
<1>2. /\ tasks[r][s].pc = "free" /\ tasks'[r][s].pc = "starting"
      /\ \A u \in Slots : u # s => tasks'[r][u] = tasks[r][u]
  BY SpawnGives, FreeTaskFacts DEF Spawn
<1>3. InFlight(r)' = InFlight(r) \cup {s} /\ s \notin InFlight(r)
  BY <1>2 DEF InFlight
<1>4. InFlight(r) \in SUBSET Slots
  BY DEF InFlight
<1>5. /\ Cardinality(InFlight(r)') = Cardinality(InFlight(r)) + 1
      /\ Cardinality(InFlight(r)) \in Nat
  BY <1>3, <1>4, CountingFinite, FS_AddElement
<1>6. /\ stats'[r].claimed = stats[r].claimed + 1
      /\ stats'[r].succeeded = stats[r].succeeded
      /\ stats'[r].failed_retryable = stats[r].failed_retryable
      /\ stats'[r].failed_terminal = stats[r].failed_terminal
      /\ stats[r] \in Stats
  BY <1>1 DEF Spawn, RunnerTypeOK, Stats
<1>7. stats'[r].claimed = Total(stats'[r]) + Cardinality(InFlight(r)')
  BY <1>5, <1>6 DEF Accounted, Total, Stats
<1>8. \A u \in Slots : tasks'[r][u].pc \notin Late
  BY <1>2 DEF Accounted, Late
<1>9. pc'[r] = "claim"
  BY <1>1 DEF Spawn, Goto, RunnerTypeOK
<1> QED BY <1>7, <1>8, <1>9 DEF Accounted

\* The three results of what is collected add up.
LEMMA CollectAccounted ==
    ASSUME RunnerInv, NEW r \in Runners, Collect(r), Accounted(r)
    PROVE  Accounted(r)'
<1> DEFINE A == Finished(r, Done(r), "succeeded")
           B == Finished(r, Done(r), "failed_retryable")
           C == Finished(r, Done(r), "failed_terminal")
           D == Done(r)
           F == InFlight(r)
<1>1. RunnerTypeOK
  BY DEF RunnerInv
<1>2. \A s \in Slots : tasks'[r][s] = IF s \in D THEN FreeTask ELSE tasks[r][s]
  BY <1>1, CollectFacts
<1>3. InFlight(r)' = F \ D
  BY <1>2, FreeTaskFacts DEF InFlight
<1>4. D = (A \cup B) \cup C /\ A \cap B = {} /\ (A \cup B) \cap C = {}
  BY DEF Collect, Done, Finished, Results
<1>5. /\ A \in SUBSET Slots /\ B \in SUBSET Slots /\ C \in SUBSET Slots
      /\ D \in SUBSET Slots /\ F \in SUBSET Slots
  BY DEF Done, Finished, InFlight
<1>6. F \cap D = D
  BY DEF Done, InFlight, Results
<1>7. stats'[r] = Tally(r, D)
  BY <1>1 DEF Collect, RunnerTypeOK
<1>8. /\ stats'[r].claimed = stats[r].claimed
      /\ stats'[r].succeeded = stats[r].succeeded + Cardinality(A)
      /\ stats'[r].failed_retryable = stats[r].failed_retryable + Cardinality(B)
      /\ stats'[r].failed_terminal = stats[r].failed_terminal + Cardinality(C)
  BY <1>7 DEF Tally, Finished
<1>9. \A s \in Slots : tasks'[r][s].pc \notin Late
  BY <1>2, FreeTaskFacts DEF Accounted, Late
<1>10. pc'[r] \in {"start", "idle", "returned"} => F \ D = {}
  BY <1>1 DEF Collect, Goto, RunnerTypeOK
<1>11. stats[r] \in Stats /\ stats[r].claimed = Total(stats[r]) + Cardinality(F)
  BY <1>1 DEF RunnerTypeOK, Accounted
<1> HIDE DEF A, B, C, D, F
<1>12. /\ IsFiniteSet(A) /\ Cardinality(A) \in Nat
       /\ IsFiniteSet(B) /\ Cardinality(B) \in Nat
       /\ IsFiniteSet(C) /\ Cardinality(C) \in Nat
       /\ IsFiniteSet(D) /\ Cardinality(D) \in Nat
       /\ IsFiniteSet(F) /\ Cardinality(F) \in Nat
  BY <1>5, CountingFinite
<1>13. /\ IsFiniteSet(A \cup B)
       /\ Cardinality(A \cup B) = Cardinality(A) + Cardinality(B) - Cardinality(A \cap B)
  BY <1>12, FS_Union
<1>14. Cardinality((A \cup B) \cup C)
          = Cardinality(A \cup B) + Cardinality(C) - Cardinality((A \cup B) \cap C)
  BY <1>12, <1>13, FS_Union
<1>15. Cardinality(D) = Cardinality(A) + Cardinality(B) + Cardinality(C)
  <2>1. Cardinality(A \cap B) = 0 /\ Cardinality((A \cup B) \cap C) = 0
    BY <1>4, FS_EmptySet
  <2>2. Cardinality(D) = Cardinality((A \cup B) \cup C)
    BY <1>4
  <2> QED BY <1>12, <1>13, <1>14, <2>1, <2>2
<1>16. Cardinality(F \ D) = Cardinality(F) - Cardinality(D)
  BY <1>6, <1>12, FS_Difference
<1>17. stats'[r].claimed = Total(stats'[r]) + Cardinality(F \ D)
  BY <1>8, <1>11, <1>12, <1>15, <1>16 DEF Total, Stats
<1> QED BY <1>3, <1>9, <1>10, <1>17 DEF Accounted

LEMMA MainStepAccounted ==
    ASSUME RunnerInv, NEW r \in Runners, MainStep(r), Going(r), Going(r)', Accounted(r)
    PROVE  Accounted(r)'
<1>1. RunnerTypeOK
  BY DEF RunnerInv
<1>2. ASSUME UNCHANGED <<tasks, stats>>,
             pc'[r] \in {"start", "idle", "returned"} => InFlight(r) = {}
      PROVE  Accounted(r)'
  BY <1>2, AccountedSame DEF Accounted
<1>3. CASE Start(r)
  BY <1>1, <1>2, <1>3 DEF Start, Goto, RunnerTypeOK, Accounted
<1>4. CASE Idle(r)
  <2>1. stats'[r] = NoStats /\ tasks' = tasks /\ InFlight(r) = {} /\ pc'[r] = "top"
    BY <1>1, <1>4 DEF Idle, Goto, RunnerTypeOK, Accounted, Going, Looping
  <2>2. InFlight(r)' = {} /\ Cardinality({}) = 0
    BY <2>1, FS_EmptySet DEF InFlight
  <2>3. stats'[r].claimed = Total(stats'[r]) + Cardinality(InFlight(r)')
    BY <2>1, <2>2 DEF NoStats, Total
  <2> QED BY <2>1, <2>2, <2>3 DEF Accounted
<1>5. ~Drain(r)
  BY DEF Drain, Going
<1>6. CASE \/ SkipReclaim(r)
           \/ (\E lag \in Lags : ReclaimLeases(r, lag))
           \/ (\E h \in Hashes, lag \in Lags : ClaimStage(r, h, lag))
  <2>1. UNCHANGED <<tasks, stats>> /\ pc'[r] \in {"claim", "raised", "reread"}
    BY <1>1, <1>6 DEF SkipReclaim, ReclaimLeases, ClaimStage, Goto, RunnerTypeOK
  <2> QED BY <1>2, <2>1
<1>7. CASE StopClaiming(r) \/ \E lag \in Lags : NoStageFound(r, lag)
  <2>1. UNCHANGED <<tasks, stats>> /\ (InFlight(r) = {} \/ pc'[r] \in {"wait", "empty"})
    BY <1>1, <1>7 DEF NoStageFound, StopClaiming, Goto, RunnerTypeOK
  <2> QED BY <1>2, <2>1
<1>8. ~CollectRaises(r)
  BY <1>1 DEF CollectRaises, Goto, Going, RunnerTypeOK, Looping
<1> QED BY <1>3, <1>4, <1>5, <1>6, <1>7, <1>8, SpawnAccounted, CollectAccounted DEF MainStep

LEMMA InterruptionAccounted ==
    ASSUME RunnerInv, NEW r \in Runners, Interruption(r), Going(r), Accounted(r)
    PROVE  ~Going(r)'
<1>1. RunnerTypeOK
  BY DEF RunnerInv
<1>2. CASE Stop(r)
  BY <1>1, <1>2 DEF Stop, Going, RunnerTypeOK
<1>3. CASE CancelMain(r)
  BY <1>1, <1>3 DEF CancelMain, Going, RunnerTypeOK
<1>4. ASSUME NEW lag \in Lags, LateClaim(r, lag) PROVE FALSE
  BY <1>4 DEF LateClaim, Going, Looping
<1>5. ~ExitLoop(r)
  BY DEF ExitLoop, Going, Accounted, InFlight, Looping, Over
<1>6. ASSUME NEW s \in Slots, NEW lag \in Lags, LateCall(r, s, lag) PROVE FALSE
  BY <1>6 DEF LateCall, Accounted
<1> QED BY <1>2, <1>3, <1>4, <1>5, <1>6 DEF Interruption

\* A runner that goes on has been going before, unless the process is new.
LEMMA GoingFrom ==
    ASSUME RunnerInv, [RunnerNext]_vars, NEW r \in Runners, Going(r)', ~Crash
    PROVE  Going(r)
<1>1. /\ pc \in [Runners -> Looping \cup Over \cup {"late_claim"}]
      /\ stopping \in [Runners -> BOOLEAN]
  BY DEF RunnerInv, RunnerTypeOK
<1> USE DEF Going, Looping, Over
<1>2. ASSUME NEW q \in Runners, MainStep(q) PROVE Going(r)
  BY <1>1, <1>2 DEF MainStep, Start, Idle, Drain, ReclaimLeases, SkipReclaim, ClaimStage,
                    Spawn, NoStageFound, StopClaiming, ClaimLoopEnds, Collect,
                    CollectRaises, Goto, Returns
<1>3. ASSUME NEW q \in Runners, Interruption(q) PROVE Going(r)
  BY <1>1, <1>3 DEF Interruption, Stop, CancelMain, LateClaim, ExitLoop, LateCall,
                    OnlyTasks, Goto
<1>4. ASSUME NEW q \in Runners, NEW s \in Slots,
             TaskStep(q, s) \/ \E lag \in Lags : Beat(q, s, lag)
      PROVE  Going(r)
  BY <1>4 DEF TaskStep, Begin, HandlerReturns, HandlerRaises, CompleteStage,
              ReportSuccess, FailStage, ReportFailure, Beat, OnlyTasks
<1>5. PassTime \/ UNCHANGED vars => Going(r)
  BY DEF PassTime, vars, runnerVars
<1> QED BY <1>2, <1>3, <1>4, <1>5 DEF RunnerNext

LEMMA ClaimsStep ==
    ASSUME RunnerInv, ClaimsKnown, [RunnerNext]_vars
    PROVE  ClaimsKnown'
<1> SUFFICES ASSUME NEW r \in Runners, Going(r)' PROVE Accounted(r)'
  BY DEF ClaimsKnown
<1>1. RunnerTypeOK
  BY DEF RunnerInv
<1>2. CASE Crash
  <2>1. InFlight(r)' = {} /\ Cardinality({}) = 0 /\ stats'[r] = NoStats
    BY <1>2, FreeTaskFacts, FS_EmptySet DEF Crash, InFlight
  <2>2. \A s \in Slots : tasks'[r][s].pc \notin Late
    BY <1>2, FreeTaskFacts DEF Crash, Late
  <2>3. stats'[r].claimed = Total(stats'[r]) + Cardinality(InFlight(r)')
    BY <2>1 DEF NoStats, Total
  <2> QED BY <2>1, <2>2, <2>3 DEF Accounted
<1>3. CASE ~Crash
  <2>1. Going(r) /\ Accounted(r)
    BY <1>3, GoingFrom DEF ClaimsKnown
  <2>2. ASSUME tasks'[r] = tasks[r], stats'[r] = stats[r], pc'[r] = pc[r]
        PROVE  Accounted(r)'
    BY <2>1, <2>2, AccountedSame DEF Accounted
  <2>3. ASSUME NEW q \in Runners, MainStep(q) PROVE Accounted(r)'
    BY <1>1, <2>1, <2>2, <2>3, MainStepAccounted, OtherRunners
  <2>4. ASSUME NEW q \in Runners, Interruption(q) PROVE Accounted(r)'
    BY <1>1, <2>1, <2>2, <2>4, InterruptionAccounted, OtherRunners
  <2>5. ASSUME NEW q \in Runners, NEW s \in Slots, TaskStep(q, s) PROVE Accounted(r)'
    <3>1. stats' = stats /\ pc' = pc
      BY <2>5 DEF TaskStep, Begin, HandlerReturns, HandlerRaises, CompleteStage,
                  ReportSuccess, FailStage, ReportFailure, OnlyTasks
    <3>2. Elsewhere(q, s)
      BY <1>1, <2>5, TaskStepElsewhere
    <3>3. /\ tasks[q][s].pc # "free" /\ tasks'[q][s].pc # "free"
          /\ tasks'[q][s].pc \notin Late
      BY <2>5, TaskMoves DEF TaskMove, Late
    <3>4. \A u \in Slots : /\ (tasks'[r][u].pc = "free") <=> (tasks[r][u].pc = "free")
                           /\ tasks'[r][u].pc \notin Late
      BY <2>1, <3>2, <3>3 DEF Elsewhere, Accounted
    <3> QED BY <2>1, <3>1, <3>4, AccountedSame DEF Accounted
  <2>6. ASSUME NEW q \in Runners, NEW s \in Slots, NEW lag \in Lags, Beat(q, s, lag)
        PROVE  Accounted(r)'
    <3>1. stats' = stats /\ pc' = pc
      BY <2>6 DEF Beat, OnlyTasks
    <3>2. \A u \in Slots : tasks'[r][u].pc = tasks[r][u].pc
      BY <1>1, <2>6, BeatFacts DEF TasksKept
    <3> QED BY <2>1, <3>1, <3>2, AccountedSame DEF Accounted
  <2>7. PassTime \/ UNCHANGED vars => Accounted(r)'
    BY <2>2 DEF PassTime, vars, runnerVars
  <2> QED BY <1>3, <2>3, <2>4, <2>5, <2>6, <2>7 DEF RunnerNext
<1> QED BY <1>2, <1>3

LEMMA ClaimsInit == RunnerInit => ClaimsKnown
<1> SUFFICES ASSUME RunnerInit, NEW r \in Runners PROVE Accounted(r)
  BY DEF ClaimsKnown
<1>1. InFlight(r) = {} /\ Cardinality({}) = 0 /\ stats[r] = NoStats
  BY FreeTaskFacts, FS_EmptySet DEF RunnerInit, InFlight
<1>2. \A s \in Slots : tasks[r][s].pc \notin Late
  BY FreeTaskFacts DEF RunnerInit, Late
<1>3. stats[r].claimed = Total(stats[r]) + Cardinality(InFlight(r))
  BY <1>1 DEF NoStats, Total
<1> QED BY <1>1, <1>2, <1>3 DEF Accounted

\* When run_until_idle returns of itself, each of its claims is accounted for
\* by exactly one result, and no task of it is left behind: none is dropped
\* from in_flight before its result was counted, and none is counted twice.
THEOREM EveryClaimIsCounted == RunnerSpec => []ClaimsAccountedFor
<1>1. RunnerInv /\ ClaimsKnown => ClaimsAccountedFor
  <2> SUFFICES ASSUME RunnerInv, ClaimsKnown, NEW r \in Runners,
                      pc[r] \in {"idle", "returned"}, ~stopping[r]
               PROVE  /\ InFlight(r) = {}
                      /\ stats[r].claimed = stats[r].succeeded + stats[r].failed_retryable
                                              + stats[r].failed_terminal
    BY DEF ClaimsAccountedFor
  <2>1. InFlight(r) = {} /\ stats[r].claimed = Total(stats[r]) + Cardinality(InFlight(r))
    BY DEF ClaimsKnown, Going, Accounted, Looping
  <2>2. stats[r] \in Stats /\ Cardinality({}) = 0
    BY FS_EmptySet DEF RunnerInv, RunnerTypeOK
  <2> QED BY <2>1, <2>2 DEF Total, Stats
<1> QED BY <1>1, ClaimsInit, ClaimsStep, RunnerInvariant, PTL DEF RunnerSpec

-----------------------------------------------------------------------------
(***************************************************************************)
(* Wakeups.  A runner watches while it has not yet looked for the last     *)
(* time: it is about to claim, or has a task in flight and looks again     *)
(* when it has collected it.  One that was stopped, that raised or that    *)
(* has used up max_claims counts as watching: it is not idle for want of   *)
(* work.  As long as there is a stage to claim, someone watches.           *)
(***************************************************************************)
Watching(r) ==
    \/ stopping[r]
    \/ stats[r].claimed >= MaxClaims
    \/ pc[r] \notin {"empty", "wait", "idle", "returned"}
    \/ pc[r] \in {"empty", "wait"} /\ InFlight(r) # {}

SomeoneWatches ==
    (\E h \in Hashes : Runnable(h)) /\ Cardinality(WaitingRows) <= ClaimLimit =>
        \E r \in Runners : Watching(r)

\* There are finitely many rows.
LEMMA WaitingRowsFinite ==
    ASSUME order \in Seq(Hashes)
    PROVE  IsFiniteSet(WaitingRows) /\ Cardinality(WaitingRows) \in Nat
<1>1. Len(order) \in Nat /\ WaitingRows \subseteq 1..Len(order)
  BY DEF WaitingRows
<1>2. IsFiniteSet(1..Len(order))
  BY <1>1, FS_Interval
<1> QED BY <1>1, <1>2, FS_Subset, FS_CardinalityType

\* A claim that finds nothing although a stage is runnable had its query cut
\* off: more rows wait than the query returns.
LEMMA NothingFoundMeansCutOff ==
    ASSUME order \in Seq(Hashes), order = PlanOrder, NEW lag, NothingToClaim(lag),
           NEW h \in Hashes, Runnable(h)
    PROVE  Cardinality(WaitingRows) > ClaimLimit
<1>1. PICK i \in DOMAIN order : order[i] = h
  BY RunnerAssumption DEF ToSet
<1> DEFINE before == {j \in Selected(lag) : j < i}
<1>2. i \in Selected(lag) /\ i \notin Window(lag)
  BY <1>1 DEF Runnable, Selected, Selectable, RunnableIn, NothingToClaim
<1>3. Selected(lag) \subseteq WaitingRows /\ i \in WaitingRows
  BY <1>2 DEF Selected, Selectable, WaitingRows
<1>4. IsFiniteSet(WaitingRows)
  BY WaitingRowsFinite
<1>5. before \subseteq WaitingRows \ {i} /\ i \in Int
  BY <1>1, <1>3 DEF WaitingRows
<1>6. ~(Cardinality(before) < ClaimLimit)
  BY <1>2 DEF Window
<1> HIDE DEF before
<1>7. /\ IsFiniteSet(WaitingRows \ {i})
      /\ Cardinality(WaitingRows \ {i}) = Cardinality(WaitingRows) - 1
  BY <1>3, <1>4, FS_RemoveElement
<1>8. /\ IsFiniteSet(before) /\ Cardinality(before) \in Nat
      /\ Cardinality(before) <= Cardinality(WaitingRows \ {i})
      /\ Cardinality(WaitingRows) \in Nat
  BY <1>4, <1>5, <1>7, FS_Subset, FS_CardinalityType
<1> QED BY <1>6, <1>7, <1>8, StoreAssumption

\* A runner whose loop is over, or is to end, is not idle for want of work.
LEMMA OthersWatch ==
    ASSUME NEW r \in Runners, ~Going(r), RunnerTypeOK
    PROVE  stopping[r] \/ pc[r] \in {"raised", "late_claim", "cancelled"}
BY DEF Going, RunnerTypeOK, Looping, Over

\* The thread of a store call outlives its task only in such a runner.
LEMMA LateOnlyElsewhere ==
    ASSUME ClaimsKnown, RunnerTypeOK, NEW r \in Runners, NEW s \in Slots,
           tasks[r][s].pc \in Late
    PROVE  stopping[r] \/ pc[r] \in {"raised", "late_claim", "cancelled"}
BY OthersWatch DEF ClaimsKnown, Accounted

\* A runner stops watching only when a claim finds nothing.
LEMMA WatchingLasts ==
    ASSUME RunnerInv, ClaimsKnown, [RunnerNext]_vars, NEW r \in Runners, Watching(r),
           ~ \E lag \in Lags : NoStageFound(r, lag)
    PROVE  Watching(r)'
<1>1. RunnerTypeOK
  BY DEF RunnerInv
<1>2. ASSUME UNCHANGED <<pc, stats, stopping>>, InFlight(r)' = InFlight(r)
      PROVE  Watching(r)'
  BY <1>2 DEF Watching
<1>3. ASSUME stopping'[r] \/ pc'[r] \notin {"empty", "wait", "idle", "returned"}
      PROVE  Watching(r)'
  BY <1>3 DEF Watching
<1>4. CASE MainStep(r)
  <2> USE <1>1 DEF RunnerTypeOK, Goto
  <2>1. CASE StopClaiming(r)
    <3>1. UNCHANGED <<stats, stopping>> /\ InFlight(r)' = InFlight(r)
      BY <2>1 DEF StopClaiming, InFlight
    <3>2. CASE InFlight(r) # {}
      BY <2>1, <3>1, <3>2 DEF StopClaiming, Watching
    <3>3. CASE InFlight(r) = {}
      <4>1. Cardinality(InFlight(r)) < Cardinality(Slots)
        <5>1. Cardinality(Slots) # 0 /\ Cardinality(Slots) \in Nat
          BY RunnerAssumption, FS_EmptySet, FS_CardinalityType
        <5> QED BY <3>3, <5>1, FS_EmptySet
      <4>2. stopping[r] \/ stats[r].claimed >= MaxClaims
        BY <2>1, <3>3, <4>1, RunnerAssumption
           DEF StopClaiming, ClaimLoopEnds, MayClaim, Watching, Stats
      <4> QED BY <3>1, <4>2 DEF Watching
    <3> QED BY <3>2, <3>3
  <2>2. CASE Collect(r)
    <3>1. stats'[r].claimed = stats[r].claimed
      BY <2>2, TallyType DEF Collect, Done
    <3> QED BY <2>2, <3>1 DEF Collect, Returns, Watching
  <2>3. CASE Drain(r)
    BY <1>3, <2>3 DEF Drain
  <2>4. CASE \/ Start(r) \/ Idle(r) \/ SkipReclaim(r) \/ CollectRaises(r)
             \/ (\E lag \in Lags : ReclaimLeases(r, lag))
             \/ (\E h \in Hashes, lag \in Lags : ClaimStage(r, h, lag))
             \/ (\E s \in Slots : Spawn(r, s))
    BY <1>3, <2>4 DEF Start, Idle, SkipReclaim, CollectRaises, ReclaimLeases, ClaimStage, Spawn
  <2> QED BY <1>4, <2>1, <2>2, <2>3, <2>4 DEF MainStep
<1>5. ASSUME NEW q \in Runners, q # r, MainStep(q) \/ Interruption(q) PROVE Watching(r)'
  <2>1. tasks'[r] = tasks[r] /\ stats'[r] = stats[r] /\ pc'[r] = pc[r]
    BY <1>1, <1>5, OtherRunners
  <2>2. stopping'[r] = stopping[r]
    BY <1>1, <1>5
       DEF MainStep, Start, Idle, Drain, ReclaimLeases, SkipReclaim, ClaimStage, Spawn,
           NoStageFound, StopClaiming, Collect, CollectRaises, Interruption, Stop,
           CancelMain, LateClaim, ExitLoop, LateCall, OnlyTasks, RunnerTypeOK
  <2> QED BY <2>1, <2>2 DEF Watching, InFlight
<1>6. CASE Interruption(r)
  <2>1. CASE Stop(r) \/ CancelMain(r) \/ \E lag \in Lags : LateClaim(r, lag)
    BY <1>1, <1>3, <2>1 DEF Stop, CancelMain, LateClaim, Goto, RunnerTypeOK
  <2>2. CASE ExitLoop(r)
    BY <2>2 DEF ExitLoop, OnlyTasks, Watching, Over
  <2>3. ASSUME NEW s \in Slots, NEW lag \in Lags, LateCall(r, s, lag) PROVE Watching(r)'
    BY <1>1, <1>3, <2>3, LateOnlyElsewhere DEF LateCall, OnlyTasks
  <2> QED BY <1>6, <2>1, <2>2, <2>3 DEF Interruption
<1>7. ASSUME NEW q \in Runners, NEW s \in Slots, TaskStep(q, s) PROVE Watching(r)'
  <2>1. UNCHANGED <<pc, stats, stopping>>
    BY <1>7 DEF TaskStep, Begin, HandlerReturns, HandlerRaises, CompleteStage,
                ReportSuccess, FailStage, ReportFailure, OnlyTasks
  <2>2. Elsewhere(q, s) /\ tasks[q][s].pc # "free" /\ tasks'[q][s].pc # "free"
    BY <1>1, <1>7, TaskStepElsewhere, TaskMoves DEF TaskMove
  <2>3. InFlight(r)' = InFlight(r)
    BY <2>2 DEF Elsewhere, InFlight
  <2> QED BY <1>2, <2>1, <2>3
<1>8. ASSUME NEW q \in Runners, NEW s \in Slots, NEW lag \in Lags, Beat(q, s, lag)
      PROVE  Watching(r)'
  <2>1. \A u \in Slots : tasks'[r][u].pc = tasks[r][u].pc
    BY <1>1, <1>8, BeatFacts DEF TasksKept
  <2>2. UNCHANGED <<pc, stats, stopping>> /\ InFlight(r)' = InFlight(r)
    BY <1>8, <2>1 DEF Beat, OnlyTasks, InFlight
  <2> QED BY <1>2, <2>2
<1>9. CASE Crash
  BY <1>3, <1>9 DEF Crash
<1>10. CASE PassTime \/ UNCHANGED vars
  BY <1>2, <1>10 DEF PassTime, vars, runnerVars, InFlight
<1> QED BY <1>4, <1>5, <1>6, <1>7, <1>8, <1>9, <1>10 DEF RunnerNext

\* Whoever changes the status of a stage watches afterwards: a runner at its
\* claim, one with a task in flight, or one whose loop is over.
LEMMA ChangersWatch ==
    ASSUME RunnerInv, ClaimsKnown, [RunnerNext]_vars
    PROVE  status' = status \/ \E r \in Runners : Watching(r)'
<1> DEFINE Goal == status' = status \/ \E r \in Runners : Watching(r)'
<1>1. RunnerTypeOK
  BY DEF RunnerInv
<1>2. ASSUME NEW r \in Runners,
             stopping'[r] \/ pc'[r] \notin {"empty", "wait", "idle", "returned"}
      PROVE  Goal
  BY <1>2 DEF Watching
<1>3. ASSUME NEW r \in Runners, MainStep(r) PROVE Goal
  <2>1. CASE \/ (\E lag \in Lags : ReclaimLeases(r, lag))
             \/ (\E h \in Hashes, lag \in Lags : ClaimStage(r, h, lag))
    <3>1. pc'[r] \in {"claim", "raised", "reread"}
      BY <1>1, <2>1 DEF ReclaimLeases, ClaimStage, Goto, RunnerTypeOK
    <3> QED BY <1>2, <3>1
  <2>2. CASE \/ Start(r) \/ Idle(r) \/ Drain(r) \/ SkipReclaim(r)
             \/ (\E s \in Slots : Spawn(r, s)) \/ (\E lag \in Lags : NoStageFound(r, lag))
             \/ StopClaiming(r) \/ Collect(r) \/ CollectRaises(r)
    BY <2>2 DEF Start, Idle, Drain, SkipReclaim, Spawn, NoStageFound, StopClaiming,
                Collect, CollectRaises, storeVars
  <2> QED BY <1>3, <2>1, <2>2 DEF MainStep
<1>4. ASSUME NEW r \in Runners, NEW s \in Slots, TaskStep(r, s) PROVE Goal
  <2>1. UNCHANGED <<pc, stopping>>
    BY <1>4 DEF TaskStep, Begin, HandlerReturns, HandlerRaises, CompleteStage,
                ReportSuccess, FailStage, ReportFailure, OnlyTasks
  <2>2. tasks[r][s].pc # "free" /\ tasks'[r][s].pc # "free"
    BY <1>4, TaskMoves DEF TaskMove
  <2>3. CASE ~Going(r)
    BY <1>1, <1>2, <2>1, <2>3, OthersWatch
  <2>4. CASE Going(r)
    <3>1. pc[r] \notin {"idle", "returned"} /\ InFlight(r)' # {}
      BY <2>2, <2>4 DEF ClaimsKnown, Accounted, InFlight
    <3>2. Watching(r)'
      BY <2>1, <3>1 DEF Watching
    <3> QED BY <3>2
  <2> QED BY <2>3, <2>4
<1>5. ASSUME NEW r \in Runners, Interruption(r) PROVE Goal
  <2>1. ASSUME NEW lag \in Lags, LateClaim(r, lag) PROVE Goal
    BY <1>1, <1>2, <2>1 DEF LateClaim, Goto, RunnerTypeOK
  <2>2. ASSUME NEW s \in Slots, NEW lag \in Lags, LateCall(r, s, lag) PROVE Goal
    BY <1>1, <1>2, <2>2, LateOnlyElsewhere DEF LateCall, OnlyTasks
  <2>3. CASE Stop(r) \/ CancelMain(r) \/ ExitLoop(r)
    BY <2>3 DEF Stop, CancelMain, ExitLoop, storeVars
  <2> QED BY <1>5, <2>1, <2>2, <2>3 DEF Interruption
<1>6. ASSUME NEW r \in Runners, NEW s \in Slots, NEW lag \in Lags, Beat(r, s, lag)
      PROVE  Goal
  BY <1>6 DEF Beat, Heartbeat, storeVars
<1>7. Crash \/ PassTime \/ UNCHANGED vars => Goal
  BY DEF Crash, PassTime, Tick, vars, storeVars
<1> HIDE DEF Goal
<1>8. Goal
  BY <1>3, <1>4, <1>5, <1>6, <1>7 DEF RunnerNext
<1> QED BY <1>8 DEF Goal

LEMMA SomeoneWatchesStep ==
    ASSUME RunnerInv, ClaimsKnown, order = PlanOrder, SomeoneWatches, [RunnerNext]_vars
    PROVE  SomeoneWatches'
<1> SUFFICES ASSUME NEW h \in Hashes, Runnable(h)', Cardinality(WaitingRows') <= ClaimLimit
             PROVE  \E r \in Runners : Watching(r)'
  BY DEF SomeoneWatches
<1>1. CASE status' # status
  BY <1>1, ChangersWatch
<1>2. CASE status' = status
  <2>1. order' = order /\ order \in Seq(Hashes)
    BY OrderKept DEF RunnerInv, IInv, StoreTypeOK
  <2>2. Runnable(h) /\ WaitingRows' = WaitingRows
    BY <1>2, <2>1 DEF Runnable, ParentsSucceeded, WaitingRows
  <2>3. PICK r \in Runners : Watching(r)
    BY <2>2 DEF SomeoneWatches
  <2>4. ASSUME NEW lag \in Lags, NoStageFound(r, lag) PROVE FALSE
    <3>1. Cardinality(WaitingRows) > ClaimLimit
      BY <2>1, <2>2, <2>4, NothingFoundMeansCutOff DEF NoStageFound
    <3>2. Cardinality(WaitingRows) <= ClaimLimit
      BY <2>2
    <3>3. Cardinality(WaitingRows) \in Nat
      BY <2>1, WaitingRowsFinite
    <3> QED BY <3>1, <3>2, <3>3, StoreAssumption
  <2>5. Watching(r)'
    BY <2>3, <2>4, WatchingLasts
  <2> QED BY <2>5
<1> QED BY <1>1, <1>2

\* No wakeup is lost, however many runners there are and whatever the others
\* do between an empty answer of claim_next_stage and the moment the runner
\* that got it goes idle: when all are idle, of themselves, no stage waits for
\* nothing but a runner, unless the LIMIT of the claim query cut rows off
\* (run_until_idle, runner.py; _claim_next_stage_sync, duckdb_runtime.py).
THEOREM NoWakeupIsLost == RunnerSpec => []NoWorkOverlooked
<1>1. RunnerInit => SomeoneWatches /\ order = PlanOrder
  <2> SUFFICES ASSUME RunnerInit PROVE \E r \in Runners : Watching(r)
    BY DEF RunnerInit, SeededStore, SomeoneWatches
  <2>1. PICK r \in Runners : TRUE
    BY RunnerAssumption
  <2> QED BY <2>1 DEF RunnerInit, Watching
<1>2. order = PlanOrder /\ [RunnerNext]_vars => (order = PlanOrder)'
  BY OrderKept
<1>3. RunnerInv /\ SomeoneWatches => NoWorkOverlooked
  <2> SUFFICES ASSUME RunnerInv, SomeoneWatches,
                      \A r \in Runners : /\ pc[r] \in {"idle", "returned"}
                                         /\ ~stopping[r]
                                         /\ stats[r].claimed < MaxClaims,
                      NEW h \in Hashes, Runnable(h)
               PROVE  Cardinality(WaitingRows) > ClaimLimit
    BY DEF NoWorkOverlooked
  <2>1. \A r \in Runners : stats[r].claimed \in Nat
    BY DEF RunnerInv, RunnerTypeOK, Stats
  <2>2. ~ \E r \in Runners : Watching(r)
    BY <2>1, RunnerAssumption DEF Watching
  <2>3. ~(Cardinality(WaitingRows) <= ClaimLimit)
    BY <2>2 DEF SomeoneWatches
  <2>4. Cardinality(WaitingRows) \in Nat
    BY WaitingRowsFinite DEF RunnerInv, IInv, StoreTypeOK
  <2> QED BY <2>3, <2>4, StoreAssumption
<1> QED BY <1>1, <1>2, <1>3, SomeoneWatchesStep, ClaimsInit, ClaimsStep,
           RunnerInvariant, PTL DEF RunnerSpec
=============================================================================
