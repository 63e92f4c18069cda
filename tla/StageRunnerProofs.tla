-------------------------- MODULE StageRunnerProofs --------------------------
(***************************************************************************)
(* Theorems about StageRunner: for every dependency graph and plan, every  *)
(* number of runners and slots, any interleaving of their tasks, any stop, *)
(* cancellation, late call or death of the process, with sinks that may    *)
(* raise and handlers that may fail.                                       *)
(***************************************************************************)
EXTENDS StageRunner, LeaseStoreProofs, FiniteSetTheorems

-----------------------------------------------------------------------------
(***************************************************************************)
(* Types.                                                                  *)
(***************************************************************************)
TaskPcs == {"free", "raised"} \cup Working \cup Results \cup Late

Task == [pc : TaskPcs, stage : Hashes \cup {NoStage}, attempt : 0..MaxAttempts,
         retryable : BOOLEAN, beating : BOOLEAN]

Stats == [claimed : Nat, succeeded : Nat, failed_retryable : Nat, failed_terminal : Nat]

RunnerTypeOK ==
    /\ pc \in [Runners -> Looping \cup Over \cup {"late_claim"}]
    /\ picked \in [Runners -> Hashes \cup {NoStage}]
    /\ fresh \in [Runners -> BOOLEAN]
    /\ tasks \in [Runners -> [Slots -> Task]]
    /\ stats \in [Runners -> Stats]
    /\ stopping \in [Runners -> BOOLEAN]
    /\ crashes \in Nat

(***************************************************************************)
(* What a runner has in hand was claimed: a stage is picked only between   *)
(* the claim and the re-read, a task has a planned stage and an attempt    *)
(* that was made of it, and no heart beats in a slot that is free.         *)
(***************************************************************************)
PickedOK ==
    \A r \in Runners :
        IF pc[r] = "reread" THEN picked[r] \in Hashes /\ attempt[picked[r]] > 0
        ELSE picked[r] = NoStage

TasksOK ==
    \A r \in Runners, s \in Slots :
        IF tasks[r][s].pc = "free" THEN ~tasks[r][s].beating
        ELSE /\ tasks[r][s].stage \in Hashes
             /\ tasks[r][s].attempt \in 1..attempt[tasks[r][s].stage]

RunnerInv == IInv /\ RunnerTypeOK /\ PickedOK /\ TasksOK

-----------------------------------------------------------------------------
(***************************************************************************)
(* What the operators on tasks do.                                         *)
(***************************************************************************)

\* Only the task in slot s of runner r changes.
Elsewhere(r, s) ==
    \A q \in Runners, u \in Slots : q # r \/ u # s => tasks'[q][u] = tasks[q][u]

LEMMA TaskGotoFacts ==
    ASSUME RunnerTypeOK, NEW r \in Runners, NEW s \in Slots,
           NEW label \in TaskPcs, TaskGoto(r, s, label)
    PROVE  /\ tasks' \in [Runners -> [Slots -> Task]]
           /\ Elsewhere(r, s)
           /\ tasks'[r][s].pc = label
           /\ tasks'[r][s].stage = tasks[r][s].stage
           /\ tasks'[r][s].attempt = tasks[r][s].attempt
           /\ tasks'[r][s].retryable = tasks[r][s].retryable
<1> DEFINE t == tasks[r][s]
           u == [t EXCEPT !.pc = label, !.beating = @ /\ label \in Working]
<1>1. t \in Task /\ tasks \in [Runners -> [Slots -> Task]]
  BY DEF RunnerTypeOK
<1>2. tasks' = [tasks EXCEPT ![r][s] = u]
  BY <1>1 DEF TaskGoto, RunnerTypeOK
<1>3. /\ u \in Task
      /\ u.pc = label /\ u.stage = t.stage /\ u.attempt = t.attempt
      /\ u.retryable = t.retryable
  BY <1>1 DEF Task
<1> HIDE DEF u
<1>4. tasks' \in [Runners -> [Slots -> Task]] /\ tasks'[r][s] = u /\ Elsewhere(r, s)
  BY <1>1, <1>2, <1>3 DEF Elsewhere
<1> QED BY <1>3, <1>4

LEMMA RaisingFacts ==
    ASSUME RunnerTypeOK, NEW r \in Runners, NEW s \in Slots,
           NEW retryable \in BOOLEAN, Raising(r, s, retryable)
    PROVE  /\ tasks' \in [Runners -> [Slots -> Task]]
           /\ Elsewhere(r, s)
           /\ tasks'[r][s].pc = "failing"
           /\ tasks'[r][s].stage = tasks[r][s].stage
           /\ tasks'[r][s].attempt = tasks[r][s].attempt
<1> DEFINE t == tasks[r][s]
           u == [t EXCEPT !.pc = "failing", !.retryable = retryable]
<1>1. t \in Task /\ tasks \in [Runners -> [Slots -> Task]]
  BY DEF RunnerTypeOK
<1>2. tasks' = [tasks EXCEPT ![r][s] = u]
  BY <1>1 DEF Raising
<1>3. u \in Task /\ u.pc = "failing" /\ u.stage = t.stage /\ u.attempt = t.attempt
  BY <1>1 DEF Task, TaskPcs, Working
<1> HIDE DEF u
<1>4. tasks' \in [Runners -> [Slots -> Task]] /\ tasks'[r][s] = u /\ Elsewhere(r, s)
  BY <1>1, <1>2, <1>3 DEF Elsewhere
<1> QED BY <1>3, <1>4

\* A slot that is freed.
LEMMA FreeTaskFacts ==
    FreeTask \in Task /\ FreeTask.pc = "free" /\ ~FreeTask.beating
BY RunnerAssumption, StoreAssumption DEF FreeTask, Task, TaskPcs

\* Cancelling leaves a task a call that runs on, or nothing.
LEMMA CancelledFacts ==
    ASSUME NEW t \in Task
    PROVE  /\ Cancelled(t) \in Task
           /\ Cancelled(t).pc \in {"free"} \cup Late
           /\ Cancelled(t).pc = "free" => Cancelled(t) = FreeTask
           /\ Cancelled(t).pc # "free" =>
                 /\ t.pc # "free"
                 /\ Cancelled(t).stage = t.stage
                 /\ Cancelled(t).attempt = t.attempt
           /\ Cancelled(t).pc = "late_completing" =>
                 t.pc \in {"completing", "late_completing"}
<1> USE DEF Cancelled, Task, TaskPcs, Late
<1>1. CASE t.pc = "completing"
  BY <1>1
<1>2. CASE t.pc = "failing"
  BY <1>2
<1>3. CASE t.pc \in Late
  BY <1>3
<1>4. CASE t.pc \notin {"completing", "failing"} \cup Late
  BY <1>4, FreeTaskFacts
<1> QED BY <1>1, <1>2, <1>3, <1>4

LEMMA CancelAllFacts ==
    ASSUME RunnerTypeOK, NEW r \in Runners, tasks' = CancelAll(r)
    PROVE  /\ tasks' \in [Runners -> [Slots -> Task]]
           /\ \A s \in Slots : tasks'[r][s] = Cancelled(tasks[r][s])
           /\ \A q \in Runners \ {r} : tasks'[q] = tasks[q]
<1>1. \A s \in Slots : Cancelled(tasks[r][s]) \in Task
  BY CancelledFacts DEF RunnerTypeOK
<1> QED BY <1>1 DEF CancelAll, RunnerTypeOK

\* Slots that are collected become free, and the others keep their tasks.
LEMMA CollectFacts ==
    ASSUME RunnerTypeOK, NEW r \in Runners, Collect(r) \/ CollectRaises(r)
    PROVE  /\ tasks' \in [Runners -> [Slots -> Task]]
           /\ \A s \in Slots : tasks'[r][s] =
                 IF s \in Done(r) THEN FreeTask ELSE tasks[r][s]
           /\ \A q \in Runners \ {r} : tasks'[q] = tasks[q]
<1>1. tasks' = [tasks EXCEPT ![r] =
                   [s \in Slots |-> IF s \in Done(r) THEN FreeTask ELSE tasks[r][s]]]
  BY DEF Collect, CollectRaises
<1>2. FreeTask \in Task
  BY FreeTaskFacts
<1> QED BY <1>1, <1>2 DEF RunnerTypeOK

\* Tally adds to the counts; it never changes what was claimed.
LEMMA CountNat ==
    ASSUME NEW slots \in SUBSET Slots
    PROVE  IsFiniteSet(slots) /\ Cardinality(slots) \in Nat
BY RunnerAssumption, FS_Subset, FS_CardinalityType

LEMMA TallyType ==
    ASSUME RunnerTypeOK, NEW r \in Runners, NEW slots \in SUBSET Slots
    PROVE  Tally(r, slots) \in Stats /\ Tally(r, slots).claimed = stats[r].claimed
<1> DEFINE of(result) == {s \in slots : tasks[r][s].pc = result}
<1>1. /\ Cardinality(of("succeeded")) \in Nat
      /\ Cardinality(of("failed_retryable")) \in Nat
      /\ Cardinality(of("failed_terminal")) \in Nat
  <2>1. /\ of("succeeded") \in SUBSET Slots
        /\ of("failed_retryable") \in SUBSET Slots
        /\ of("failed_terminal") \in SUBSET Slots
    OBVIOUS
  <2> HIDE DEF of
  <2> QED BY <2>1, CountNat
<1>2. stats[r] \in Stats
  BY DEF RunnerTypeOK
<1> QED BY <1>1, <1>2 DEF Tally, Stats

-----------------------------------------------------------------------------
(***************************************************************************)
(* Every step keeps the types and what runners have in hand.               *)
(***************************************************************************)

\* The store under runners is a store with callers.
LEMMA RunnerStoreStep == RunnerInv /\ [RunnerNext]_vars => [StoreNext]_storeVars
<1> SUFFICES ASSUME RunnerInv, [RunnerNext]_vars PROVE [StoreNext]_storeVars
  OBVIOUS
<1> DEFINE Allowed == [StoreNext]_storeVars
<1>1. ASSUME NEW h \in Hashes, NEW r \in Runners, NEW lag \in Lags, Claim(h, r, lag)
      PROVE  Allowed
  BY <1>1 DEF StoreNext
<1>2. ASSUME NEW r \in Runners, NEW s \in Slots, tasks[r][s].pc # "free"
      PROVE  /\ tasks[r][s].stage \in Hashes
             /\ tasks[r][s].attempt \in Artifacts
             /\ tasks[r][s].retryable \in BOOLEAN
  <2>1. /\ tasks[r][s].stage \in Hashes
        /\ tasks[r][s].attempt \in 1..attempt[tasks[r][s].stage]
    BY <1>2 DEF RunnerInv, TasksOK
  <2>2. attempt[tasks[r][s].stage] \in 0..MaxAttempts
    BY <2>1 DEF RunnerInv, IInv, StoreTypeOK
  <2>3. tasks[r][s].attempt \in 1..MaxAttempts
    BY <2>1, <2>2, StoreAssumption
  <2>4. tasks[r][s] \in Task
    BY DEF RunnerInv, RunnerTypeOK
  <2> QED BY <2>1, <2>3, <2>4, RunnerAssumption DEF Task
<1>3. ASSUME NEW r \in Runners, NEW s \in Slots, tasks[r][s].pc # "free",
             Complete(tasks[r][s].stage, r, tasks[r][s].attempt)
      PROVE  Allowed
  BY <1>2, <1>3 DEF StoreNext
<1>4. ASSUME NEW r \in Runners, NEW s \in Slots, tasks[r][s].pc # "free",
             NEW lag \in Lags, Fail(tasks[r][s].stage, r, tasks[r][s].retryable, lag)
      PROVE  Allowed
  BY <1>2, <1>4 DEF StoreNext
<1>5. ASSUME NEW r \in Runners, NEW s \in Slots, NEW lag \in Lags, Beat(r, s, lag)
      PROVE  Allowed
  <2>1. tasks[r][s].pc # "free"
    BY <1>5 DEF RunnerInv, TasksOK, Beat
  <2> QED BY <1>2, <1>5, <2>1 DEF Beat, StoreNext
<1>6. ASSUME NEW lag \in Lags, Reclaim(lag) PROVE Allowed
  BY <1>6 DEF StoreNext
<1>7. ASSUME NEW r \in Runners, MainStep(r) PROVE Allowed
  <2>1. ASSUME NEW lag \in Lags, ReclaimLeases(r, lag) PROVE Allowed
    BY <1>6, <2>1 DEF ReclaimLeases
  <2>2. ASSUME NEW h \in Hashes, NEW lag \in Lags, ClaimStage(r, h, lag) PROVE Allowed
    BY <1>1, <2>2 DEF ClaimStage
  <2>3. ASSUME \/ Start(r) \/ Idle(r) \/ Drain(r) \/ SkipReclaim(r)
               \/ (\E s \in Slots : Spawn(r, s)) \/ (\E lag \in Lags : NoStageFound(r, lag))
               \/ StopClaiming(r)
               \/ Collect(r) \/ CollectRaises(r)
        PROVE  Allowed
    BY <2>3 DEF Start, Idle, Drain, SkipReclaim, Spawn, NoStageFound, StopClaiming, Collect,
                CollectRaises
  <2> QED BY <1>7, <2>1, <2>2, <2>3 DEF MainStep
<1>8. ASSUME NEW r \in Runners, NEW s \in Slots, TaskStep(r, s) PROVE Allowed
  <2>1. CASE CompleteStage(r, s)
    BY <1>3, <2>1 DEF CompleteStage, At
  <2>2. ASSUME NEW lag \in Lags, FailStage(r, s, lag) PROVE Allowed
    BY <1>4, <2>2 DEF FailStage
  <2>3. CASE \/ Begin(r, s) \/ HandlerReturns(r, s) \/ HandlerRaises(r, s)
             \/ ReportSuccess(r, s) \/ ReportFailure(r, s)
    BY <2>3 DEF Begin, HandlerReturns, HandlerRaises, ReportSuccess, ReportFailure
  <2> QED BY <1>8, <2>1, <2>2, <2>3 DEF TaskStep
<1>9. ASSUME NEW r \in Runners, Interruption(r) PROVE Allowed
  <2>1. ASSUME NEW lag \in Lags, LateClaim(r, lag) PROVE Allowed
    BY <1>1, <2>1 DEF LateClaim
  <2>2. ASSUME NEW s \in Slots, NEW lag \in Lags, LateCall(r, s, lag) PROVE Allowed
    BY <1>3, <1>4, <2>2 DEF LateCall, Late
  <2>3. CASE Stop(r) \/ CancelMain(r) \/ ExitLoop(r)
    BY <2>3 DEF Stop, CancelMain, ExitLoop
  <2> QED BY <1>9, <2>1, <2>2, <2>3 DEF Interruption
<1>10. Crash \/ PassTime \/ UNCHANGED vars => Allowed
  BY DEF Crash, PassTime, vars, StoreNext
<1> HIDE DEF Allowed
<1>11. Allowed
  BY <1>5, <1>7, <1>8, <1>9, <1>10 DEF RunnerNext
<1> QED BY <1>11 DEF Allowed

\* Attempts are never uncounted.
LEMMA AttemptsGrow ==
    ASSUME IInv, [StoreNext]_storeVars, NEW h \in Hashes
    PROVE  attempt'[h] >= attempt[h] /\ attempt'[h] \in Nat
<1>1. attempt \in [Hashes -> 0..MaxAttempts] /\ attempt' \in [Hashes -> 0..MaxAttempts]
  BY NextIInv DEF IInv, StoreTypeOK
<1>2. ASSUME NEW g \in Hashes, NEW r \in Runners, NEW lag \in Lags, Claim(g, r, lag)
      PROVE  attempt'[h] >= attempt[h]
  BY <1>1, <1>2, StoreAssumption DEF Claim, NextAttempt
<1>3. ASSUME ~ \E g \in Hashes, r \in Runners, lag \in Lags : Claim(g, r, lag)
      PROVE  attempt' = attempt
  BY <1>3 DEF StoreNext, InsertStage, Heartbeat, Complete, Fail, Reclaim, Tick, storeVars
<1>4. attempt[h] \in Nat /\ attempt'[h] \in Nat
  BY <1>1, StoreAssumption
<1> QED BY <1>2, <1>3, <1>4

\* What a step may do to a task: free its slot, or let it go on with the
\* stage and the attempt it was given.
Moved(r, s) ==
    \/ tasks'[r][s] = tasks[r][s]
    \/ tasks'[r][s] = FreeTask
    \/ /\ tasks[r][s].pc # "free" /\ tasks'[r][s].pc # "free"
       /\ tasks'[r][s].stage = tasks[r][s].stage
       /\ tasks'[r][s].attempt = tasks[r][s].attempt

\* A new task has the stage that was picked, and the attempt its row shows.
Spawned(r, s) ==
    /\ pc[r] = "reread" /\ pc'[r] = "claim"
    /\ tasks[r][s] = FreeTask
    /\ tasks'[r][s] = [FreeTask EXCEPT !.pc = "starting", !.stage = picked[r],
                                       !.attempt = attempt[picked[r]]]
    /\ UNCHANGED storeVars

TasksMove ==
    /\ tasks' \in [Runners -> [Slots -> Task]]
    /\ \A r \in Runners, s \in Slots : Moved(r, s) \/ Spawned(r, s)

LEMMA OneTaskMoves ==
    ASSUME RunnerTypeOK, NEW r \in Runners, NEW s \in Slots, tasks[r][s].pc # "free",
           tasks' \in [Runners -> [Slots -> Task]],
           Elsewhere(r, s),
           tasks'[r][s].pc # "free",
           tasks'[r][s].stage = tasks[r][s].stage,
           tasks'[r][s].attempt = tasks[r][s].attempt
    PROVE  TasksMove
BY DEF TasksMove, Moved, Elsewhere

LEMMA SpawnMoves ==
    ASSUME RunnerInv, NEW r \in Runners, NEW s \in Slots, Spawn(r, s)
    PROVE  TasksMove
<1> DEFINE t == [FreeTask EXCEPT !.pc = "starting", !.stage = picked[r],
                                 !.attempt = attempt[picked[r]]]
<1>1. picked[r] \in Hashes
  BY DEF Spawn, RunnerInv, PickedOK
<1>2. attempt[picked[r]] \in 0..MaxAttempts
  BY <1>1 DEF RunnerInv, IInv, StoreTypeOK
<1>3. t \in Task
  BY <1>1, <1>2 DEF FreeTask, Task, TaskPcs, Working
<1>4. tasks' = [tasks EXCEPT ![r][s] = t]
  BY DEF Spawn
<1>5. tasks \in [Runners -> [Slots -> Task]] /\ pc'[r] = "claim"
  BY DEF RunnerInv, RunnerTypeOK, Spawn, Goto
<1> HIDE DEF t
<1>6. /\ tasks' \in [Runners -> [Slots -> Task]] /\ tasks'[r][s] = t
      /\ \A q \in Runners, u \in Slots : q # r \/ u # s => tasks'[q][u] = tasks[q][u]
  BY <1>3, <1>4, <1>5
<1>7. Spawned(r, s)
  BY <1>5, <1>6 DEF Spawn, Spawned, t
<1> QED BY <1>6, <1>7 DEF TasksMove, Moved

\* What a spawn gives to the slot.
LEMMA SpawnGives ==
    ASSUME RunnerInv, NEW r \in Runners, NEW s \in Slots, Spawn(r, s)
    PROVE  /\ picked[r] \in Hashes /\ picked[r] # NoStage
           /\ tasks'[r][s].pc = "starting"
           /\ tasks'[r][s].stage = picked[r]
           /\ tasks'[r][s].attempt = attempt[picked[r]]
           /\ \A u \in Slots : u # s => tasks'[r][u] = tasks[r][u]
           /\ picked'[r] = NoStage
           /\ UNCHANGED storeVars
<1> DEFINE t == [FreeTask EXCEPT !.pc = "starting", !.stage = picked[r],
                                 !.attempt = attempt[picked[r]]]
<1>1. tasks \in [Runners -> [Slots -> Task]] /\ picked \in [Runners -> Hashes \cup {NoStage}]
  BY DEF RunnerInv, RunnerTypeOK
<1>2. tasks' = [tasks EXCEPT ![r][s] = t] /\ UNCHANGED storeVars
  BY DEF Spawn
<1>3. t.pc = "starting" /\ t.stage = picked[r] /\ t.attempt = attempt[picked[r]]
  BY DEF FreeTask
<1> HIDE DEF t
<1>4. tasks'[r][s] = t /\ \A u \in Slots : u # s => tasks'[r][u] = tasks[r][u]
  BY <1>1, <1>2
<1>5. picked[r] \in Hashes
  BY DEF Spawn, RunnerInv, PickedOK
<1>6. picked'[r] = NoStage
  BY <1>1 DEF Spawn
<1> QED BY <1>2, <1>3, <1>4, <1>5, <1>6, RunnerAssumption

\* A task begins with its handler, without one it fails.
LEMMA BeginFacts ==
    ASSUME RunnerTypeOK, NEW r \in Runners, NEW s \in Slots, Begin(r, s)
    PROVE  /\ tasks' \in [Runners -> [Slots -> Task]]
           /\ Elsewhere(r, s)
           /\ tasks'[r][s].pc \in {"handling", "failing", "raised"}
           /\ tasks'[r][s].pc = "raised" => SinkFails
           /\ tasks'[r][s].stage = tasks[r][s].stage
           /\ tasks'[r][s].attempt = tasks[r][s].attempt
<1>1. CASE SinkFails /\ TaskGoto(r, s, "raised")
  BY <1>1, TaskGotoFacts DEF TaskPcs
<1>2. CASE tasks' = [tasks EXCEPT ![r][s].beating = TRUE,
                        ![r][s].pc = IF tasks[r][s].stage \in Unhandled
                                     THEN "failing" ELSE "handling"]
  <2> DEFINE label == IF tasks[r][s].stage \in Unhandled THEN "failing" ELSE "handling"
             t == [tasks[r][s] EXCEPT !.beating = TRUE, !.pc = label]
  <2>1. tasks[r][s] \in Task /\ label \in TaskPcs /\ label \in {"handling", "failing"}
    BY DEF RunnerTypeOK, TaskPcs, Working
  <2> HIDE DEF label
  <2>2. /\ t \in Task /\ t.pc = label
        /\ t.stage = tasks[r][s].stage /\ t.attempt = tasks[r][s].attempt
    BY <2>1 DEF Task
  <2>3. tasks' = [tasks EXCEPT ![r][s] = t]
    BY <1>2 DEF RunnerTypeOK, label
  <2> HIDE DEF t
  <2>4. /\ tasks' \in [Runners -> [Slots -> Task]] /\ tasks'[r][s] = t
        /\ Elsewhere(r, s)
    BY <2>2, <2>3 DEF RunnerTypeOK, Elsewhere
  <2> QED BY <2>1, <2>2, <2>4
<1> QED BY <1>1, <1>2 DEF Begin

\* A heartbeat changes nothing of a task but whether its heart still beats.
TasksKept ==
    /\ tasks' \in [Runners -> [Slots -> Task]]
    /\ \A r \in Runners, s \in Slots : /\ tasks'[r][s].pc = tasks[r][s].pc
                                       /\ tasks'[r][s].stage = tasks[r][s].stage
                                       /\ tasks'[r][s].attempt = tasks[r][s].attempt
                                       /\ tasks'[r][s].retryable = tasks[r][s].retryable

LEMMA BeatFacts ==
    ASSUME RunnerTypeOK, NEW r \in Runners, NEW s \in Slots, NEW lag \in Lags,
           Beat(r, s, lag)
    PROVE  TasksKept
<1>1. CASE UNCHANGED tasks
  BY <1>1 DEF TasksKept, RunnerTypeOK
<1>2. CASE tasks' = [tasks EXCEPT ![r][s].beating = FALSE]
  <2> DEFINE t == [tasks[r][s] EXCEPT !.beating = FALSE]
  <2>1. tasks[r][s] \in Task
    BY DEF RunnerTypeOK
  <2>2. /\ t \in Task /\ t.pc = tasks[r][s].pc
        /\ t.stage = tasks[r][s].stage /\ t.attempt = tasks[r][s].attempt
        /\ t.retryable = tasks[r][s].retryable
    BY <2>1 DEF Task
  <2>3. tasks' = [tasks EXCEPT ![r][s] = t]
    BY <1>2 DEF RunnerTypeOK
  <2> HIDE DEF t
  <2> QED BY <2>2, <2>3 DEF RunnerTypeOK, TasksKept
<1> QED BY <1>1, <1>2 DEF Beat

LEMMA TaskStepElsewhere ==
    ASSUME RunnerTypeOK, NEW r \in Runners, NEW s \in Slots, TaskStep(r, s)
    PROVE  Elsewhere(r, s)
<1>1. ASSUME NEW label \in TaskPcs, TaskGoto(r, s, label) PROVE Elsewhere(r, s)
  BY <1>1, TaskGotoFacts
<1>2. ASSUME NEW retryable \in BOOLEAN, Raising(r, s, retryable) PROVE Elsewhere(r, s)
  BY <1>2, RaisingFacts
<1> USE DEF TaskPcs, Working, Results
<1>3. CASE Begin(r, s)
  BY <1>3, BeginFacts
<1>4. CASE HandlerReturns(r, s) \/ HandlerRaises(r, s)
  BY <1>1, <1>2, <1>4 DEF HandlerReturns, HandlerRaises
<1>5. CASE CompleteStage(r, s) \/ ReportSuccess(r, s)
  BY <1>1, <1>2, <1>5 DEF CompleteStage, ReportSuccess
<1>6. CASE ReportFailure(r, s) \/ \E lag \in Lags : FailStage(r, s, lag)
  BY <1>1, <1>6 DEF ReportFailure, FailStage
<1> QED BY <1>3, <1>4, <1>5, <1>6 DEF TaskStep

LEMMA TaskStepMoves ==
    ASSUME RunnerInv, NEW r \in Runners, NEW s \in Slots, TaskStep(r, s)
    PROVE  TasksMove
<1>1. RunnerTypeOK
  BY DEF RunnerInv
<1>2. ASSUME tasks[r][s].pc # "free", NEW label \in TaskPcs \ {"free"}, TaskGoto(r, s, label)
      PROVE  TasksMove
  BY <1>1, <1>2, TaskGotoFacts, OneTaskMoves
<1>3. ASSUME tasks[r][s].pc # "free", NEW retryable \in BOOLEAN, Raising(r, s, retryable)
      PROVE  TasksMove
  BY <1>1, <1>3, RaisingFacts, OneTaskMoves
<1> USE DEF TaskPcs, Working, Results, At
<1>4. CASE Begin(r, s)
  <2>1. tasks[r][s].pc # "free"
    BY <1>4 DEF Begin
  <2>2. tasks'[r][s].pc # "free"
    BY <1>1, <1>4, BeginFacts
  <2> QED BY <1>1, <1>4, <2>1, <2>2, BeginFacts, OneTaskMoves
<1>5. CASE HandlerReturns(r, s)
  BY <1>2, <1>5 DEF HandlerReturns
<1>6. CASE HandlerRaises(r, s)
  BY <1>3, <1>6 DEF HandlerRaises
<1>7. CASE CompleteStage(r, s)
  BY <1>2, <1>3, <1>7 DEF CompleteStage
<1>8. CASE ReportSuccess(r, s)
  BY <1>2, <1>3, <1>8 DEF ReportSuccess
<1>9. ASSUME NEW lag \in Lags, FailStage(r, s, lag) PROVE TasksMove
  BY <1>2, <1>9 DEF FailStage
<1>10. CASE ReportFailure(r, s)
  BY <1>2, <1>10 DEF ReportFailure
<1> QED BY <1>4, <1>5, <1>6, <1>7, <1>8, <1>9, <1>10 DEF TaskStep

\* The steps of a task, from where to where and with which call of the store.
TaskMove(r, s) ==
    LET t == tasks[r][s]
        GoesTo(from, to) == t.pc = from /\ tasks'[r][s].pc = to
    IN
    \/ GoesTo("starting", "handling") /\ UNCHANGED storeVars
    \/ GoesTo("starting", "failing") /\ UNCHANGED storeVars
    \/ GoesTo("handling", "completing") /\ UNCHANGED storeVars
    \/ GoesTo("handling", "failing") /\ UNCHANGED storeVars
    \/ GoesTo("completing", "reporting_success") /\ Complete(t.stage, r, t.attempt)
    \/ GoesTo("completing", "failing") /\ ~Leased(t.stage, r) /\ UNCHANGED storeVars
    \/ GoesTo("reporting_success", "succeeded") /\ UNCHANGED storeVars
    \/ GoesTo("reporting_success", "failing") /\ SinkFails /\ UNCHANGED storeVars
    \/ /\ GoesTo("failing", "reporting_failure")
       /\ \E lag \in Lags : Fail(t.stage, r, t.retryable, lag)
       /\ tasks'[r][s].retryable = t.retryable
    \/ GoesTo("failing", "raised") /\ ~Leased(t.stage, r) /\ UNCHANGED storeVars
    \/ /\ GoesTo("reporting_failure",
                 IF t.retryable THEN "failed_retryable" ELSE "failed_terminal")
       /\ UNCHANGED storeVars
    \/ /\ GoesTo("starting", "raised") \/ GoesTo("reporting_failure", "raised")
       /\ SinkFails /\ UNCHANGED storeVars

LEMMA TaskMoves ==
    ASSUME RunnerInv, NEW r \in Runners, NEW s \in Slots, TaskStep(r, s)
    PROVE  /\ TaskMove(r, s)
           /\ tasks'[r][s].stage = tasks[r][s].stage
           /\ tasks'[r][s].attempt = tasks[r][s].attempt
<1> DEFINE Kept == /\ tasks'[r][s].stage = tasks[r][s].stage
                   /\ tasks'[r][s].attempt = tasks[r][s].attempt
<1>1. RunnerTypeOK /\ tasks[r][s].retryable \in BOOLEAN
  BY DEF RunnerInv, RunnerTypeOK, Task
<1>2. ASSUME NEW label \in TaskPcs, TaskGoto(r, s, label)
      PROVE  Kept /\ tasks'[r][s].pc = label /\ tasks'[r][s].retryable = tasks[r][s].retryable
  BY <1>1, <1>2, TaskGotoFacts
<1>3. ASSUME NEW retryable \in BOOLEAN, Raising(r, s, retryable)
      PROVE  Kept /\ tasks'[r][s].pc = "failing"
  BY <1>1, <1>3, RaisingFacts
<1> HIDE DEF Kept
<1> USE DEF TaskPcs, Working, Results, At, TaskMove
<1>4. ASSUME Begin(r, s) PROVE TaskMove(r, s) /\ Kept
  BY <1>1, <1>4, BeginFacts DEF Begin, Kept
<1>5. ASSUME HandlerReturns(r, s) PROVE TaskMove(r, s) /\ Kept
  BY <1>2, <1>5 DEF HandlerReturns
<1>6. ASSUME HandlerRaises(r, s) PROVE TaskMove(r, s) /\ Kept
  BY <1>3, <1>6 DEF HandlerRaises
<1>7. ASSUME CompleteStage(r, s) PROVE TaskMove(r, s) /\ Kept
  BY <1>2, <1>3, <1>7 DEF CompleteStage
<1>8. ASSUME ReportSuccess(r, s) PROVE TaskMove(r, s) /\ Kept
  BY <1>2, <1>3, <1>8 DEF ReportSuccess
<1>9. ASSUME NEW lag \in Lags, FailStage(r, s, lag) PROVE TaskMove(r, s) /\ Kept
  BY <1>2, <1>9 DEF FailStage
<1>10. ASSUME ReportFailure(r, s) PROVE TaskMove(r, s) /\ Kept
  <2> DEFINE label == IF tasks[r][s].retryable THEN "failed_retryable" ELSE "failed_terminal"
  <2>1. label \in TaskPcs
    OBVIOUS
  <2>2. /\ tasks[r][s].pc = "reporting_failure" /\ UNCHANGED storeVars
        /\ TaskGoto(r, s, label) \/ (SinkFails /\ TaskGoto(r, s, "raised"))
    BY <1>10 DEF ReportFailure
  <2> HIDE DEF label
  <2>3. \/ tasks'[r][s].pc = label /\ Kept
        \/ SinkFails /\ tasks'[r][s].pc = "raised" /\ Kept
    BY <1>2, <2>1, <2>2
  <2> QED BY <2>2, <2>3 DEF label
<1>11. TaskMove(r, s) /\ Kept
  BY <1>4, <1>5, <1>6, <1>7, <1>8, <1>9, <1>10 DEF TaskStep
<1> QED BY <1>11 DEF Kept

\* Tasks keep their stage and attempt from when they are spawned until their
\* slot is free.
LEMMA TasksMoveStep == RunnerInv /\ [RunnerNext]_vars => TasksMove
<1> SUFFICES ASSUME RunnerInv, [RunnerNext]_vars PROVE TasksMove
  OBVIOUS
<1>1. RunnerTypeOK /\ FreeTask \in Task
  BY FreeTaskFacts DEF RunnerInv
<1>2. UNCHANGED tasks => TasksMove
  BY <1>1 DEF TasksMove, Moved, RunnerTypeOK
<1>3. ASSUME NEW r \in Runners, tasks' = CancelAll(r) PROVE TasksMove
  <2>1. \A s \in Slots : Moved(r, s)
    BY <1>1, <1>3, CancelAllFacts, CancelledFacts DEF Moved, RunnerTypeOK
  <2> QED BY <1>1, <1>3, <2>1, CancelAllFacts DEF TasksMove, Moved
<1>4. ASSUME NEW r \in Runners, Collect(r) \/ CollectRaises(r) PROVE TasksMove
  BY <1>1, <1>4, CollectFacts DEF TasksMove, Moved
<1>5. ASSUME NEW r \in Runners, MainStep(r) PROVE TasksMove
  BY <1>2, <1>3, <1>4, <1>5, SpawnMoves
     DEF MainStep, Start, Idle, Drain, ReclaimLeases, SkipReclaim, ClaimStage,
         NoStageFound, StopClaiming
<1>6. ASSUME NEW r \in Runners, Interruption(r) PROVE TasksMove
  <2>1. ASSUME NEW s \in Slots, NEW lag \in Lags, LateCall(r, s, lag) PROVE TasksMove
    BY <1>1, <2>1 DEF LateCall, TasksMove, Moved, RunnerTypeOK
  <2> QED BY <1>2, <1>3, <1>6, <2>1 DEF Interruption, Stop, CancelMain, LateClaim, ExitLoop
<1>7. ASSUME NEW r \in Runners, NEW s \in Slots, NEW lag \in Lags, Beat(r, s, lag)
      PROVE  TasksMove
  <2>1. CASE UNCHANGED tasks
    BY <1>2, <2>1
  <2>2. CASE tasks' = [tasks EXCEPT ![r][s].beating = FALSE]
    <3>1. tasks[r][s].pc # "free" /\ TasksKept
      BY <1>1, <1>7, BeatFacts DEF RunnerInv, TasksOK, Beat
    <3>2. Elsewhere(r, s)
      BY <1>1, <2>2 DEF RunnerTypeOK, Elsewhere
    <3> QED BY <1>1, <3>1, <3>2, OneTaskMoves DEF TasksKept
  <2> QED BY <1>7, <2>1, <2>2 DEF Beat
<1>8. Crash => TasksMove
  BY <1>1 DEF Crash, TasksMove, Moved
<1>9. PassTime \/ UNCHANGED vars => TasksMove
  BY <1>2 DEF PassTime, runnerVars, vars
<1> QED BY <1>5, <1>6, <1>7, <1>8, <1>9, TaskStepMoves DEF RunnerNext

\* Who moves a task on: its own step, the spawn that fills the slot, or what
\* cancels all tasks of its runner; everything else leaves it where it is or
\* frees its slot.
Cancels(r) == (Drain(r) \/ ExitLoop(r)) /\ tasks' = CancelAll(r)

LEMMA TaskPcMoves ==
    ASSUME RunnerInv, [RunnerNext]_vars, NEW r \in Runners, NEW s \in Slots
    PROVE  \/ /\ tasks'[r][s].pc = tasks[r][s].pc
              /\ tasks'[r][s].retryable = tasks[r][s].retryable
           \/ tasks'[r][s].pc = "free"
           \/ tasks'[r][s].pc \in Late /\ Cancels(r)
           \/ Spawn(r, s)
           \/ TaskStep(r, s)
<1> DEFINE Goal == \/ /\ tasks'[r][s].pc = tasks[r][s].pc
                      /\ tasks'[r][s].retryable = tasks[r][s].retryable
                   \/ tasks'[r][s].pc = "free"
                   \/ tasks'[r][s].pc \in Late /\ Cancels(r)
                   \/ Spawn(r, s)
                   \/ TaskStep(r, s)
<1>1. RunnerTypeOK /\ FreeTask.pc = "free"
  BY FreeTaskFacts DEF RunnerInv
<1>2. tasks'[r][s] = tasks[r][s] => Goal
  OBVIOUS
<1>3. ASSUME NEW q \in Runners, Drain(q) \/ ExitLoop(q) PROVE Goal
  <2>1. tasks' = CancelAll(q)
    BY <1>3 DEF Drain, ExitLoop
  <2>2. CASE q # r
    BY <1>1, <1>2, <2>1, <2>2, CancelAllFacts
  <2>3. CASE q = r
    <3>1. tasks'[r][s].pc \in {"free"} \cup Late
      BY <1>1, <2>1, <2>3, CancelAllFacts, CancelledFacts DEF RunnerTypeOK
    <3> QED BY <1>3, <2>1, <2>3, <3>1 DEF Cancels
  <2> QED BY <2>2, <2>3
<1>4. ASSUME NEW q \in Runners, Collect(q) \/ CollectRaises(q) PROVE Goal
  <2>1. tasks'[r][s] = tasks[r][s] \/ tasks'[r][s] = FreeTask
    BY <1>1, <1>4, CollectFacts
  <2> QED BY <1>1, <2>1
<1>5. ASSUME NEW q \in Runners, MainStep(q) PROVE Goal
  <2>1. ASSUME NEW u \in Slots, Spawn(q, u) PROVE Goal
    <3>1. q # r \/ u # s => tasks'[r][s] = tasks[r][s]
      BY <1>1, <2>1 DEF Spawn, RunnerTypeOK
    <3> QED BY <2>1, <3>1
  <2>2. ASSUME \/ Start(q) \/ Idle(q) \/ SkipReclaim(q)
               \/ (\E lag \in Lags : ReclaimLeases(q, lag) \/ NoStageFound(q, lag))
               \/ StopClaiming(q)
               \/ (\E h \in Hashes, lag \in Lags : ClaimStage(q, h, lag))
        PROVE  Goal
    BY <2>2 DEF Start, Idle, SkipReclaim, ReclaimLeases, NoStageFound, StopClaiming,
                ClaimStage
  <2> HIDE DEF Goal
  <2> QED BY <1>3, <1>4, <1>5, <2>1, <2>2 DEF MainStep
<1>6. ASSUME NEW q \in Runners, Interruption(q) PROVE Goal
  <2>1. ASSUME NEW u \in Slots, NEW lag \in Lags, LateCall(q, u, lag) PROVE Goal
    BY <1>1, <2>1 DEF LateCall, RunnerTypeOK
  <2>2. Stop(q) \/ CancelMain(q) \/ (\E lag \in Lags : LateClaim(q, lag)) => Goal
    BY DEF Stop, CancelMain, LateClaim
  <2> HIDE DEF Goal
  <2> QED BY <1>3, <1>6, <2>1, <2>2 DEF Interruption
<1>7. ASSUME NEW q \in Runners, NEW u \in Slots, TaskStep(q, u) PROVE Goal
  <2>1. q # r \/ u # s => tasks'[r][s] = tasks[r][s]
    BY <1>1, <1>7, TaskStepElsewhere DEF Elsewhere
  <2> QED BY <1>7, <2>1
<1>8. ASSUME NEW q \in Runners, NEW u \in Slots, NEW lag \in Lags, Beat(q, u, lag)
      PROVE  Goal
  BY <1>1, <1>8, BeatFacts DEF TasksKept
<1>9. Crash \/ PassTime \/ UNCHANGED vars => Goal
  BY <1>1 DEF Crash, PassTime, vars, runnerVars
<1> HIDE DEF Goal
<1>10. Goal
  BY <1>5, <1>6, <1>7, <1>8, <1>9 DEF RunnerNext
<1> QED BY <1>10 DEF Goal

LEMMA RunnerInitInv == RunnerInit => RunnerInv
<1> SUFFICES ASSUME RunnerInit PROVE RunnerInv
  OBVIOUS
<1> USE StoreAssumption, RunnerAssumption
<1>1. IInv
  <2>1. StoreTypeOK
    BY DEF RunnerInit, SeededStore, StoreTypeOK, RowStatus, AttemptRow, NoRow
  <2>2. LeaseMatchesAttempt /\ RowMatchesAttempt /\ UntouchedRows
    BY DEF RunnerInit, SeededStore, LeaseMatchesAttempt, RowMatchesAttempt, UntouchedRows
  <2>3. AttemptsContiguous /\ EarlierAttemptsRetryable /\ ParentsStaySucceeded
    BY DEF RunnerInit, SeededStore, AttemptsContiguous, EarlierAttemptsRetryable,
           ParentsStaySucceeded
  <2> QED BY <2>1, <2>2, <2>3 DEF IInv
<1>2. RunnerTypeOK
  BY FreeTaskFacts DEF RunnerInit, RunnerTypeOK, NoStats, Stats, Looping
<1>3. PickedOK
  BY DEF RunnerInit, PickedOK
<1>4. TasksOK
  BY FreeTaskFacts DEF RunnerInit, TasksOK
<1> QED BY <1>1, <1>2, <1>3, <1>4 DEF RunnerInv

\* The variables of the main coroutine.
MainTypeOK ==
    /\ pc \in [Runners -> Looping \cup Over \cup {"late_claim"}]
    /\ picked \in [Runners -> Hashes \cup {NoStage}]
    /\ fresh \in [Runners -> BOOLEAN]
    /\ stats \in [Runners -> Stats]
    /\ stopping \in [Runners -> BOOLEAN]
    /\ crashes \in Nat

LEMMA MainStepTypes ==
    ASSUME RunnerInv, NEW r \in Runners, MainStep(r)
    PROVE  MainTypeOK' /\ PickedOK'
<1> USE DEF MainTypeOK, Goto, Looping, Over
<1>1. RunnerTypeOK /\ PickedOK /\ NoStage \in Hashes \cup {NoStage}
  BY DEF RunnerInv
<1>2. MainTypeOK
  BY <1>1 DEF RunnerTypeOK
<1>3. \A h \in Hashes : attempt[h] \in Nat
  BY StoreAssumption DEF RunnerInv, IInv, StoreTypeOK
<1>4. NoStats \in Stats
  BY DEF NoStats, Stats
<1>5. CASE Start(r) \/ SkipReclaim(r) \/ CollectRaises(r) \/ StopClaiming(r)
           \/ \E lag \in Lags : NoStageFound(r, lag)
  BY <1>1, <1>2, <1>5 DEF Start, SkipReclaim, CollectRaises, NoStageFound, StopClaiming,
                          ClaimLoopEnds, Returns, PickedOK, storeVars
<1>6. CASE Idle(r)
  BY <1>1, <1>2, <1>4, <1>6 DEF Idle, PickedOK, storeVars
<1>7. CASE Drain(r) \/ Collect(r)
  <2>1. Tally(r, Slots) \in Stats /\ Tally(r, Done(r)) \in Stats
    BY <1>1, TallyType DEF Done
  <2> QED BY <1>1, <1>2, <1>7, <2>1 DEF Drain, Collect, Returns, PickedOK, storeVars
<1>8. ASSUME NEW lag \in Lags, ReclaimLeases(r, lag) PROVE MainTypeOK' /\ PickedOK'
  <2>1. attempt' = attempt
    BY <1>8 DEF ReclaimLeases, Reclaim, storeVars
  <2> QED BY <1>1, <1>2, <1>8, <2>1 DEF ReclaimLeases, PickedOK
<1>9. ASSUME NEW h \in Hashes, NEW lag \in Lags, ClaimStage(r, h, lag)
      PROVE  MainTypeOK' /\ PickedOK'
  <2>1. attempt'[h] > 0
    BY <1>3, <1>9, StoreAssumption
       DEF ClaimStage, Claim, NextAttempt, RunnerInv, IInv, StoreTypeOK
  <2>2. \A g \in Hashes : attempt[g] > 0 => attempt'[g] > 0
    BY <1>3, <1>9, <2>1 DEF ClaimStage, Claim, RunnerInv, IInv, StoreTypeOK
  <2> QED BY <1>1, <1>2, <1>9, <2>1, <2>2 DEF ClaimStage, PickedOK
<1>10. ASSUME NEW s \in Slots, Spawn(r, s) PROVE MainTypeOK' /\ PickedOK'
  <2>1. stats[r].claimed + 1 \in Nat /\ stats[r] \in Stats
    BY <1>2 DEF Stats
  <2>2. stats' \in [Runners -> Stats]
    BY <1>2, <1>10, <2>1 DEF Spawn, Stats
  <2> QED BY <1>1, <1>2, <1>10, <2>2 DEF Spawn, PickedOK, storeVars
<1> QED BY <1>5, <1>6, <1>7, <1>8, <1>9, <1>10 DEF MainStep

LEMMA RunnerNextInv == RunnerInv /\ [RunnerNext]_vars => RunnerInv'
<1> SUFFICES ASSUME RunnerInv, [RunnerNext]_vars PROVE RunnerInv'
  OBVIOUS
<1>1. IInv' /\ TasksMove /\ IInv /\ [StoreNext]_storeVars
  BY RunnerStoreStep, NextIInv, TasksMoveStep DEF RunnerInv
<1>2. \A h \in Hashes : attempt'[h] >= attempt[h] /\ attempt'[h] \in Nat /\ attempt[h] \in Nat
  BY <1>1, AttemptsGrow, StoreAssumption DEF IInv, StoreTypeOK
<1>3. MainTypeOK' /\ PickedOK'
  <2>1. MainTypeOK /\ PickedOK
    BY DEF RunnerInv, RunnerTypeOK, MainTypeOK
  <2> DEFINE Same == UNCHANGED <<pc, picked, fresh, stats, stopping, crashes>>
  <2>2. ASSUME Same PROVE MainTypeOK' /\ PickedOK'
    BY <1>2, <2>1, <2>2 DEF MainTypeOK, PickedOK
  <2>3. ASSUME NEW r \in Runners, NEW s \in Slots,
               TaskStep(r, s) \/ \E lag \in Lags : Beat(r, s, lag)
        PROVE  Same
    BY <2>3 DEF TaskStep, Begin, HandlerReturns, HandlerRaises, CompleteStage,
                ReportSuccess, FailStage, ReportFailure, Beat, OnlyTasks
  <2>4. ASSUME NEW r \in Runners, Interruption(r) PROVE MainTypeOK' /\ PickedOK'
    <3>1. CASE ExitLoop(r) \/ \E s \in Slots, lag \in Lags : LateCall(r, s, lag)
      BY <2>2, <3>1 DEF ExitLoop, LateCall, OnlyTasks
    <3>2. CASE Stop(r)
      BY <1>2, <2>1, <3>2 DEF Stop, MainTypeOK, PickedOK
    <3>3. CASE CancelMain(r)
      BY <1>2, <2>1, <3>3 DEF CancelMain, Goto, MainTypeOK, PickedOK, Looping, Over
    <3>4. ASSUME NEW lag \in Lags, LateClaim(r, lag) PROVE MainTypeOK' /\ PickedOK'
      BY <1>2, <2>1, <3>4 DEF LateClaim, Goto, MainTypeOK, PickedOK, Looping, Over
    <3> QED BY <2>4, <3>1, <3>2, <3>3, <3>4 DEF Interruption
  <2>5. CASE Crash
    BY <2>1, <2>5 DEF Crash, MainTypeOK, PickedOK, Looping, NoStats, Stats
  <2>6. PassTime \/ UNCHANGED vars => Same
    BY DEF PassTime, vars, runnerVars
  <2> HIDE DEF Same
  <2> QED BY <2>2, <2>3, <2>4, <2>5, <2>6, MainStepTypes DEF RunnerNext
<1>4. RunnerTypeOK'
  BY <1>1, <1>3 DEF TasksMove, MainTypeOK, RunnerTypeOK
<1>5. TasksOK'
  <2> SUFFICES ASSUME NEW r \in Runners, NEW s \in Slots
               PROVE  IF tasks'[r][s].pc = "free" THEN ~tasks'[r][s].beating
                      ELSE /\ tasks'[r][s].stage \in Hashes
                           /\ tasks'[r][s].attempt \in 1..attempt'[tasks'[r][s].stage]
    BY DEF TasksOK
  <2>1. CASE Spawned(r, s)
    <3>1. picked[r] \in Hashes /\ attempt[picked[r]] > 0 /\ attempt' = attempt
      BY <2>1 DEF Spawned, RunnerInv, PickedOK, storeVars
    <3> QED BY <1>2, <2>1, <3>1 DEF Spawned, FreeTask
  <2>2. CASE Moved(r, s)
    BY <1>2, <2>2, FreeTaskFacts DEF Moved, RunnerInv, TasksOK
  <2> QED BY <1>1, <2>1, <2>2 DEF TasksMove
<1> QED BY <1>1, <1>3, <1>4, <1>5 DEF RunnerInv

\* The inductive invariants of the store and of the runners hold.
THEOREM RunnerInvariant == RunnerSpec => []RunnerInv
<1> QED BY RunnerInitInv, RunnerNextInv, PTL DEF RunnerSpec

-----------------------------------------------------------------------------
(***************************************************************************)
(* What the store promises holds under the runners.                        *)
(***************************************************************************)

\* Runners that lose leases, call late, are cancelled or die still only do
\* what StageDataflow allows: each stage is settled at most once, with one
\* output or as failed, and only when all its parents have theirs
\* (_execute_stage and run_until_idle over DuckDBRuntimeStore).
THEOREM RunnerImplementsDataflow == RunnerSpec => ImplementsDataflow
<1>1. RunnerInit => Promise!Init
  BY DEF RunnerInit, SeededStore, Promise!Init, Outcome, Output
<1>2. RunnerInv /\ [RunnerNext]_vars => [Promise!Next]_(Promise!vars)
  BY RunnerStoreStep, StepRefines DEF RunnerInv
<1> QED BY <1>1, <1>2, RunnerInvariant, PTL DEF RunnerSpec, ImplementsDataflow, Promise!Spec

\* A settled stage stays as it is, the history of its attempts is never
\* rewritten, and no one takes a lease that has not expired, whatever the
\* runners of the process do to each other.
THEOREM RunnersRespectTheStore ==
    RunnerSpec => SettledIsFinal /\ ClosedAttemptsKept /\ LiveLeaseKept
<1> USE DEF SettledIsFinal, ClosedAttemptsKept, LiveLeaseKept
<1>1. RunnerInv /\ [RunnerNext]_vars =>
          [\A h \in Hashes : Settled(h) =>
              status'[h] = status[h] /\ artifact'[h] = artifact[h]]_storeVars
  BY RunnerStoreStep, SettledStep DEF RunnerInv
<1>2. RunnerInv /\ [RunnerNext]_vars =>
          [\A h \in Hashes, k \in 1..MaxAttempts :
              /\ log[h][k].status \notin {"none", "running"} => log'[h][k] = log[h][k]
              /\ log[h][k] # NoRow => log'[h][k].runner = log[h][k].runner]_storeVars
  <2>1. NoRow.status = "none"
    BY DEF NoRow
  <2> QED BY <2>1, RunnerStoreStep, LogStep DEF RunnerInv
<1>3. RunnerInv /\ [RunnerNext]_vars =>
          [\A h \in Hashes : status[h] = "running" /\ leaseLeft[h] >= 0 =>
              \/ owner'[h] = owner[h] /\ attempt'[h] = attempt[h]
              \/ status'[h] \in {"succeeded", "failed_retryable",
                                 "failed_terminal"}]_storeVars
  BY RunnerStoreStep, LiveLeaseStep DEF RunnerInv
<1> QED BY <1>1, <1>2, <1>3, RunnerInvariant, PTL DEF RunnerSpec

\* A handler works only while its parents' artifacts are there and final:
\* the parents are looked at once, in the transaction of the claim, and what
\* the handler reads later is still there, also for a handler whose lease is
\* lost (_parents_succeeded, duckdb_runtime.py; _execute_stage, runner.py).
THEOREM ParentsWhileHandling == RunnerSpec => []HandlersSeeParents
<1>1. RunnerInv => HandlersSeeParents
  <2> SUFFICES ASSUME RunnerInv, NEW r \in Runners, NEW s \in Slots,
                      tasks[r][s].pc = "handling"
               PROVE  ParentsSucceeded(tasks[r][s].stage)
    BY DEF HandlersSeeParents
  <2>1. /\ tasks[r][s].stage \in Hashes
        /\ tasks[r][s].attempt \in 1..attempt[tasks[r][s].stage]
    BY DEF RunnerInv, TasksOK
  <2>2. attempt[tasks[r][s].stage] \in Nat
    BY <2>1, StoreAssumption DEF RunnerInv, IInv, StoreTypeOK
  <2> QED BY <2>1, <2>2 DEF RunnerInv, IInv, ParentsStaySucceeded
<1> QED BY <1>1, RunnerInvariant, PTL

-----------------------------------------------------------------------------
\* Runners add no rows, so the claim query's order stays the plan's.
LEMMA OrderKept ==
    ASSUME order = PlanOrder, [RunnerNext]_vars
    PROVE  order' = PlanOrder
<1>1. ASSUME NEW r \in Runners, MainStep(r) PROVE order' = order
  BY <1>1 DEF MainStep, Start, Idle, Drain, ReclaimLeases, Reclaim, SkipReclaim,
              ClaimStage, Claim, Spawn, NoStageFound, StopClaiming, Collect,
              CollectRaises, storeVars
<1>2. ASSUME NEW r \in Runners, NEW s \in Slots, TaskStep(r, s) PROVE order' = order
  BY <1>2 DEF TaskStep, Begin, HandlerReturns, HandlerRaises, CompleteStage, Complete,
              ReportSuccess, FailStage, Fail, ReportFailure, storeVars
<1>3. ASSUME NEW r \in Runners, Interruption(r) PROVE order' = order
  BY <1>3 DEF Interruption, Stop, CancelMain, LateClaim, Claim, ExitLoop, LateCall,
              Complete, Fail, storeVars
<1>4. ASSUME NEW r \in Runners, NEW s \in Slots, NEW lag \in Lags, Beat(r, s, lag)
      PROVE  order' = order
  BY <1>4 DEF Beat, Heartbeat, storeVars
<1>5. Crash \/ PassTime \/ UNCHANGED vars => order' = order
  BY DEF Crash, PassTime, Tick, vars, storeVars
<1> QED BY <1>1, <1>2, <1>3, <1>4, <1>5 DEF RunnerNext

-----------------------------------------------------------------------------
(***************************************************************************)
(* Leases are in someone's hand.  That a working task is behind each lease *)
(* is not inductive, as a task that is about to report works no longer on  *)
(* its stage, which another runner may reclaim and fail: the task that has *)
(* the lease is one that still owes the store a call, or that has raised.  *)
(***************************************************************************)
Owing == {"starting", "handling", "completing", "failing", "raised"}

InCharge(r) == pc[r] \in Looping /\ ~stopping[r] /\ crashes = 0

Held(h, r) ==
    \/ picked[r] = h
    \/ \E s \in Slots : tasks[r][s].stage = h /\ tasks[r][s].pc \in Owing

LeasesHeld == \A h \in Hashes, r \in Runners : Leased(h, r) /\ InCharge(r) => Held(h, r)

\* No coroutine gets back into its loop, and stop() is not taken back, unless
\* the process is started again.
LEMMA ChargeLasts ==
    ASSUME RunnerInv, [RunnerNext]_vars, NEW r \in Runners, InCharge(r)'
    PROVE  InCharge(r)
<1> USE DEF InCharge
<1>1. /\ pc \in [Runners -> Looping \cup Over \cup {"late_claim"}]
      /\ stopping \in [Runners -> BOOLEAN] /\ crashes \in Nat
  BY DEF RunnerInv, RunnerTypeOK
<1>2. ASSUME NEW q \in Runners, MainStep(q) PROVE InCharge(r)
  BY <1>1, <1>2 DEF MainStep, Start, Idle, Drain, ReclaimLeases, SkipReclaim, ClaimStage,
                    Spawn, NoStageFound, StopClaiming, Collect, CollectRaises, Goto,
                    ClaimLoopEnds, Returns, Looping, Over
<1>3. ASSUME NEW q \in Runners, Interruption(q) PROVE InCharge(r)
  BY <1>1, <1>3 DEF Interruption, Stop, CancelMain, LateClaim, ExitLoop, LateCall,
                    OnlyTasks, Goto, Looping, Over
<1>4. ASSUME NEW q \in Runners, NEW s \in Slots,
             TaskStep(q, s) \/ \E lag \in Lags : Beat(q, s, lag)
      PROVE  InCharge(r)
  BY <1>4 DEF TaskStep, Begin, HandlerReturns, HandlerRaises, CompleteStage,
              ReportSuccess, FailStage, ReportFailure, Beat, OnlyTasks
<1>5. Crash => FALSE
  BY <1>1 DEF Crash
<1>6. PassTime \/ UNCHANGED vars => InCharge(r)
  BY DEF PassTime, vars, runnerVars
<1> QED BY <1>2, <1>3, <1>4, <1>5, <1>6 DEF RunnerNext

\* Only a claim gives a lease, to the runner that claims.
LEMMA LeaseFromClaim ==
    ASSUME StoreTypeOK, [StoreNext]_storeVars, NEW h \in Hashes, NEW r \in Runners,
           ~Leased(h, r), Leased(h, r)'
    PROVE  \E lag \in Lags : Claim(h, r, lag)
<1> USE StoreAssumption DEF StoreTypeOK, Leased
<1>1. ASSUME NEW g \in Hashes, NEW pos \in Positions, InsertStage(g, pos) PROVE FALSE
  BY <1>1 DEF InsertStage
<1>2. ASSUME NEW g \in Hashes, NEW q \in Runners, NEW lag \in Lags, Claim(g, q, lag)
      PROVE  g = h /\ q = r
  BY <1>2 DEF Claim
<1>3. ASSUME NEW g \in Hashes, NEW q \in Runners, NEW lag \in Lags, Heartbeat(g, q, lag)
      PROVE  FALSE
  BY <1>3 DEF Heartbeat
<1>4. ASSUME NEW g \in Hashes, NEW q \in Runners, NEW art \in Artifacts, Complete(g, q, art)
      PROVE  FALSE
  BY <1>4 DEF Complete
<1>5. ASSUME NEW g \in Hashes, NEW q \in Runners, NEW retryable \in BOOLEAN,
             NEW lag \in Lags, Fail(g, q, retryable, lag)
      PROVE  FALSE
  BY <1>5 DEF Fail
<1>6. ASSUME NEW lag \in Lags, Reclaim(lag) PROVE FALSE
  BY <1>6 DEF Reclaim
<1>7. Tick \/ UNCHANGED storeVars => FALSE
  BY DEF Tick, storeVars
<1> QED BY <1>1, <1>2, <1>3, <1>4, <1>5, <1>6, <1>7 DEF StoreNext

\* Which step of the runners that was.
LEMMA NewLease ==
    ASSUME RunnerInv, [RunnerNext]_vars, NEW h \in Hashes, NEW r \in Runners,
           ~Leased(h, r), Leased(h, r)'
    PROVE  \E lag \in Lags : ClaimStage(r, h, lag) \/ (LateClaim(r, lag) /\ Claim(h, r, lag))
<1>1. PICK lag \in Lags : Claim(h, r, lag)
  BY RunnerStoreStep, LeaseFromClaim DEF RunnerInv, IInv
<1>2. StoreTypeOK /\ status[h] # "running"
  BY <1>1, FirstRunnableFacts DEF Claim, RunnerInv, IInv, Selectable
<1>3. /\ status' = [status EXCEPT ![h] = "running"]
      /\ owner'[h] = r /\ status'[h] = "running"
  BY <1>1, <1>2 DEF Claim, StoreTypeOK
<1>4. ASSUME NEW q \in Runners, NEW g \in Hashes, NEW l \in Lags, Claim(g, q, l)
      PROVE  g = h /\ q = r
  BY <1>2, <1>3, <1>4 DEF Claim, StoreTypeOK
<1>5. ASSUME NEW l \in Lags, Reclaim(l) \/ (Expired(l) = {} /\ UNCHANGED storeVars)
      PROVE  FALSE
  BY <1>2, <1>3, <1>5 DEF Reclaim, StoreTypeOK, storeVars
<1>6. ASSUME NEW g, NEW q, NEW art, Complete(g, q, art) PROVE FALSE
  BY <1>2, <1>3, <1>6 DEF Complete, StoreTypeOK
<1>7. ASSUME NEW g, NEW q, NEW retryable, NEW l, Fail(g, q, retryable, l) PROVE FALSE
  BY <1>2, <1>3, <1>7 DEF Fail, StoreTypeOK
<1>8. ~(UNCHANGED storeVars) /\ ~(UNCHANGED status)
  BY <1>2, <1>3 DEF storeVars
<1>9. ASSUME NEW q \in Runners, MainStep(q)
      PROVE  \E l \in Lags : ClaimStage(r, h, l)
  <2>1. ASSUME NEW l \in Lags, ReclaimLeases(q, l) PROVE FALSE
    <3>1. Reclaim(l) \/ (Expired(l) = {} /\ UNCHANGED storeVars)
      BY <2>1 DEF ReclaimLeases
    <3> QED BY <1>5, <3>1
  <2>2. ASSUME \/ Start(q) \/ Idle(q) \/ Drain(q) \/ SkipReclaim(q)
               \/ (\E s \in Slots : Spawn(q, s)) \/ (\E l \in Lags : NoStageFound(q, l))
               \/ StopClaiming(q)
               \/ Collect(q) \/ CollectRaises(q)
        PROVE  FALSE
    BY <1>8, <2>2 DEF Start, Idle, Drain, SkipReclaim, Spawn, NoStageFound, StopClaiming,
                      Collect, CollectRaises
  <2>3. PICK g \in Hashes, l \in Lags : ClaimStage(q, g, l)
    BY <1>9, <2>1, <2>2 DEF MainStep
  <2> QED BY <1>4, <2>3 DEF ClaimStage
<1>10. ASSUME NEW q \in Runners, Interruption(q)
       PROVE  \E l \in Lags : LateClaim(r, l) /\ Claim(h, r, l)
  <2>1. PICK l \in Lags : LateClaim(q, l)
    BY <1>6, <1>7, <1>8, <1>10 DEF Interruption, Stop, CancelMain, ExitLoop, LateCall
  <2>2. PICK g \in Hashes : Claim(g, q, l)
    BY <1>8, <2>1 DEF LateClaim
  <2> QED BY <1>4, <2>1, <2>2
<1>11. ASSUME NEW q \in Runners, NEW s \in Slots,
              TaskStep(q, s) \/ \E l \in Lags : Beat(q, s, l)
       PROVE  FALSE
  BY <1>6, <1>7, <1>8, <1>11
     DEF TaskStep, Begin, HandlerReturns, HandlerRaises, CompleteStage, ReportSuccess,
         FailStage, ReportFailure, Beat, Heartbeat
<1>12. Crash \/ PassTime \/ UNCHANGED vars => FALSE
  BY <1>8 DEF Crash, PassTime, Tick, vars
<1> QED BY <1>9, <1>10, <1>11, <1>12 DEF RunnerNext

\* A task that is in charge of a lease stays with it until the lease ends.
LEMMA HeldLasts ==
    ASSUME RunnerInv, [RunnerNext]_vars, NEW h \in Hashes, NEW r \in Runners,
           Leased(h, r), Leased(h, r)', InCharge(r), InCharge(r)', Held(h, r)
    PROVE  Held(h, r)'
<1>1. RunnerTypeOK /\ StoreTypeOK /\ PickedOK /\ NoStage \notin Hashes
  BY RunnerAssumption DEF RunnerInv, IInv
<1>2. CASE picked[r] = h
  <2>1. pc[r] = "reread" /\ h # NoStage
    BY <1>1, <1>2 DEF PickedOK
  <2>2. ASSUME NEW s \in Slots, Spawn(r, s) PROVE Held(h, r)'
    <3> DEFINE t == [FreeTask EXCEPT !.pc = "starting", !.stage = picked[r],
                                     !.attempt = attempt[picked[r]]]
    <3>1. tasks'[r][s] = t
      BY <1>1, <2>2 DEF Spawn, RunnerTypeOK
    <3>2. t.stage = h /\ t.pc = "starting"
      BY <1>2 DEF FreeTask
    <3> QED BY <3>1, <3>2 DEF Held, Owing
  <2>3. ASSUME picked' = picked PROVE Held(h, r)'
    BY <1>2, <2>3 DEF Held
  <2>4. ASSUME NEW q \in Runners, MainStep(q) PROVE Held(h, r)'
    <3>1. CASE q = r
      <4>1. ASSUME NEW g \in Hashes, NEW lag \in Lags PROVE ~ClaimStage(r, g, lag)
        BY <2>1 DEF ClaimStage
      <4>2. CASE \/ Start(r) \/ Idle(r) \/ Drain(r) \/ SkipReclaim(r)
                 \/ (\E lag \in Lags : ReclaimLeases(r, lag) \/ NoStageFound(r, lag))
                 \/ StopClaiming(r)
                 \/ Collect(r) \/ CollectRaises(r)
        BY <2>3, <4>2 DEF Start, Idle, Drain, SkipReclaim, ReclaimLeases, NoStageFound,
                          StopClaiming, Collect, CollectRaises
      <4> QED BY <2>2, <2>4, <3>1, <4>1, <4>2 DEF MainStep
    <3>2. CASE q # r
      <4>1. picked'[r] = picked[r]
        BY <1>1, <2>4, <3>2
           DEF MainStep, Start, Idle, Drain, ReclaimLeases, SkipReclaim, ClaimStage, Spawn,
               NoStageFound, StopClaiming, Collect, CollectRaises, RunnerTypeOK
      <4> QED BY <1>2, <4>1 DEF Held
    <3> QED BY <3>1, <3>2
  <2>5. ASSUME NEW q \in Runners, Interruption(q) PROVE Held(h, r)'
    <3>1. CASE CancelMain(q)
      <4>1. q # r
        BY <1>1, <3>1 DEF CancelMain, Goto, InCharge, Looping, RunnerTypeOK
      <4>2. picked'[r] = picked[r]
        BY <1>1, <3>1, <4>1 DEF CancelMain, RunnerTypeOK
      <4> QED BY <1>2, <4>2 DEF Held
    <3>2. CASE ~CancelMain(q)
      BY <2>3, <2>5, <3>2 DEF Interruption, Stop, LateClaim, ExitLoop, LateCall, OnlyTasks
    <3> QED BY <3>1, <3>2
  <2>6. ASSUME NEW q \in Runners, NEW s \in Slots,
               TaskStep(q, s) \/ \E lag \in Lags : Beat(q, s, lag)
        PROVE  Held(h, r)'
    BY <2>3, <2>6 DEF TaskStep, Begin, HandlerReturns, HandlerRaises, CompleteStage,
                ReportSuccess, FailStage, ReportFailure, Beat, OnlyTasks
  <2>7. Crash => FALSE
    BY <1>1 DEF Crash, InCharge, RunnerTypeOK
  <2>8. PassTime \/ UNCHANGED vars => Held(h, r)'
    BY <2>3 DEF PassTime, vars, runnerVars
  <2> QED BY <2>4, <2>5, <2>6, <2>7, <2>8 DEF RunnerNext
<1>3. ASSUME NEW u \in Slots, tasks[r][u].stage = h, tasks[r][u].pc \in Owing
      PROVE  Held(h, r)'
  <2>1. ASSUME tasks'[r][u].stage = h, tasks'[r][u].pc \in Owing PROVE Held(h, r)'
    BY <2>1 DEF Held
  <2>2. ASSUME tasks'[r][u] = tasks[r][u] PROVE Held(h, r)'
    BY <1>3, <2>1, <2>2
  <2>3. ASSUME NEW q \in Runners, MainStep(q) PROVE Held(h, r)'
    <3>1. ASSUME NEW s \in Slots, Spawn(q, s) PROVE tasks'[r][u] = tasks[r][u]
      <4>1. q # r \/ s # u
        BY <1>3, <3>1, FreeTaskFacts DEF Spawn, Owing
      <4> QED BY <1>1, <3>1, <4>1 DEF Spawn, RunnerTypeOK
    <3>2. CASE Collect(q)
      <4>1. q = r => u \notin Done(r)
        BY <1>3, <3>2 DEF Collect, Done, Owing, Results
      <4> QED BY <1>1, <2>2, <3>2, <4>1, CollectFacts
    <3>3. CASE CollectRaises(q)
      <4>1. q # r
        BY <1>1, <3>3 DEF CollectRaises, Goto, InCharge, Looping, RunnerTypeOK
      <4> QED BY <1>1, <2>2, <3>3, <4>1, CollectFacts
    <3>4. CASE Drain(q)
      <4>1. q # r
        BY <3>4 DEF Drain, InCharge
      <4> QED BY <1>1, <2>2, <3>4, <4>1, CancelAllFacts DEF Drain
    <3>5. CASE \/ Start(q) \/ Idle(q) \/ SkipReclaim(q)
               \/ (\E lag \in Lags : ReclaimLeases(q, lag))
               \/ (\E g \in Hashes, lag \in Lags : ClaimStage(q, g, lag))
               \/ (\E lag \in Lags : NoStageFound(q, lag)) \/ StopClaiming(q)
      BY <2>2, <3>5 DEF Start, Idle, SkipReclaim, ReclaimLeases, ClaimStage,
                        NoStageFound, StopClaiming
    <3> QED BY <2>2, <2>3, <3>1, <3>2, <3>3, <3>4, <3>5 DEF MainStep
  <2>4. ASSUME NEW q \in Runners, Interruption(q) PROVE Held(h, r)'
    <3>1. CASE ExitLoop(q)
      <4>1. q # r
        BY <1>1, <3>1 DEF ExitLoop, InCharge, Looping, Over
      <4> QED BY <1>1, <2>2, <3>1, <4>1, CancelAllFacts DEF ExitLoop
    <3>2. ASSUME NEW s \in Slots, NEW lag \in Lags, LateCall(q, s, lag)
          PROVE  tasks'[r][u] = tasks[r][u]
      <4>1. q # r \/ s # u
        BY <1>3, <3>2 DEF LateCall, Late, Owing
      <4> QED BY <1>1, <3>2, <4>1 DEF LateCall, RunnerTypeOK
    <3>3. CASE Stop(q) \/ CancelMain(q) \/ \E lag \in Lags : LateClaim(q, lag)
      BY <2>2, <3>3 DEF Stop, CancelMain, LateClaim
    <3> QED BY <2>2, <2>4, <3>1, <3>2, <3>3 DEF Interruption
  <2>5. ASSUME NEW q \in Runners, NEW s \in Slots, TaskStep(q, s) PROVE Held(h, r)'
    <3>1. CASE q # r \/ s # u
      <4>1. Elsewhere(q, s)
        BY <1>1, <2>5, TaskStepElsewhere
      <4> QED BY <2>2, <3>1, <4>1 DEF Elsewhere
    <3>2. CASE q = r /\ s = u
      <4>1. CASE Begin(r, u)
        BY <1>1, <1>3, <2>1, <4>1, BeginFacts DEF Owing
      <4>2. CASE HandlerReturns(r, u)
        BY <1>1, <1>3, <2>1, <4>2, TaskGotoFacts DEF HandlerReturns, Owing, TaskPcs, Working
      <4>3. CASE HandlerRaises(r, u)
        BY <1>1, <1>3, <2>1, <4>3, RaisingFacts DEF HandlerRaises, Owing
      <4>4. CASE CompleteStage(r, u)
        <5>1. CASE Complete(h, r, tasks[r][u].attempt)
          BY <1>1, <5>1 DEF Complete, Leased, StoreTypeOK
        <5> QED BY <1>1, <1>3, <2>1, <4>4, <5>1, RaisingFacts DEF CompleteStage, Owing
      <4>5. ASSUME NEW lag \in Lags, FailStage(r, u, lag) PROVE Held(h, r)'
        <5>1. Fail(h, r, tasks[r][u].retryable, lag)
          BY <1>3, <4>5 DEF FailStage
        <5> QED BY <1>1, <5>1 DEF Fail, Leased, StoreTypeOK
      <4>6. ~ReportSuccess(r, u) /\ ~ReportFailure(r, u)
        BY <1>3 DEF ReportSuccess, ReportFailure, At, Owing
      <4> QED BY <2>5, <3>2, <4>1, <4>2, <4>3, <4>4, <4>5, <4>6 DEF TaskStep
    <3> QED BY <3>1, <3>2
  <2>6. ASSUME NEW q \in Runners, NEW s \in Slots, NEW lag \in Lags, Beat(q, s, lag)
        PROVE  Held(h, r)'
    BY <1>1, <1>3, <2>1, <2>6, BeatFacts DEF TasksKept
  <2>7. Crash => FALSE
    BY <1>1 DEF Crash, InCharge, RunnerTypeOK
  <2>8. PassTime \/ UNCHANGED vars => Held(h, r)'
    BY <2>2 DEF PassTime, vars, runnerVars
  <2> QED BY <2>3, <2>4, <2>5, <2>6, <2>7, <2>8 DEF RunnerNext
<1> QED BY <1>2, <1>3 DEF Held

LEMMA LeasesHeldStep == RunnerInv /\ LeasesHeld /\ [RunnerNext]_vars => LeasesHeld'
<1> SUFFICES ASSUME RunnerInv, LeasesHeld, [RunnerNext]_vars, NEW h \in Hashes,
                    NEW r \in Runners, Leased(h, r)', InCharge(r)'
             PROVE  Held(h, r)'
  BY DEF LeasesHeld
<1>1. InCharge(r)
  BY ChargeLasts
<1>2. CASE Leased(h, r)
  BY <1>1, <1>2, HeldLasts DEF LeasesHeld
<1>3. CASE ~Leased(h, r)
  <2>1. RunnerTypeOK
    BY DEF RunnerInv
  <2>2. PICK lag \in Lags : ClaimStage(r, h, lag) \/ (LateClaim(r, lag) /\ Claim(h, r, lag))
    BY <1>3, NewLease
  <2>3. ~LateClaim(r, lag)
    BY <1>1 DEF LateClaim, InCharge, Looping
  <2>4. picked'[r] = h
    BY <2>1, <2>2, <2>3 DEF ClaimStage, RunnerTypeOK
  <2> QED BY <2>4 DEF Held
<1> QED BY <1>2, <1>3

\* While a runner is in its loop, every lease it holds is in someone's hand:
\* no interleaving of its tasks, of reclaims and retries by other runners, of
\* late reports and of exceptions lets it forget a stage that it claimed, and
\* which then would run until its lease expires (run_until_idle and its
\* in_flight set, runner.py).
THEOREM LeasesAreWorkedOn == RunnerSpec => []LeaseHasWorker
<1>1. RunnerInit => LeasesHeld
  BY DEF RunnerInit, SeededStore, LeasesHeld, Leased
<1>2. LeasesHeld => LeaseHasWorker
  BY DEF LeasesHeld, LeaseHasWorker, InCharge, Held, Owing, Working
<1> QED BY <1>1, <1>2, LeasesHeldStep, RunnerInvariant, PTL DEF RunnerSpec
=============================================================================
