# Baroque in TLA+

A verification development of Baroque (`src/`), a Python system that runs
experiments with actor, theater and grader models as a graph of stages in a
local database. It holds TLA+ modules translated from the code, TLC
configurations that check them on small instances, and TLAPS proofs for every
instance.

All paths below are relative to the repository's `src/baroque/` unless they
begin with `docs/`.

## 1. The system

A run is planned as a list of *stages*. A stage is named by the hash of its
specification, which contains the hashes of its parents, so a run is a directed
acyclic graph. The planner puts the stages into a store; runners claim them
when their parents have succeeded, hand them to handlers, and record one
artifact per stage.

| component | state | operations | talks to |
|---|---|---|---|
| runtime store, `storage/duckdb_runtime.py` | tables `stages` and `stage_attempts` | add_stage, claim_next_stage, heartbeat, complete_stage, fail_stage, reclaim_expired_leases, reads | called by planner, runners, handlers, each call in a thread |
| stage runner, `orchestration/runner.py` | the loop's position, tasks in flight, stats, the stop event | run_until_idle, run_forever, stop; per stage: execute, complete, fail, heartbeat | calls store, handlers, event sink |
| handler registry, `orchestration/handlers.py` | none | register; StageExecutionError carries `retryable` | runner |
| static run planner, `orchestration/planner.py` | none | plan_missing_stages, seed_run | calls add_stage |
| artifact store, `storage/local_artifacts.py` | a directory tree | put_bytes, get_bytes, exists | called by handlers, each call in a thread |
| capability profiles, `orchestration/planner.py`, and query builder, `builder/query_builder.py` | messages, body, three records of controls | resolve a profile, compile a control, build | planner, handlers |
| prompt-only handlers, `agents/prompt_only.py` | none | one handler per stage type | read parents' artifacts, send a request, write an artifact |
| assessments, `ranking/assessments.py` | none | parse a grader's answer, aggregate | handlers |
| mutations, `evolution/mutations.py` | none | apply a patch to a genome | handlers |
| configuration, `config/` | none | load, merge, validate | planner |
| event sink, gateway, hashing, core models | a log file | emit; send; hash | runner, handlers |

### What is hard

* *Concurrency.* All runners and planners of a process share one store behind
  one lock, but what they do between two lock holds interleaves: `add_stage`
  looks up and inserts under two of them, `claim_next_stage` claims under one
  and reads the row again under another, and every operation reads the clock
  before it waits for the lock. Calls run in threads, which go on when the
  task that awaits them is cancelled.
* *Leases.* A runner can lose a stage while it works on it, to another runner
  or to another slot of its own, and come back late.
* *Failure.* Handlers raise, event sinks raise, the file system refuses calls,
  processes die between any two steps and start again.
* *Order.* Children must wait for parents; the claim query cuts its list off.
* *Progress.* Leases expire, retries wait, the loop sleeps, stops and drains.

### What makes each component correct

* Store: the two tables agree; a stage is settled once; nothing starts before
  its parents succeeded; attempts are numbered without gaps and their history
  is kept; nobody takes a live lease away.
* Runner: what it counts was recorded; leases have workers; when all runners
  are idle no work is overlooked; it runs until it is stopped, and stops when
  told; every stage that is ready is settled.
* Planner: plans are acyclic, complete and isolated per sample; each handler
  gets the parents it asks for; racing or dying while seeding leaves nothing
  that cannot be completed.
* Artifact store: a final path never holds a part of an artifact; what a
  completed stage refers to can be read; a call that ends leaves no temporary
  file, unless its cleanup is refused.
* Profiles and builder: the nearest profile that speaks of a control decides;
  a denied control has no effect; each control is reported once.
* Model selection: each candidate of a pool is drawn by its share, one without
  weight never, whatever the rounding of the draw.
* Handlers: actor, theater and graders are shown what is recorded, whichever
  attempts were lost, retried or late; nobody judges a conversation it was not
  given.
* Assessments: an aggregate accounts for every grader and every point,
  readable or not; the points named in a mutation are those that did worst.
* Mutations: a patch is applied as a whole or not at all, and changes nothing
  it does not name.

The hazards, each at its line, are in `PROJECT.json`.

## 2. Modules

    StageDataflow            what the store promises (abstract)
        ^ implemented by
    LeaseStore  <---- extended by ---- StageRunner      (runner over store)
               \----- extended by ---- Seeding          (planners over store; its
                                          .             Plan satisfies RunPlan)
                                  Loops, ModelSelection
                                          ^ extended by
                                       RunPlan          (which stages a run has)
                                          ^ extended by
    Assessments, GenomePatch  <------  HandlerFlow      (what they do to each other)

    ArtifactStore                      Controls

Proofs about a module `M` are in `MProofs`:

    LeaseStoreProofs <-- StageRunnerProofs <-- RunnerOutcomeProofs
                    \
                     \-- SeedingProofs
    RunPlanProofs <-- HandlerFlowProofs
    ArtifactStoreProofs      ControlsProofs

HandlerFlowProofs is also about Assessments and GenomePatch, RunPlanProofs
about ModelSelection and Loops.

Each `MC…` module gives constants of the module it extends small values.

**LeaseStore.** `status`, `order`, `attempt`, `owner`, `leaseLeft`, `retryLeft`
and `artifact` are columns of `stages`, `log` is `stage_attempts`. Each
operation is one action: the code does each under one hold of the lock, in one
statement or transaction. Times are kept relative to the clock and `Tick`
lowers them; the parameter `lag` is how old `now` is when the lock is got. A
call that finds no row raises and changes nothing; it is no step here and an
outcome in StageRunner. `InsertAt` in `InsertStage` is the position a row's
`created_at` gives it.

**StageDataflow.** A stage is open, done with one output, or failed, and is
settled at most once, after its parents are done. `Promise` in LeaseStore maps
statuses and artifacts to it.

**StageRunner.** `pc` is where the main coroutine is, `tasks` what is in each
slot. Code between two awaits is one action. The main actions are Start,
ReclaimLeases, SkipReclaim, ClaimStage, Spawn, NoStageFound, StopClaiming,
Collect, CollectRaises, Drain, Idle; those of a task Begin, HandlerReturns,
HandlerRaises, CompleteStage, ReportSuccess, FailStage, ReportFailure, Beat.
`LateCall` and `LateClaim` are calls that take effect after the task that made
them was cancelled. A claim and the read of the claimed row are two actions,
with anything in between; so are finding nothing to claim, in the thread that
holds the lock, and the loop's hearing of it (`NoStageFound`, `StopClaiming`). An artifact is the number of the attempt whose record
the handler was given, which the real artifact contains.

**Seeding.** Several `seed_run`s over the store, Lookup and Insert apart, with
every operation of runners in between, `Reseed` by callers and `Crash`.

**RunPlan.** `plan_missing_stages` as operators (`ActorTurn`, `Transcript`,
`GraderEvals`, `Aggregate`, `Mutations`, `SamplePlan`, `RunStages`), its
validations (`Valid`), and the insertion of what it returns into a store that
keeps one row per hash. A stage that calls a model carries the model and the
endpoint it was given (`Call`). `Loops` has Python's loops and dict keys.

**ModelSelection.** `_select_from_pool` and `_weighted_index`, with the draw as
an integer over `Precision`: `draw_fraction` is a 64-bit integer over 2^64 in
floating point and can round to 1.0, so `Precision` itself is a draw.

**Assessments.** `assessment_record_from_grader_artifact` and
`aggregate_assessments` as operators on sequences, the dict that judgments are
popped from as `Judged`, and `_weakest_disclosure_points`. Means are kept as
sum and count and compared by cross-multiplication.

**GenomePatch.** `apply_mutation_proposal` on a heap of dicts and lists, so
that what Python shares and changes in place is shared here: `Application` says
also what becomes of the proposal. `Raised` is any of the four exceptions the
code catches. `IsGenome` and `IsProposal` say what both are when they have been
read from JSON: trees, with nothing shared.

**HandlerFlow.** The seven handlers over the stages RunPlan put into the store,
one payload operator each (`ActorTurnPayload` … `ApplicationPayload`).
`Attempt` is a claim and the run of its handler, `Complete` a completion, of the
newest attempt or, as leases name runners and not attempts, of a late one;
`FailTerminally` is an operator whose implementation or kind is unknown;
`output` is the artifact of each stage that succeeded. What actors and theaters
say is named after the attempt that said it, so two attempts never agree by
chance; what graders say is given. `authored` stands for the proposal of a
handler registered in place of the prompt-only one, the only way to patches with
more than one operation.

**ArtifactStore.** `_put_bytes_sync` line by line (Check, Open, Write, Fsync,
Replace, Finally, ReturnRef), with `Refused` for an OSError before the cleanup,
`CleanupRefused` for one in the finally clause, `Crash` for the process and
`PowerLoss` for the machine. `refused` counts both sorts within one call.

**Controls.** The chain of profiles a run's profile extends, resolved from its
far end by `Extend` as the planner's recursion does, and `QueryBuilder`: one
`CompileControl` per requested control, in any order. `CompileRaises` is a list
of examples one of which `Message` refuses: a ValidationError leaves the builder
and the handler, and the stage is retried.

## 3. Runs

| run | instance | asks |
|---|---|---|
| store | 3 stages (one depends on another), 2 runners, 2 artifacts, 2 attempts, lag 0 or 1 | do the two tables agree, is history kept, do dependencies, verdicts and live leases hold; is StageDataflow implemented |
| runner_forever | 2 runners of one slot, a chain of 2 stages, leases that expire at once | whose artifact does a stage get; is work overlooked when both are idle |
| runner_once | 1 runner of two slots, 3 stages, `max_claims` 3, a type without handler, a raising sink, 1 crash | do counts agree with the store; do handlers see their parents; does every lease have a worker |
| runner_live | 1 runner of two slots, chain, 3 attempts, stop at any time, 1 crash | do stages get settled; is stop heeded; does the loop survive |
| seeding | 2 planners, 3 stages, 1 runner, 1 crash | are partial plans sound and completable |
| handlers | 4 608 configurations: 2 864 planned only, 1 744 worked on | are plans right, models drawn by weight, calls shown what is recorded, aggregates complete, the weakest points named, patches whole |
| artifacts | 3 writers, 2 contents, calls that are refused, 1 death of the process, 1 of the machine | are artifacts whole and readable, do they stay, what does litter take |
| controls | 25 848 inputs | do profiles resolve, denials hold and records tell all |

All pass. Four more runs end in a violation, each of a sentence the repository
says of itself:

| run | what happens | what is said |
|---|---|---|
| runner_zombie | with two slots a task that lost its lease completes the next attempt, with the old attempt's artifact | `docs/storage-strategy.md:148` |
| runner_lost_lease | a task that lost its lease raises out of `_execute_stage` and ends `run_forever` | `orchestration/runner.py:135` |
| runner_head_of_line | as many blocked rows as the query's LIMIT hide every runnable stage | `orchestration/runner.py:83` |
| seeding_race | of two planners that insert one stage the second raises | `storage/duckdb_runtime.py:42` |

Further disagreements and surprises are met by the models without a run of
their own; the properties state what is true and say where they stop short:

* `put_bytes` fsyncs the file and not its directory, so that a crash of the
  machine can lose an artifact that is already recorded
  (`core/interfaces.py:49` has artifacts durable first). This is the exception
  in `RecordedArtifactsReadable`.
* Examples before a malformed one are sent although the control is reported as
  dropped (`docs/configuration-architecture.md:173`). This is the exception in
  `RecordsTellAll`.
* A profile that denies all that its parent allows resolves to an empty list of
  allowed controls, which means all of them
  (`docs/configuration-architecture.md:123`). This is the exception in
  `DeniedIsInert`, which otherwise covers controls that are not listed.
* The `seed` of the sampling control is sent also where the control `seed` is
  denied: `DeniedIsInert` speaks of controls, not of fields.
* An operation's value is put into the genome itself and not a copy
  (`evolution/mutations.py:154`, `:159`, `:163`). An operation that reaches into
  it changes the proposal too, which is written down after that, next to the
  hash it had before (`docs/configuration-architecture.md:303` has the
  application store that hash). This is `Entangled` in `PatchesAllOrNothing`.
* `persona_text` given as a plain text, which the query builder takes, makes the
  mutation proposal raise an AttributeError and be retried for ever; a genome
  without a `persona_text` gets a proposal that can never be applied, since
  REPLACE wants the path to exist. Both are configurations of `handlers`.
* A disclosure point that two sets of a scenario list is judged once and counted
  missing once for each further copy; an answer that holds no JSON object counts
  as missing for every point; a rating of NaN counts as 1. `ExpectedTally` and
  `Rating` say so.
* ADD at an index that is there overwrites, and `-1` is an index:
  `PatchesAllOrNothing` reads paths the same way.
* The unlink in the finally clause of `put_bytes` may be refused: the temporary
  file stays, and the caller sees that error in place of the first one
  (`LitterTakesTwoRefusals`).
* A runner may go idle while a stage is runnable, as what it found is out of date
  when it hears of it. `NoWorkOverlooked` says what is left of `runner.py:83`:
  not all runners do so at once, the LIMIT aside.
* An example whose content is no text makes the stage fail and be retried for
  ever, where one without content is dropped (`CompileRaises`).
* A draw that rounds to 1.0 takes the last candidate also when its weight is
  zero; `ProportionalDraws` excepts this one draw.

### Bounds and why they are enough

* `MaxAttempts` 2 or 3: an attempt that is lost and the one that overtakes it;
  in runner_live a third, since the first may fail and the second be lost to a
  crash or a stop. It is a bound on claims: a stage that reaches it is not
  claimed again.
* Two runners or two slots: every race in this code is between two parties, a
  late one and the one that came after it. A runner's two slots are the worse
  case, since the store cannot tell them apart.
* A chain of two stages has a dependency; the third stage competes for slots
  and for the claim query's window.
* `LeaseTTL` and `RetryDelay` of 0 or 1 tick and `MaxLag` of 0 or 1: a
  comparison with the clock has two outcomes and a lag can turn either. Columns
  stop falling at `LeaseFloor` and `RetryFloor`, below which no comparison
  tells values apart.
* `ClaimLimit` 2 or 3 stands for 100; in runner_once, runner_forever and
  runner_live it is as large as the number of stages, in store smaller, and 1
  in runner_head_of_line.
* `MaxClaims` 9 stands for None: it cannot be reached.
* `FlakyAttempts` 1: a handler may fail retryably in the first attempt; with
  bounded attempts, one that always does would end the instance and not the
  program. Attempts beyond it may still be lost by lease, stop or crash.
* `MaxCrashes`, `MaxOutages` 1 (0 in runs whose question is not about crashes).
* The store run takes its two runners, and its two artifacts, as
  interchangeable: its properties are about states and single steps, and none
  names a runner or an artifact.
* The runner's safety runs have `MaxLag` 0: lags are explored in store, whose
  callers are arbitrary and include every runner.
* runner_live has one runner, so that "unless all runners are told to stop" is
  "unless it is told to".
* The run configurations have each number around its bound (0, 1, 2 and -1) and
  lists with repetitions; profiles take every combination of two controls in
  three levels.
* `Precision` 12 is a multiple of the totals that pools of one to three
  candidates have, so that thresholds fall on, before and after the weights'
  boundaries; every draw from 0 to 12 is taken.
* `run.content.attempts` 1 or 2 bounds claims in handlers: a reply that was lost
  or is late, and the one that overtakes it. Conversations have two turns (the
  second is the first one with a past), two graders or two samples.
* Two graders give every pair of six sorts of answers: complete, partial with a
  point of their own, garbled (unknown status, a point twice, NaN), excessive,
  unreadable, malformed. `MaxEvidence` 2 stands for 5.
* Patches have two operations: one that may go wrong after one that went well,
  one that may reach into the other's value. Two more have none, and one at the
  name `-`, which appends to a list and is a name in a dict.

Deadlock is checked except in handlers and controls, where runs and building
end.

### Fairness

Only runner_live and seeding assume any.

* `WF(MainStep(r))`, `WF(TaskStep(r, s))`, `WF(BeatAny(r, s))`: the event loop
  runs every coroutine that is ready. For a task in its handler this says that
  handlers end: requests have a timeout (`gateways/openai_compatible.py`), file
  and database calls return.
* `WF(PromptTime)`: the clock advances. It does not take a lease from a task
  that is alive: the default heartbeat interval (30 s, `runner.py:31`) is a
  twentieth of the default lease (10 min, `duckdb_runtime.py:35`),
  and *this* is the assumption that runner_lost_lease drops.
* `WF(PlannerStep(p))` in Seeding: planners get on, and callers retry one that
  raised.

Nothing else is fair; in particular not crashes, `Stop` or late calls.

## 4. Proofs

Eight modules hold theorems. They are about every value of the constants that
the modules' own assumptions allow; what a theorem assumes beyond them is said
below.

**LeaseStoreProofs** assumes `StoreAssumption` only (parents are stages, the
null values are no runners or artifacts, times and bounds are naturals), so it
holds for every graph, also a cyclic one, every set of runners, every lease,
lag and LIMIT. The checked invariants are not inductive alone: complete_stage
writes `artifact` on the row and on the attempt it finds by `(stage, attempt)`,
and that those agree needs that an attempt that is still open has no artifact,
that a row that was never claimed has no attempts, and that a row that is not
succeeded has no artifact. `UntouchedRows` says so, and

    IInv = StoreTypeOK /\ LeaseMatchesAttempt /\ RowMatchesAttempt
           /\ AttemptsContiguous /\ EarlierAttemptsRetryable
           /\ ParentsStaySucceeded /\ UntouchedRows

is inductive: one lemma per action, one step per conjunct the action touches.
From it follow each of its conjuncts (StoreTypeCorrect, LeaseAgreement,
ResultAgreement, AttemptNumbering, SingleVerdict, DependencyOrder), the three
action properties (SettledForGood, HistoryKept, LeaseProtects), and
StoreImplementsDataflow: `Complete` maps to `Finish`, a terminal `Fail` to
`GiveUp`, everything else to a stutter. `ParentsStaySucceeded` and
`SettledIsFinal` lean on each other: parents were succeeded when the child was
claimed, and succeeded rows never change.

**StageRunnerProofs** adds `RunnerAssumption` (the plan lists the stages, the
null values are no stages, bounds are naturals) and shows for any runners and
slots that every step of StageRunner is a step of LeaseStore, by one of its
callers, or leaves the tables alone (`RunnerStoreStep`). `RunnerSpec` does not
imply `StoreSpec`, as its tables are filled before it starts, but `IInv` holds
at that start too, so it is kept (RunnerInvariant, with types, with
what a runner picked having been claimed, and with each task's attempt having
been made), and each step refines the dataflow (RunnerImplementsDataflow) and
keeps settled rows, histories and live leases (RunnersRespectTheStore). On that
rest:

* ParentsWhileHandling: a task's stage was claimed, so `ParentsStaySucceeded`
  covers its handler, also when its lease is lost.
* LeasesAreWorkedOn: LeaseHasWorker alone is not inductive, as tasks that have
  ended, and a runner's claim that has not become a task yet, stand between a
  lease and its worker. `LeasesHeld` has them.

**RunnerOutcomeProofs** is first about the hazard of runner_zombie: the store checks
who completes a stage, not in which attempt. `AttemptProvenance` holds in two
cases, which leave out nothing but what that run shows.

* OneSlotProvenance, under `Slots = {s0}`, the default of
  `max_concurrent_stages`: a runner claims only when it has no task, not even
  one whose call runs on after it was cancelled (`OneTaskInv`), so its task is
  of the attempt it claimed last.
* PromptProvenance, for any slots, of `LiveSpec`, under `MaxLag <= LeaseTTL` (a
  call waits for the lock no longer than a lease lasts; the defaults have 10
  minutes for it). Only the safety part of LiveSpec is used: heartbeats are in
  time. `PromptInv` says that each task at work has its lease, of the current
  attempt and with time left, that no two tasks have the same, and that calls
  run on only in runners that were stopped and claim no more.
* PromptRunnersKeepRunning, under the same assumption and `~SinkFails`: then no
  exception leaves a task, so nothing but a stop ends `run_forever`. The run
  runner_lost_lease shows that the first is needed; a sink that raises ends the
  loop by itself.

The rest of RunnerOutcomeProofs counts, with the library's theorems on
cardinalities. StatsAreRecorded: the results a runner has counted and those its tasks are about
to report are no more than the attempts in the store that it ended so
(`CountsRecorded`; without the tasks still to report, the bound is not
inductive). EveryClaimIsCounted: as long as a runner is not stopped and has not
raised, its claims are its results and its tasks (`Accounted`).

NoWakeupIsLost (`NoWorkOverlooked`) needs that as long as a stage is runnable
and the LIMIT cuts nothing off, somebody will look again: `SomeoneWatches` says
that some runner is in its loop and has not just found nothing, has a task
whose end it waits for, or was stopped, has raised or may claim no more. A
runner that finds nothing found no runnable stage under the lock
(`NothingFoundMeansCutOff`), so at that moment there was no such stage; one that
becomes runnable later does so by a step of another runner, which is then in
its loop or has that task in flight (`ChangersWatch`), or by a call of one that
was stopped.

**SeedingProofs** assumes `StoreAssumption` and `PlanAssumption` (the plan lists
every stage after its parents; `ParentsPlannedFirst` checks that of RunPlan).
RowsParentClosed is not inductive: that the parents of the row to insert are
there follows from where the planner stands in the plan, and that they are
listed before it from their having been seen when `created_at` was read.
`PlannerStands` says both, and

    SeedInv = StoreTypeOK /\ PlannerTypeOK /\ (\A p : PlannerStands(p))
              /\ RowsListed /\ RowsParentClosed /\ ParentsListedFirst

is inductive together with `IInv`, for any number of planners, runners and
deaths of the process. From it follow the safety properties of the run
`seeding` (ClosedUnderParents, ParentsBeforeChildren, NothingLeftOut,
SeedingIsSafeToRepeat). SeedingUsesStore shows that planners and runners
together only do what LeaseStore allows its callers (`SeedSpec => StoreSpec`),
so that everything proved of the store holds while it is being seeded;
DependencyOrderWhileSeeding is one such case.

**ArtifactStoreProofs** needs `WholeInv` (a writer about to replace has an
fsynced temporary file) for FinalFilesAlwaysWhole and for ArtifactsImmutable,
and for ArtifactsReadable also `StayInv`: a writer about to return has seen its
file at the final path, and a name that was written back leads to a whole file.
They hold for any writers and contents and any number of deaths of the process
and of the machine; the exceptions for the latter are in the properties.

OneRefusalLeavesNothing (`LitterTakesTwoRefusals`) rests on `LitterInv`: a call
that is about to open its temporary file has none, and in its finally clause it
has one only if it was refused something.

**ControlsProofs** assumes `ControlsAssumption` (profiles and requests have the
types their pydantic models give them). BarredControlsAreInert and
RecordsAreComplete hold for requests of any controls in any order; `CompileInv`
says of a request that is half compiled, or whose examples raised, which controls are accounted for and
where each message and field comes from. NearestProfileDecides is for chains of
profiles of any length, by induction from the far end.

**RunPlanProofs** assumes `RunPlanAssumption` (configured lists are lists,
numbers are numbers) and nothing of the models that are drawn. A `Block` is a
list of stages, each with the parents its handler insists on, of its own
sample, and after them or with them there before. Blocks put one after the
other are a block; so each loop of `plan_missing_stages` yields one, by
induction on its passes, and the run as a whole is a block that needs nothing
before it (`RunStagesOK`). Conversations need a stronger induction: after `n`
turns the list is actor and theater alternately, in order (`IsConversation`),
from which follow the parents of turn `n` and the turns a transcript is given.
`PlanInv` carries this to the store, whose rows are those of the part of the
plan that is done, each once. From it follow ParentsComeFirst (which is the
`PlanAssumption` of Seeding), SamplesDoNotMix and HandlersAreServed.

EveryPieceOfWorkIsPlannedOnce (`OneRowPerPieceOfWork`) needs what a plan
contains and not only what is right about its stages: the stages of a sample
are conversation, transcript, evaluations, aggregate and mutations, told apart
by type and index (`SamplePlanKinds`), and each of these sets is counted by the
indices it is in bijection with (`SamplePlanCount`). The rows of a seeded run
are distinct, and those of a sample are just the stages of its plan
(`RowsOfSample`), however often its scenario or its actor is listed.

DrawsFollowTheWeights (`DrawsAreProportional`) is about pools of any candidates,
weights and `Precision`: a draw falls into its candidate's part of the total, so
a candidate has as many draws as there are multiples of the total in its part
of `Precision`, which is its share within one draw (`PartOfDraws`). The cumulated
weights rise (`CumulativeFacts`), and no draw but the one that rounds to 1.0
falls outside.

**HandlerFlowProofs** assumes `RunPlanAssumption` and `ContentAssumption`: ids and
limits are numbers, there is an answer to each attempt of each grader, genomes
and proposals are trees with nothing in common, as both have been read from
JSON. Nothing is assumed of what graders say or proposers propose. It has four
theorems, one for each property of HandlerFlow.

* CallsSeeTheRecord, from `FlowInv`: whatever is recorded, or computed by an
  attempt that may yet complete, is as the recorded turns before it have it.
  The property itself is not inductive, as it is about recorded calls, and a
  draft becomes one when it completes. Theater turns hand on the conversation so
  far, so what the next actor is shown is, by induction on the turn, all that
  was said; drafts stay right because an artifact is written once and the
  parents of a stage are recorded before it is claimed.
* AggregatesAreComplete, from `JudgingInv` (an aggregate is that of the recorded
  answers of all graders of its sample). The rest is about Assessments: a record
  has each judged point once, and each further copy of a configured one as
  missing (`RecordCount`, where the dict that judgments are popped from is dealt
  with); records put one after the other add up (`JudgmentsCount`); the sums of
  the aggregate are those of the tallies (`TotalHalves`, `RatingsFacts`).
* FocusOnTheWeakest: `Weaker` is a strict order on points whose ids differ
  (`WeakerOrders`: means are compared as fractions, by cross-multiplication,
  where transitivity has to be proved), so that counting the points before each
  gives its place in `FromWeakest` (`PlacesFromWeakest`), and a slice, also one
  with a negative limit, leaves out nothing weaker than what it has.
* PatchesAreWhole, from `PatchInv` (proposals can be applied to the run's genome
  and applications are of the recorded proposal) and from `PatchIsWhole` about
  GenomePatch alone. What makes it hard is that a value is put into the genome
  and not a copy, so that an operation might change what is also elsewhere.
  `Orderly` is what stays true from one operation to the next: no object is in
  two places, each that is in the genome or in a value has a *home* (where it
  was put, for good), and a value's object is in the genome only below the path
  of the operation that put it there. So there is one way to each object, up to
  keys that may be the same position of a list (`Alike`, `LeadsOneWay`). Hence
  an operation changes only what its path names (`KeptApart`), and reaches into
  a proposal's value only along a path that continues the path of the operation
  that set it (`KeptValues`), which is `Entangled`. `Intact` carries this, and
  that paths apart from all operations read as before, over any number of
  operations; the last one is done because nothing follows it (`StepIsDone`).

*Induction.* The library's induction theorems take an operator as a parameter
and cannot be used. `Induction` in RunPlanProofs, and the one in ControlsProofs,
is about a *set* of numbers and follows from the well-foundedness of `<`; the loops of the models
are recursive functions, so that "holds after `n` passes" is such a set.

**Only model-checked:** liveness (EveryReadyStageSettles, StopIsHeeded,
PlansGetSeeded), since fairness needs ENABLED, which is out of the prover's
reach. Every invariant and action property of the eight passing runs is a
theorem. The four runs that end in a violation refute a sentence for one
instance, which is all that is needed.

## 5. Not modelled, and why

* The wording of prompts, labels, rationales and confidences: nothing is decided
  by them (confidences are averaged as ratings are).
* Columns nothing reads back, events, `RunnerStats.reclaimed`: they are output.
* Several processes on one database file: DuckDB refuses the second.
* Loading YAML files: a pure pass over files that are read once. Canonical JSON,
  SHA-256, HTTP: library computations or one-shot I/O. Hashes are taken to be
  injective.
* Failure of a single SQL statement: `claim`, `complete` and `fail` roll back,
  and raise as they do when no row matches.
* Handlers that run while seeding goes on: HandlerFlow starts when it has ended,
  Seeding shows that what is there early is closed under parents.
* Which runner and lease an attempt has, in HandlerFlow: LeaseStore and
  StageRunner have them.

## 6. Plan

Done: all modules above, and proofs of every safety property that a passing run
checks, for the constants that the modules' assumptions allow.

Open:

1. The liveness properties for more than the checked instances.
2. `deep_merge` of configuration files, if the loader grows beyond one pass.
3. `~0` and `~1` in the paths of patches, if names with such characters are used.
