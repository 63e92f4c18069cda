------------------------------ MODULE RunPlan -------------------------------
(***************************************************************************)
(* StaticRunPlanner.plan_missing_stages (src/baroque/orchestration/        *)
(* planner.py): which stages a run consists of and what they depend on,    *)
(* and seed_run handing them to a store that keeps one row per content     *)
(* hash.                                                                   *)
(*                                                                         *)
(* A StageSpec is abstracted to what tells two specs of a run apart: its   *)
(* type, its sample, its index within the sample, its parents and the      *)
(* model and endpoint of its call; the configuration snapshots are         *)
(* functions of these and of the configuration.  content_hash is the spec  *)
(* itself (no collisions), so parents are given by value.                  *)
(***************************************************************************)
EXTENDS Loops, ModelSelection, FiniteSets

CONSTANTS
    Runs,             \* run configurations: what they are made of, the pool
                      \* of each role, and an id
    NoModel,          \* of a stage that calls none
    Turns,            \* conversation_turns of each configured scenario
    Enabled,          \* enabled of each configured mutation operator
    DefaultOperator   \* "deterministic_prompt_baseline", an operator and the
                      \* name of an implementation

ASSUME RunPlanAssumption ==
    /\ \A scenario \in DOMAIN Turns : Turns[scenario] \in Nat
    /\ \A operator \in DOMAIN Enabled : Enabled[operator] \in BOOLEAN
    /\ \A r \in Runs :
          /\ \A list \in {r.scenarios, r.actors, r.graders, r.operators} :
                list \in Seq(ToSet(list))
          /\ {r.rollouts, r.assessments, r.mutations} \subseteq Int
          /\ \A role \in DOMAIN r.pools :
                LET pool == r.pools[role]
                IN  /\ pool.candidates \in Seq(ToSet(pool.candidates))
                    /\ \A candidate \in DOMAIN pool.weights : pool.weights[candidate] \in Int

VARIABLES
    run,    \* the configuration of the run being seeded
    phase,  \* "planning", "rejected", "seeding" or "seeded"
    plan,   \* the list plan_missing_stages returned
    next,   \* the position of the stage seed_run adds next
    rows    \* the stages in the store, in the order of their insertion

vars == <<run, phase, plan, next, rows>>

Spec(type, sample, index, parents, model) ==
    [type |-> type, sample |-> sample, index |-> index, parents |-> parents,
     model |-> model]

\* A stage that calls no model.
Local(type, sample, index, parents) == Spec(type, sample, index, parents, NoModel)

\* A stage that calls the model its role is given for this very call.
Call(r, role, type, sample, index, parents) ==
    Spec(type, sample, index, parents,
         ModelConfig(r.pools[role],
                     [run |-> r.id, type |-> type, sample |-> sample, index |-> index]))

\* Mutated form of ActorTurn: the actor continues its own previous turn.
ActorTurnAfterActor(r, sample, i, conversation) ==
    Call(r, "actor", "actor_turn", sample, <<i>>,
         IF conversation = << >> THEN << >> ELSE <<conversation[Len(conversation) - 1]>>)

\* The turns of one sample: the actor answers the theater's previous turn,
\* the theater answers the actor.
ActorTurn(r, sample, i, conversation) ==
    Call(r, "actor", "actor_turn", sample, <<i>>,
         IF conversation = << >> THEN << >> ELSE <<Last(conversation)>>)

TheaterTurn(r, sample, i, actorTurn) ==
    Call(r, "theater", "theater_turn", sample, <<i>>, <<actorTurn>>)

WithTurn(r, sample, i, conversation) ==
    LET actorTurn == ActorTurn(r, sample, i, conversation)
    IN  conversation \o <<actorTurn, TheaterTurn(r, sample, i, actorTurn)>>

Conversation(r, sample) ==
    LET first[n \in 0..Turns[sample.scenario]] ==
            IF n = 0 THEN << >> ELSE WithTurn(r, sample, n - 1, first[n - 1])
    IN  first[Turns[sample.scenario]]

Transcript(r, sample) ==
    Local("conversation_transcript", sample, << >>, Conversation(r, sample))

GraderEvals(r, sample) ==
    [i \in 1..r.assessments |->
        Call(r, "grader", "grader_eval", sample, <<i - 1>>, <<Transcript(r, sample)>>)]

\* Mutated form of Aggregate: the grader evals of the first rollout.
AggregateOfFirst(r, sample) ==
    Local("assessment_aggregate", sample, << >>,
          GraderEvals(r, [sample EXCEPT !.rollout = 0]))

Aggregate(r, sample) ==
    Local("assessment_aggregate", sample, << >>, GraderEvals(r, sample))

Mutation(sample, operator, i, aggregate) ==
    LET proposal == Local("mutation_proposal", sample, <<operator, i>>, <<aggregate>>)
    IN  <<proposal, Local("mutation_application", sample, <<operator, i>>, <<proposal>>)>>

\* _mutation_operator_ids: the default when none is active
Operators(r) == IF r.operators = << >> THEN <<DefaultOperator>> ELSE r.operators

Mutations(r, sample, aggregate) ==
    ForEach(Operators(r), LAMBDA operator :
        IF Enabled[operator]
        THEN ForRange(r.mutations, LAMBDA i : Mutation(sample, operator, i, aggregate))
        ELSE << >>)

\* Mutated form of SamplePlan: the transcript is appended before the turns.
SamplePlanTranscriptFirst(r, sample) ==
    <<Transcript(r, sample)>> \o Conversation(r, sample) \o GraderEvals(r, sample)
    \o <<Aggregate(r, sample)>> \o Mutations(r, sample, Aggregate(r, sample))

SamplePlan(r, sample) ==
    Conversation(r, sample) \o <<Transcript(r, sample)>> \o GraderEvals(r, sample)
    \o <<Aggregate(r, sample)>> \o Mutations(r, sample, Aggregate(r, sample))

\* Mutated form of Sample: rollouts are not told apart.
SampleWithoutRollout(scenario, actor, grader, rollout) ==
    [scenario |-> scenario, actor |-> actor, grader |-> grader,
     rollout |-> IF rollout > 0 THEN 0 ELSE rollout]

\* _sample_id hashes these four with the run id.
Sample(scenario, actor, grader, rollout) ==
    [scenario |-> scenario, actor |-> actor, grader |-> grader, rollout |-> rollout]

RunStages(r) ==
    ForEach(r.scenarios, LAMBDA scenario :
        ForEach(DictKeys(r.actors), LAMBDA actor :
            ForEach(DictKeys(r.graders), LAMBDA grader :
                ForRange(r.rollouts, LAMBDA rollout :
                    SamplePlan(r, Sample(scenario, actor, grader, rollout))))))

\* The checks that raise ValueError, all before the first add_stage.  A pool
\* is looked at when a call draws from it, so one that no call uses, or of
\* which no draw hits the bad entry, passes.
Valid(r) ==
    /\ {"actor", "theater", "grader"} \subseteq r.roles
    /\ r.actors # << >> /\ r.graders # << >>
    /\ r.scenarios # << >> /\ ToSet(r.scenarios) \subseteq DOMAIN Turns
    /\ r.rollouts >= 1 /\ r.assessments >= 1 /\ r.mutations >= 0
    /\ ToSet(Operators(r)) \subseteq DOMAIN Enabled
    /\ \A stage \in ToSet(RunStages(r)) :
          stage.model # NoModel => stage.model.endpoint # NoCandidate

Init ==
    /\ run \in Runs
    /\ phase = "planning"
    /\ plan = << >>
    /\ next = 1
    /\ rows = << >>

Reject ==
    /\ phase = "planning"
    /\ ~Valid(run)
    /\ phase' = "rejected"
    /\ UNCHANGED <<run, plan, next, rows>>

PlanMissingStages ==
    /\ phase = "planning"
    /\ Valid(run)
    /\ plan' = RunStages(run)
    /\ phase' = "seeding"
    /\ UNCHANGED <<run, next, rows>>

\* add_stage: a content hash that is there already is not inserted again.
AddNext ==
    /\ phase = "seeding"
    /\ rows' = IF plan[next] \in ToSet(rows) THEN rows ELSE Append(rows, plan[next])
    /\ next' = next + 1
    /\ phase' = IF next = Len(plan) THEN "seeded" ELSE "seeding"
    /\ UNCHANGED <<run, plan>>

Next == Reject \/ PlanMissingStages \/ AddNext

PlanSpec == Init /\ [][Next]_vars

-----------------------------------------------------------------------------
\* Wherever seeding is interrupted, every stage in the store comes after all
\* its parents: dependencies are acyclic (planner.py:18: "planned stage
\* dependencies must still be acyclic") and none is missing.
ParentsPlannedFirst ==
    \A i \in DOMAIN rows : \A k \in DOMAIN rows[i].parents :
        \E j \in 1..(i - 1) : rows[j] = rows[i].parents[k]

\* No stage of one sample depends on a stage of another: a failure spreads
\* within its sample only, and no grader reads another grader's conversation.
SamplesIsolated ==
    \A i \in DOMAIN rows : \A k \in DOMAIN rows[i].parents :
        rows[i].parents[k].sample = rows[i].sample

ParentTypes(s) == [k \in DOMAIN s.parents |-> s.parents[k].type]

\* The parents that the handler of a stage in agents/prompt_only.py insists on.
HasItsParents(r, s) ==
    CASE s.type = "actor_turn" ->
            IF s.index[1] = 0 THEN s.parents = << >>
            ELSE /\ ParentTypes(s) = <<"theater_turn">>
                 /\ s.parents[1].index[1] = s.index[1] - 1
      [] s.type = "theater_turn" ->
            ParentTypes(s) = <<"actor_turn">> /\ s.parents[1].index = s.index
      [] s.type = "conversation_transcript" ->
            {<<p.type, p.index[1]>> : p \in ToSet(s.parents)}
               = {"actor_turn", "theater_turn"} \X (0..(Turns[s.sample.scenario] - 1))
      [] s.type = "grader_eval" -> ParentTypes(s) = <<"conversation_transcript">>
      [] s.type = "assessment_aggregate" ->
            /\ Len(s.parents) = r.assessments
            /\ \A k \in DOMAIN s.parents : s.parents[k].type = "grader_eval"
      [] s.type = "mutation_proposal" -> ParentTypes(s) = <<"assessment_aggregate">>
      [] s.type = "mutation_application" -> ParentTypes(s) = <<"mutation_proposal">>

\* Every stage has the parents its handler insists on: a turn continues
\* exactly the turn before it (_previous_transcript), a transcript is given
\* every turn of the conversation, and the handlers that load a single parent
\* find exactly one, of the right kind.
HandlersGetTheirParents == \A i \in DOMAIN rows : HasItsParents(run, rows[i])

\* A seeded run has one row for every piece of work the configuration asks
\* for and no more: there is a sample for each scenario, actor, grader and
\* rollout and each sample has all its stages, no two of them share a content
\* hash, and what the configuration lists twice is done once.
OneRowPerPieceOfWork ==
    phase = "seeded" =>
        LET operators == {o \in ToSet(Operators(run)) : Enabled[o]}
            perSample(scenario) == 2 * Turns[scenario] + 1 + run.assessments + 1
                                      + 2 * run.mutations * Cardinality(operators)
            samples == [scenario : ToSet(run.scenarios), actor : ToSet(run.actors),
                        grader : ToSet(run.graders), rollout : 0..(run.rollouts - 1)]
        IN  /\ {stage.sample : stage \in ToSet(rows)} = samples
            /\ \A sample \in samples :
                  Cardinality({i \in DOMAIN rows : rows[i].sample = sample})
                     = perSample(sample.scenario)

\* See ProportionalDraws: every role that can draw draws in proportion.
DrawsAreProportional ==
    \A role \in DOMAIN run.pools :
        Selectable(run.pools[role]) => ProportionalDraws(run.pools[role])
=============================================================================
