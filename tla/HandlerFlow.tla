---------------------------- MODULE HandlerFlow ------------------------------
(***************************************************************************)
(* The prompt-only handlers (src/baroque/agents/prompt_only.py) at work on *)
(* a planned run: what each reads from the artifacts of other stages, what *)
(* it computes, and what it leaves in its own.                             *)
(*                                                                         *)
(* Of the store only this remains: a stage is claimed when its parents     *)
(* have succeeded, also when an earlier attempt is still under way, and is *)
(* completed once, while an attempt has the lease: by that attempt or, as  *)
(* the lease names a runner and not an attempt, by an earlier one.         *)
(* Handlers read nothing but artifacts of stages that succeeded, which do  *)
(* not change, so an attempt is one step.  Work begins when seeding ends.  *)
(*                                                                         *)
(* Models say something new in each call, named after the call; only what  *)
(* graders say is given, since it is parsed.  A run that is planned and    *)
(* not worked on has NoContent.                                            *)
(***************************************************************************)
EXTENDS RunPlan, Assessments, GenomePatch, Bags

CONSTANTS
    NoContent,     \* of a run that is only planned
    NotHydrated,   \* what a grader gets in place of a conversation
    OperatorConfig \* implementation, kind, patch_path and focus_point_count
                   \* of each mutation operator

\* What content is, where a run has it: ids and limits are numbers, and each
\* grader has an answer for each attempt.
ASSUME ContentAssumption ==
    /\ DOMAIN Enabled \subseteq DOMAIN OperatorConfig
    /\ \A operator \in DOMAIN OperatorConfig :
          LET config == OperatorConfig[operator]
          IN  config.focus \in Int /\ config.path \in Seq(ToSet(config.path))
    /\ \A r \in Runs : r.content # NoContent =>
          /\ r.content.attempts \in Nat
          /\ r.content.points \in Seq(ToSet(r.content.points))
          /\ \A point \in ToSet(r.content.points) : point.id \in Int
          /\ \A i \in 1..r.assessments, k \in 1..r.content.attempts :
                LET answer == r.content.answers[i][k]
                IN  /\ answer.points \in Seq(ToSet(answer.points))
                    /\ \A item \in ToSet(answer.points) : item.id \in Int
                    /\ \/ answer.rating.form \in {"none", "nan"}
                       \/ answer.rating.form = "number" /\ answer.rating.value \in Int
          /\ IsGenome(r.content.genome)
          /\ r.content.authored \in Seq(ToSet(r.content.authored))
          /\ \A proposal \in ToSet(r.content.authored) :
                /\ IsProposal(proposal)
                /\ DOMAIN proposal.heap \cap DOMAIN r.content.genome.heap = {}

VARIABLES
    attempts,  \* a bag of stages: one for each claim
    drafts,    \* what attempts computed that are not completed
    output,    \* the artifact of each stage that succeeded
    failed     \* the stages that failed terminally

flowVars == <<attempts, drafts, output, failed>>

\* What a model answers to this attempt, of no use to any other stage.
Reply(s, attempt) == <<s.type, s.sample, s.index, attempt>>

Parent(s) == output[s.parents[1]]

\* actor_turn_handler, _previous_transcript
ActorTurnPayload(s, attempt) ==
    [kind |-> "actor_turn", turn |-> s.index[1],
     before |-> IF s.parents = << >> THEN << >> ELSE Parent(s).text,
     question |-> Reply(s, attempt)]

\* theater_turn_handler, _append_turn_transcript
TheaterTurnPayload(s, attempt) ==
    LET actor == Parent(s)
        answer == Reply(s, attempt)
    IN  [kind |-> "theater_turn", turn |-> s.index[1],
         before |-> actor.before, actor_question |-> actor.question, answer |-> answer,
         text |-> Append(actor.before, [turn |-> s.index[1], question |-> actor.question,
                                        answer |-> answer])]

\* sorted() of a set of turn indices
Ascending(S) ==
    CHOOSE list \in [1..Cardinality(S) -> S] :
        \A i, j \in DOMAIN list : i < j => list[i] < list[j]

\* _turns_from_parent_payloads: the actor's artifact has the last word on
\* what was asked, whatever the order of the parents.
AssembledTurn(payloads, i) ==
    LET of(kind) == {p \in payloads : p.kind = kind /\ p.turn = i}
        actor == of("actor_turn")
        theater == of("theater_turn")
    IN  [turn |-> i,
         question |-> IF actor # {} THEN (CHOOSE p \in actor : TRUE).question
                      ELSE (CHOOSE p \in theater : TRUE).actor_question,
         answer |-> IF theater # {} THEN (CHOOSE p \in theater : TRUE).answer ELSE << >>]

\* conversation_transcript_handler
TranscriptPayload(s) ==
    LET payloads == {output[p] : p \in ToSet(s.parents)}
        turns == Ascending({p.turn : p \in payloads})
    IN  [kind |-> "conversation",
         text |-> [i \in DOMAIN turns |-> AssembledTurn(payloads, turns[i])]]

\* grader_eval_handler, hydrate_grader_parent: the conversation is loaded by
\* the hash in the stage's metadata, and where that fails the grader is
\* called without it.
GraderPayload(s, attempt) ==
    LET conversation == Transcript(run, s.sample)
    IN  [kind |-> "grader_eval",
         conversation |-> IF conversation \in DOMAIN output THEN output[conversation].text
                          ELSE NotHydrated,
         answer |-> run.content.answers[s.index[1] + 1][attempt]]

\* assessment_aggregate_handler: parses the graders' answers again.
AggregatePayload(s) ==
    [kind |-> "assessment_aggregate",
     aggregate |-> AggregateAssessments(
        [i \in DOMAIN s.parents |->
            AssessmentRecord(run.content.points, output[s.parents[i]].answer)])]

PersonaPath == <<"control_requests", "persona_text", "value">>

Config(s) == OperatorConfig[s.index[1]]

\* _deterministic_prompt_mutation_proposal: the persona the genome has, or
\* (here Raised) the default one, with a note that names the weakest points.
BaselineProposal(s) ==
    LET genome == run.content.genome
    IN  [operations |->
            <<[op |-> "replace", path |-> Config(s).path,
               value |-> [persona |-> Descend(genome.heap, genome.root, PersonaPath),
                          focus |-> WeakestPoints(Parent(s).aggregate, Config(s).focus)]]>>,
         heap |-> << >>]

\* mutation_proposal_handler.  Operators implemented elsewhere are served by
\* a proposer registered instead of it, if the run has one.
ProposalPayload(s) ==
    [kind |-> "mutation_proposal",
     proposal |-> IF Config(s).implementation = DefaultOperator THEN BaselineProposal(s)
                  ELSE run.content.authored[1]]

\* mutation_application_handler: the proposal is written down after it was
\* applied.
ApplicationPayload(s) ==
    LET application == Application(Parent(s).proposal, run.content.genome)
    IN  [kind |-> "mutation_application", proposal |-> application.proposal,
         application |-> application]

Payload(s, attempt) ==
    CASE s.type = "actor_turn" -> ActorTurnPayload(s, attempt)
      [] s.type = "theater_turn" -> TheaterTurnPayload(s, attempt)
      [] s.type = "conversation_transcript" -> TranscriptPayload(s)
      [] s.type = "grader_eval" -> GraderPayload(s, attempt)
      [] s.type = "assessment_aggregate" -> AggregatePayload(s)
      [] s.type = "mutation_proposal" -> ProposalPayload(s)
      [] s.type = "mutation_application" -> ApplicationPayload(s)

\* MutationOperatorKind
OperatorKinds == {"llm_edit", "random_sample", "crossover", "hand_authored", "parameter_sample"}

\* A persona_text that is a plain text, which _genome_persona takes for a dict.
PlainPersona(genome) ==
    LET persona == Descend(genome.heap, genome.root, Front(PersonaPath))
    IN  persona # Raised /\ ~(IsRef(persona) /\ IsDict(genome.heap[persona.ref]))

\* _mutation_proposal_for_operator: no such implementation; the baseline: no
\* such kind, which it looks at when it has its text.
Unsupported(s) ==
    /\ s.type = "mutation_proposal"
    /\ IF Config(s).implementation = DefaultOperator
       THEN Config(s).kind \notin OperatorKinds /\ ~PlainPersona(run.content.genome)
       ELSE run.content.authored = << >>

\* An attempt that raises and is retried: a judged point that the model of a
\* judgment refuses (assessments.py), a genome the baseline cannot read.
Raises(s, attempt) ==
    \/ /\ s.type = "grader_eval"
       /\ run.content.answers[s.index[1] + 1][attempt].malformed
    \/ /\ s.type = "mutation_proposal"
       /\ Config(s).implementation = DefaultOperator
       /\ PlainPersona(run.content.genome)

\* How often a stage has been claimed.
Claims(s) == IF BagIn(s, attempts) THEN attempts[s] ELSE 0

\* Claimed by the store: see LeaseStore.  run.content.attempts bounds claims.
Claimable(s) ==
    /\ phase = "seeded"
    /\ run.content # NoContent
    /\ s \notin DOMAIN output \cup failed
    /\ ToSet(s.parents) \subseteq DOMAIN output

Attempt(s) ==
    LET attempt == Claims(s) + 1 IN
    /\ Claimable(s)
    /\ attempt <= run.content.attempts
    /\ ~Unsupported(s)
    /\ attempts' = attempts (+) SetToBag({s})
    /\ drafts' = IF Raises(s, attempt) THEN drafts
                 ELSE drafts \cup {[stage |-> s, attempt |-> attempt,
                                    payload |-> Payload(s, attempt)]}
    /\ UNCHANGED <<output, failed>>

FailTerminally(s) ==
    /\ Claimable(s)
    /\ Unsupported(s)
    /\ attempts' = attempts (+) SetToBag({s})
    /\ failed' = failed \cup {s}
    /\ UNCHANGED <<drafts, output>>

\* The artifact of a stage is recorded.
With(outputs, draft) ==
    [s \in DOMAIN outputs \cup {draft.stage} |->
        IF s = draft.stage THEN draft.payload ELSE outputs[s]]

\* Mutated form of Complete: an attempt completes the stage whenever it comes
\* back.
CompleteLate(draft) ==
    /\ output' = With(output, draft)
    /\ drafts' = drafts \ {draft}
    /\ UNCHANGED <<attempts, failed>>

\* See LeaseStore: the newest attempt, unless it raised, holds the lease.
Complete(draft) ==
    /\ draft.stage \notin DOMAIN output
    /\ \E newest \in drafts : /\ newest.stage = draft.stage
                              /\ newest.attempt = Claims(draft.stage)
    /\ output' = With(output, draft)
    /\ drafts' = drafts \ {draft}
    /\ UNCHANGED <<attempts, failed>>

FlowInit ==
    /\ Init
    /\ attempts = EmptyBag
    /\ drafts = {}
    /\ output = << >>
    /\ failed = {}

FlowNext ==
    \/ Next /\ UNCHANGED flowVars
    \/ /\ \/ \E s \in ToSet(rows) : Attempt(s) \/ FailTerminally(s)
          \/ \E draft \in drafts : Complete(draft)
       /\ UNCHANGED vars

FlowSpec == FlowInit /\ [][FlowNext]_<<vars, flowVars>>

-----------------------------------------------------------------------------
Succeeded(type) == {s \in DOMAIN output : s.type = type}

\* The first n turns of a sample as its own turn stages recorded them.
RecordedTurns(sample, n) ==
    LET of(type, i) == output[CHOOSE s \in Succeeded(type) : s.sample = sample /\ s.index = <<i>>]
    IN  [i \in 1..n |-> [turn |-> i - 1,
                         question |-> of("actor_turn", i - 1).question,
                         answer |-> of("theater_turn", i - 1).answer]]

\* Actor and theater are shown, in each call, the questions and answers that
\* are recorded for the turns before it, and graders the whole conversation:
\* the transcript the turns hand on, the one that is assembled in the end
\* and the artifacts of the turns tell one story, whichever attempts were
\* lost or retried, and no grader judges a conversation it was not given.
CallsSawTheRecord ==
    /\ \A s \in Succeeded("actor_turn") :
          output[s].before = RecordedTurns(s.sample, s.index[1])
    /\ \A s \in Succeeded("theater_turn") :
          /\ output[s].before = RecordedTurns(s.sample, s.index[1])
          /\ output[s].text = RecordedTurns(s.sample, s.index[1] + 1)
    /\ \A s \in Succeeded("conversation_transcript") :
          output[s].text = RecordedTurns(s.sample, Turns[s.sample.scenario])
    /\ \A s \in Succeeded("grader_eval") :
          output[s].conversation = RecordedTurns(s.sample, Turns[s.sample.scenario])

\* The recorded answers in which graders of the sample say anything of a
\* point.
GraderAnswers(sample) ==
    {<<s, output[s].answer>> : s \in {g \in Succeeded("grader_eval") : g.sample = sample}}

Mentions(answer, id) == id \in ToSet(Ids(JudgedPoints(answer)))

\* How many judgments of a status a point has to have: one for each grader
\* that says so, and a missing one for each grader and copy of the point in
\* the configuration that this leaves without.
ExpectedTally(sample, id, status) ==
    LET answers == GraderAnswers(sample)
        heard == {a \in answers : Mentions(a[2], id)}
        copies == Cardinality({i \in DOMAIN run.content.points : run.content.points[i].id = id})
        unheard == IF copies = 0 THEN 0
                   ELSE copies * Cardinality(answers) - Cardinality(heard)
    IN  Cardinality({a \in heard : Status(Under(id, JudgedPoints(a[2])).status) = status})
        + IF status = "missing" THEN unheard ELSE 0

\* The points of a sample: those configured and those a grader came up with.
PointIds(sample) ==
    ToSet(Ids(run.content.points))
        \cup UNION {ToSet(Ids(JudgedPoints(a[2]))) : a \in GraderAnswers(sample)}

\* An aggregate accounts for every grader's answer as it was recorded: it
\* counts them all, gives each point once, and each point the judgments it
\* was given, the answer that could not be read as missing; mean ratings are
\* between 0 and 1.
AggregateCountsEveryGrader ==
    \A s \in Succeeded("assessment_aggregate") :
        LET aggregate == output[s].aggregate
            points == ToSet(aggregate.points)
        IN  /\ aggregate.count = run.assessments
            /\ {p.id : p \in points} = PointIds(s.sample)
            /\ Len(aggregate.points) = Cardinality(PointIds(s.sample))
            /\ \A p \in points : \A status \in Statuses :
                  p.tally[status] = ExpectedTally(s.sample, p.id, status)
            /\ aggregate.rated <= run.assessments
            /\ aggregate.ratings \in 0..(100 * aggregate.rated)

\* The baseline asks the next run to go after the points that did worst with
\* the graders of its own sample: none that is left out has a lower mean
\* score than one that is named, and focus_point_count of them are named, or,
\* below zero, all but that many.
FocusIsWeakest ==
    \A s \in Succeeded("mutation_proposal") :
        Config(s).implementation = DefaultOperator =>
            LET focus == output[s].proposal.operations[1].value.focus
                ids == PointIds(s.sample)
                tally(id, status) == ExpectedTally(s.sample, id, status)
                score(id) == 2 * tally(id, "extracted") + tally(id, "partial")
                count(id) == tally(id, "extracted") + tally(id, "partial")
                             + tally(id, "missing") + tally(id, "contradicted")
                limit == Config(s).focus
            IN  /\ ToSet(focus) \subseteq ids
                /\ \A f \in ToSet(focus), id \in ids \ ToSet(focus) :
                      score(f) * count(id) <= score(id) * count(f)
                /\ Cardinality(ToSet(focus)) = Len(focus)
                /\ Len(focus) = IF limit >= 0 THEN Min({limit, Cardinality(ids)})
                                ELSE Max({0, Cardinality(ids) + limit})

Read(genome, path) == Descend(genome.heap, genome.root, path)

\* The part of a path that is made of names, not of positions in a list.
Named(path) ==
    LET positions == {i \in DOMAIN path : path[i] \in DOMAIN Numeral \cup {"-"}}
    IN  IF positions = {} THEN path ELSE SubSeq(path, 1, Min(positions) - 1)

\* The paths of names that lead somewhere in a genome.
NamedPaths(genome) ==
    LET dicts == {r \in DOMAIN genome.heap : IsDict(genome.heap[r])}
        keys == UNION {DOMAIN genome.heap[r].dict : r \in dicts}
    IN  {path \in UNION {[1..n -> keys] : n \in 1..3} : Read(genome, path) # Raised}

\* Whether an operation may reach into what another one put into the genome.
Entangled(operations) ==
    \E i, j \in DOMAIN operations :
        /\ IsRef(operations[i].value)
        /\ IsStrictPrefix(Named(operations[i].path), operations[j].path)

\* What an operation wrote can be read where it was written, or at the end of
\* a list; the name it removed leads nowhere.
IsDone(operation, genome) ==
    LET path == operation.path
    IN  /\ operation.op \in {"add", "replace"} =>
              \/ Read(genome, path) = operation.value
              \/ /\ Last(path) = "-"
                 /\ Read(genome, Append(Front(path), "-1")) = operation.value
        /\ operation.op = "remove" /\ Named(path) = path => Read(genome, path) = Raised

\* A patch is applied as a whole or not at all: if one operation fails there
\* is no child and the genome is the parent's, though operations before it
\* succeeded; if all succeed, what the last one wrote or removed is so, and
\* whatever no operation names is as in the parent, also when the sample has
\* been mutated by another operator.  The proposal is recorded as it was
\* made, unless its operations are entangled (mutations.py:154: the value is
\* not copied).
PatchesAllOrNothing ==
    \A s \in Succeeded("mutation_application") :
        LET application == output[s].application
            operations == output[s].proposal.operations
            parent == run.content.genome
            apart(path, operation) == /\ ~IsPrefix(Named(operation.path), path)
                                      /\ ~IsPrefix(path, Named(operation.path))
        IN  /\ ~application.applied => application.genome = parent /\ application.child = NoGenome
            /\ application.applied =>
                  /\ application.child # NoGenome
                  /\ operations # << >> => IsDone(Last(operations), application.genome)
                  /\ \A path \in NamedPaths(parent) :
                        (\A i \in DOMAIN operations : apart(path, operations[i]))
                        => Read(application.genome, path) = Read(parent, path)
            /\ ~Entangled(operations) => output[s].proposal = output[s.parents[1]].proposal
=============================================================================
