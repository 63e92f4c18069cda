---------------------------- MODULE Assessments ------------------------------
(***************************************************************************)
(* From graders' answers to the weakest disclosure points: parsing and     *)
(* aggregating in src/baroque/ranking/assessments.py, and the choice the   *)
(* mutation proposal makes from them in src/baroque/agents/prompt_only.py. *)
(*                                                                         *)
(* A configured point is a record of its id and weight; ids are numbers in *)
(* the order of their names.  An answer says whether a JSON object was     *)
(* found in it ("readable"), the points it judges, in order, and its       *)
(* rating in hundredths: "none", "nan" or a number.  Scores are in halves, *)
(* means are kept as sum and count.  Confidences, averaged like ratings,   *)
(* labels and rationales are left out.                                     *)
(***************************************************************************)
EXTENDS Loops, FiniteSets

CONSTANT MaxEvidence  \* how many evidence samples a point keeps: 5

Statuses == {"extracted", "partial", "missing", "contradicted"}

\* _normalize_status: anything else counts as missing.
Status(raw) == IF raw \in Statuses THEN raw ELSE "missing"

Halves(status) ==
    CASE status = "extracted" -> 2 [] status = "partial" -> 1 [] OTHER -> 0

\* _normalize_rating: no rating or one between 0 and 1.  min and max keep
\* their first argument when they compare with a NaN, which comes out as 1.
Rating(raw) ==
    CASE raw.form = "none" -> << >>
      [] raw.form = "nan" -> <<100>>
      [] raw.form = "number" -> <<Max({0, Min({100, raw.value})})>>

Ids(points) == [i \in DOMAIN points |-> points[i].id]

\* What a dict filled from a list holds under an id.
Under(id, list) == list[Max({i \in DOMAIN list : list[i].id = id})]

\* An unreadable answer is an empty one.
JudgedPoints(answer) == IF answer.readable THEN answer.points ELSE << >>

\* What the answer says of a point, last if it says it twice; the weight is
\* the configured one where the point is configured.
Judgment(configured, answer, id) ==
    LET item == Under(id, JudgedPoints(answer))
    IN  [id |-> id, status |-> Status(item.status), evidence |-> item.evidence,
         weight |-> IF id \in ToSet(Ids(configured))
                    THEN Under(id, configured).weight ELSE item.weight]

\* Mutated form of Judged: the second copy of a point is judged too.
JudgedTwice(configured, answer, i) ==
    configured[i].id \in ToSet(Ids(JudgedPoints(answer)))

\* Whether the i-th configured point gets its judgment: the first copy takes
\* it out of the dict.
Judged(configured, answer, i) ==
    /\ configured[i].id \in ToSet(Ids(JudgedPoints(answer)))
    /\ \A j \in 1..(i - 1) : configured[j].id # configured[i].id

Unjudged(point) ==
    [id |-> point.id, status |-> "missing", evidence |-> << >>, weight |-> point.weight]

\* assessment_record_from_grader_artifact: the configured points in order,
\* then what else the answer judges.
AssessmentRecord(configured, answer) ==
    LET judged == DictKeys(Ids(JudgedPoints(answer)))
        others == Only(judged, ToSet(judged) \ ToSet(Ids(configured)))
    IN  [points |->
            [i \in DOMAIN configured |->
                IF Judged(configured, answer, i)
                THEN Judgment(configured, answer, configured[i].id)
                ELSE Unjudged(configured[i])]
            \o [i \in DOMAIN others |-> Judgment(configured, answer, others[i])],
         rating |-> IF answer.readable THEN Rating(answer.rating) ELSE << >>]

\* The first MaxEvidence different pieces of evidence that are not empty.
EvidenceSamples(judgments) ==
    FoldLeft(LAMBDA samples, piece :
                IF piece = "" \/ piece \in ToSet(samples) \/ Len(samples) >= MaxEvidence
                THEN samples ELSE Append(samples, piece),
             << >>, ForEach(judgments, LAMBDA judgment : judgment.evidence))

\* _aggregate_disclosure_point
PointAggregate(id, judgments) ==
    LET of == Only(judgments, {judgment \in ToSet(judgments) : judgment.id = id})
    IN  [id |-> id,
         weight |-> Head(of).weight,
         count |-> Len(of),
         tally |-> [status \in Statuses |->
                       Cardinality({i \in DOMAIN of : of[i].status = status})],
         score |-> Total([i \in DOMAIN of |-> Halves(of[i].status)]),
         evidence |-> EvidenceSamples(of)]

\* aggregate_assessments, of at least one record
AggregateAssessments(records) ==
    LET judgments == ForEach(records, LAMBDA record : record.points)
        ids == DictKeys(Ids(judgments))
        ratings == ForEach(records, LAMBDA record : record.rating)
    IN  [count |-> Len(records),
         points |-> [i \in DOMAIN ids |-> PointAggregate(ids[i], judgments)],
         rated |-> Len(ratings),
         ratings |-> Total(ratings)]

(***************************************************************************)
(* _weakest_disclosure_points: by mean score, by the rate of partial or    *)
(* extracted judgments, by name.                                           *)
(***************************************************************************)
Found(point) == point.tally["extracted"] + point.tally["partial"]

\* Mutated form of Weaker: sums are compared, not means.
WeakerInSum(p, q) ==
    \/ p.score < q.score
    \/ p.score = q.score /\ p.id < q.id

Weaker(p, q) ==
    LET score == p.score * q.count - q.score * p.count
        found == Found(p) * q.count - Found(q) * p.count
    IN  \/ score < 0
        \/ score = 0 /\ found < 0
        \/ score = 0 /\ found = 0 /\ p.id < q.id

\* list[:limit]: a negative limit drops as many from the end.
Slice(list, limit) ==
    SubSeq(list, 1, IF limit >= 0 THEN Min({limit, Len(list)})
                    ELSE Max({0, Len(list) + limit}))

\* sorted() with this key
FromWeakest(points) ==
    CHOOSE list \in [1..Cardinality(points) -> points] :
        \A i, j \in DOMAIN list : i < j => Weaker(list[i], list[j])

WeakestPoints(aggregate, limit) ==
    Slice(Ids(FromWeakest(ToSet(aggregate.points))), limit)
=============================================================================
