--------------------------- MODULE MCHandlerFlow ----------------------------
(* Runs that are only planned: lists with and without repetitions, every   *)
(* number around its lower bound, scenarios of none to two turns, pools of *)
(* every strategy with repeated, weightless, negative and unknown          *)
(* candidates for every draw.  Runs that are worked on: conversations with *)
(* retries, samples side by side, all sorts of answers, and patches.       *)
EXTENDS HandlerFlow

CONSTANTS short, long, silent, unknown, x, y, g, h, base, off, alien, mild, odd,
          m1, m2, m3, e1, e2

TurnsOf == (silent :> 0) @@ (short :> 1) @@ (long :> 2)
EnabledOf == (base :> TRUE) @@ (mild :> TRUE) @@ (alien :> TRUE) @@ (odd :> TRUE) @@ (off :> FALSE)
AllRoles == {"actor", "theater", "grader"}

Operator(implementation, path, focus) ==
    [implementation |-> implementation, kind |-> "hand_authored", path |-> path, focus |-> focus]
OperatorConfigOf == (base :> Operator(base, PersonaPath, 1))
                 @@ (mild :> Operator(base, <<"style">>, -1))
                 @@ (alien :> Operator(alien, PersonaPath, 1))
                 @@ (odd :> [Operator(base, PersonaPath, 1) EXCEPT !.kind = "no such kind"])
                 @@ (off :> Operator(base, PersonaPath, 0))

Pool(candidates, selection, weights) ==
    [candidates |-> candidates, selection |-> selection, weights |-> weights]
OneModel == Pool(<<m1>>, "first", << >>)
Everyone(pool) == [role \in AllRoles |-> pool]

EndpointsOf == (m1 :> Pool(<<e1, e2>>, "sampled", << >>))
            @@ (m2 :> Pool(<<e2>>, "weighted", e2 :> 2))
            @@ (m3 :> Pool(<<e1, e2>>, "weighted_random", (e1 :> 0) @@ (e2 :> 0)))

\* Every context draws something else, and each draw is some run's.
DrawOf(label, pool, context) ==
    (context.run + context.sample.rollout
       + (IF context.type = "theater_turn" THEN 5 ELSE 0)
       + (IF label = "endpoint" THEN 3 ELSE 0)
       + FoldLeft(LAMBDA sum, i : sum + 7 * i, 0, context.index)) % (Precision + 1)

Shapes ==
    [scenarios   : {<<long>>, <<short, short>>, <<silent, short>>, <<unknown>>},
     actors      : {<<x>>, <<x, y, x>>},
     graders     : {<<g>>, <<g, h>>},
     rollouts    : 0..2,
     assessments : 0..2,
     mutations   : -1..1,
     operators   : {<< >>, <<off, base, base>>},
     roles       : {AllRoles},
     pools       : {Everyone(OneModel)}, id : {0}, content : {NoContent}]
  \cup
    [scenarios   : {<<short>>, << >>},
     actors      : {<<x>>, << >>},
     graders     : {<<g>>, << >>},
     rollouts    : {1}, assessments : {1}, mutations : {2},
     operators   : {<<off>>, <<unknown>>},
     roles       : SUBSET AllRoles,
     pools       : {Everyone(OneModel)}, id : {0}, content : {NoContent}]

PoolsOf ==
    {Pool(candidates, selection, weights) :
        candidates \in {<< >>, <<m2>>, <<m1, m2>>, <<m2, m1, m2>>, <<m1, m2, m3>>, <<m2, unknown>>},
        selection \in {"primary", "uniform", "weighted", "cheapest"},
        weights \in {<< >>, m1 :> 0, m2 :> 0, (m1 :> 2) @@ (m2 :> 3),
                     (m1 :> 1) @@ (m3 :> -1), (m1 :> 0) @@ (m2 :> 0) @@ (m3 :> 0)}}

\* One actor and one grader, whose role has this pool.
Plain(scenario, rollouts, assessments, operators, pool, id, content) ==
    [scenarios |-> <<scenario>>, actors |-> <<x>>, graders |-> <<g>>, rollouts |-> rollouts,
     assessments |-> assessments, mutations |-> IF operators = << >> THEN 0 ELSE 1,
     operators |-> operators, roles |-> AllRoles, pools |-> Everyone(pool), id |-> id,
     content |-> content]

Selections ==
    {Plain(short, 1, 1, << >>, pool, id, NoContent) : pool \in PoolsOf, id \in Draws}

-----------------------------------------------------------------------------
Point(id) == [id |-> id, weight |-> 1]
Item(id, status, evidence) == [id |-> id, status |-> status, evidence |-> evidence, weight |-> 7]
Answer(points, rating) ==
    [readable |-> TRUE, malformed |-> FALSE, points |-> points, rating |-> rating]
Number(n) == [form |-> "number", value |-> n]

Fair == Answer(<<Item(1, "extracted", <<"a", "b">>), Item(2, "partial", <<"a">>)>>, Number(80))
Split == Answer(<<Item(2, "partial", << >>), Item(1, "extracted", <<"c">>),
                  Item(3, "extracted", << >>)>>, [form |-> "none"])
Garbled == Answer(<<Item(1, "extracted", << >>), Item(2, "who knows", << >>),
                    Item(1, "contradicted", << >>)>>, [form |-> "nan"])
Excessive == Answer(<<Item(3, "partial", <<"d", "e", "f">>)>>, Number(250))
Unreadable == [Fair EXCEPT !.readable = FALSE]
Malformed == [Fair EXCEPT !.malformed = TRUE]
Sorts == {Fair, Split, Garbled, Excessive, Unreadable, Malformed}

Text(written) == [text |-> written]
To(reference) == [ref |-> reference]
Tree(controls) ==
    [root |-> "genome",
     heap |-> [genome |-> [dict |-> [control_requests |-> To("controls"), style |-> Text("dry"),
                                     examples |-> To("examples")]],
               controls |-> [dict |-> controls],
               persona |-> [dict |-> [value |-> Text("careful")]],
               examples |-> [list |-> <<Text("one"), To("two")>>],
               two |-> [dict |-> [value |-> Text("2")]]]]
Personal == Tree([persona_text |-> To("persona")])
PlainText == Tree([persona_text |-> Text("careful")])
Impersonal == Tree([other |-> To("persona")])

Op(op, path, value) == [op |-> op, path |-> path, value |-> value]
Proposal(operations) ==
    [operations |-> operations,
     heap |-> [new1 |-> [dict |-> [value |-> Text("n")]], new2 |-> [dict |-> << >>]]]

\* Operations that set a text, or a dict of their own.
Operations(own) ==
    {Op(op, path, Text("new")) :
        op \in {"add", "replace", "remove"},
        path \in {<< >>, PersonaPath, <<"style">>, <<"tone">>, <<"style", "value">>,
                  <<"control_requests", "other", "value">>,
                  <<"examples", "0">>, <<"examples", "-1">>, <<"examples", "-">>,
                  <<"examples", "2">>, <<"examples", "-1", "value">>, <<"examples", "x">>}}
  \cup {Op("add", <<"tone">>, To(own)), Op("replace", <<"examples", "-1">>, To(own)),
        Op("add", <<"tone", "value">>, Text("deep"))}

Content(claims, points, answers, genome, authored) ==
    [attempts |-> claims, points |-> points, answers |-> answers, genome |-> genome,
     authored |-> authored]

Conversations ==
    {Plain(long, 1, 1, <<base>>, OneModel, 0,
           Content(2, <<Point(1)>>, <<<<Malformed, Fair>>>>, Personal, << >>)),
     Plain(short, 1, 2, <<base>>, OneModel, 0,
           Content(2, <<Point(1)>>, <<<<Fair, Split>>, <<Garbled, Malformed>>>>, PlainText, << >>)),
     Plain(short, 2, 2, <<base>>, OneModel, 0,
           Content(1, <<Point(1)>>, <<<<Fair>>, <<Split>>>>, Personal, << >>))}

Judgments ==
    {Plain(silent, 1, 2, <<base, mild>>, OneModel, 0,
           Content(1, points, <<<<answer1>>, <<answer2>>>>, genome, << >>)) :
        points \in {<< >>, <<Point(2), Point(1)>>, <<Point(1), Point(2), Point(1)>>},
        answer1 \in Sorts, answer2 \in Sorts, genome \in {Personal, Impersonal}}

Patches ==
    {Plain(silent, 1, 1, <<base, alien>>, OneModel, 0,
           Content(1, <<Point(1)>>, <<<<Fair>>>>, Personal, <<Proposal(operations)>>)) :
        operations \in {<<first, second>> : first \in Operations("new1"), second \in Operations("new2")}
                      \cup {<< >>, <<Op("add", <<"-">>, Text("dash"))>>}}
  \cup {Plain(silent, 1, 1, <<alien, odd>>, OneModel, 0,
              Content(1, <<Point(1)>>, <<<<Fair>>>>, genome, << >>)) : genome \in {Personal, PlainText}}

RunsOf == Shapes \cup Selections \cup Conversations \cup Judgments \cup Patches
=============================================================================
