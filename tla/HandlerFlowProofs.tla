-------------------------- MODULE HandlerFlowProofs --------------------------
(***************************************************************************)
(* Proofs about HandlerFlow, for every configuration, conversations of any *)
(* length and any number of graders, whatever the models and graders say:  *)
(* what the handlers of a run's turns, transcripts and graders are shown   *)
(* is what is recorded; the aggregate of a sample counts every answer of   *)
(* its graders once; the baseline goes after the weakest points; a patch   *)
(* is applied as a whole or not at all.                                    *)
(***************************************************************************)
EXTENDS HandlerFlow, RunPlanProofs

(* The stages of a run by name.                                            *)

Actor(r, sample, i) == Conversation(r, sample)[2 * i + 1]

Theater(r, sample, i) == Conversation(r, sample)[2 * i + 2]

LEMMA TurnStages ==
  ASSUME NEW r, NEW sample, Turns[sample.scenario] \in Nat,
         NEW i \in 0..(Turns[sample.scenario] - 1)
  PROVE  /\ IsTurn(Actor(r, sample, i), "actor_turn", sample, i)
         /\ IsTurn(Theater(r, sample, i), "theater_turn", sample, i)
         /\ StageOK(r, Actor(r, sample, i)) /\ StageOK(r, Theater(r, sample, i))
         /\ Parents(Actor(r, sample, i)) \subseteq ToSet(Conversation(r, sample))
         /\ Parents(Theater(r, sample, i)) \subseteq ToSet(Conversation(r, sample))
         /\ Actor(r, sample, i) \in ToSet(Conversation(r, sample))
         /\ Theater(r, sample, i) \in ToSet(Conversation(r, sample))
<1> DEFINE n == Turns[sample.scenario]
           c == Conversation(r, sample)
<1>1. IsConversation(r, sample, n, c)
  BY ConversationOK
<1> HIDE DEF c
<1>2. IsList(c) /\ Len(c) = 2 * n /\ ToSet(c) = {c[j] : j \in 1..Len(c)}
  BY <1>1, ListFacts DEF IsConversation, Block
<1>3. /\ i + 1 \in 1..n /\ 2 * (i + 1) - 1 = 2 * i + 1 /\ 2 * (i + 1) = 2 * i + 2
      /\ (i + 1) - 1 = i /\ 2 * i + 1 \in 1..(2 * n) /\ 2 * i + 2 \in 1..(2 * n)
  OBVIOUS
<1>4. /\ IsTurn(c[2 * i + 1], "actor_turn", sample, i)
      /\ IsTurn(c[2 * i + 2], "theater_turn", sample, i)
  BY <1>1, <1>3 DEF IsConversation
<1>5. \A j \in 1..(2 * n) : /\ StageOK(r, c[j]) /\ c[j] \in ToSet(c)
                            /\ Parents(c[j]) \subseteq ToSet(c)
  <2> SUFFICES ASSUME NEW j \in 1..(2 * n)
               PROVE  /\ StageOK(r, c[j]) /\ c[j] \in ToSet(c)
                      /\ Parents(c[j]) \subseteq ToSet(c)
    OBVIOUS
  <2>1. \A p \in Parents(c[j]) : \E k \in 1..(j - 1) : c[k] = p
    BY <1>1, <1>2 DEF IsConversation, Block
  <2>2. \A k \in 1..(j - 1) : k \in 1..Len(c)
    BY <1>2
  <2>3. StageOK(r, c[j])
    BY <1>1, <1>2 DEF IsConversation, Block
  <2> QED BY <1>2, <2>1, <2>2, <2>3
<1> QED BY <1>3, <1>4, <1>5 DEF Actor, Theater, c

\* A conversation has no other stages.
LEMMA ConversationMembers ==
  ASSUME NEW r, NEW sample, Turns[sample.scenario] \in Nat,
         NEW s \in ToSet(Conversation(r, sample))
  PROVE  \E i \in 0..(Turns[sample.scenario] - 1) :
            s = Actor(r, sample, i) \/ s = Theater(r, sample, i)
<1> DEFINE n == Turns[sample.scenario]
           c == Conversation(r, sample)
<1>1. IsConversation(r, sample, n, c)
  BY ConversationOK
<1> HIDE DEF c
<1>2. IsList(c) /\ Len(c) = 2 * n /\ ToSet(c) = {c[j] : j \in 1..Len(c)}
  BY <1>1, ListFacts DEF IsConversation, Block
<1>3. PICK j \in 1..(2 * n) : s = c[j]
  BY <1>2 DEF c
<1>4. PICK i \in Nat : j - 1 = 2 * i \/ j - 1 = 2 * i + 1
  <2>1. j - 1 \in Nat
    OBVIOUS
  <2> QED BY <2>1, EvenOrOdd
<1>5. i \in 0..(n - 1) /\ (j = 2 * i + 1 \/ j = 2 * i + 2)
  BY <1>4
<1> QED BY <1>3, <1>5 DEF Actor, Theater, c

\* The actor continues the theater's last turn, the theater answers the actor.
LEMMA TurnParents ==
  ASSUME NEW r, NEW sample, Turns[sample.scenario] \in Nat,
         NEW i \in 0..(Turns[sample.scenario] - 1)
  PROVE  /\ i = 0 => Actor(r, sample, i).parents = << >>
         /\ i # 0 => /\ Actor(r, sample, i).parents # << >>
                     /\ Actor(r, sample, i).parents[1] = Theater(r, sample, i - 1)
                     /\ Theater(r, sample, i - 1) \in Parents(Actor(r, sample, i))
         /\ Theater(r, sample, i).parents[1] = Actor(r, sample, i)
         /\ Actor(r, sample, i) \in Parents(Theater(r, sample, i))
<1> DEFINE n == Turns[sample.scenario]
           a == Actor(r, sample, i)
           t == Theater(r, sample, i)
<1>1. /\ IsTurn(a, "actor_turn", sample, i) /\ IsTurn(t, "theater_turn", sample, i)
      /\ HasItsParents(r, a) /\ HasItsParents(r, t)
      /\ Parents(a) \subseteq ToSet(Conversation(r, sample))
      /\ Parents(t) \subseteq ToSet(Conversation(r, sample))
  BY TurnStages DEF StageOK
<1>2. ASSUME NEW p \in ToSet(Conversation(r, sample))
      PROVE  \E j \in 0..(n - 1) :
                \/ p = Actor(r, sample, j) /\ IsTurn(p, "actor_turn", sample, j)
                \/ p = Theater(r, sample, j) /\ IsTurn(p, "theater_turn", sample, j)
  BY ConversationMembers, TurnStages
<1> HIDE DEF a, t
<1>3. ASSUME NEW s, NEW type, ParentTypes(s) = <<type>>
      PROVE  /\ s.parents[1] \in Parents(s) /\ s.parents[1].type = type
             /\ s.parents # << >>
  <2>1. DOMAIN s.parents = DOMAIN ParentTypes(s)
    BY DEF ParentTypes
  <2>2. 1 \in DOMAIN s.parents
    BY <1>3, <2>1
  <2>3. ParentTypes(s)[1] = s.parents[1].type
    BY <2>2 DEF ParentTypes
  <2>4. s.parents # << >>
    <3>1. 1 \notin DOMAIN << >>
      OBVIOUS
    <3> QED BY <2>2, <3>1, Zenon
  <2> QED BY <1>3, <2>2, <2>3, <2>4 DEF Parents, ToSet
<1>4. i = 0 => a.parents = << >>
  BY <1>1 DEF HasItsParents, IsTurn
<1>5. ASSUME i # 0
      PROVE  /\ a.parents # << >> /\ a.parents[1] = Theater(r, sample, i - 1)
             /\ a.parents[1] \in Parents(a)
  <2>1. ParentTypes(a) = <<"theater_turn">> /\ a.parents[1].index[1] = i - 1
    BY <1>1, <1>5 DEF HasItsParents, IsTurn
  <2>2. a.parents[1] \in Parents(a) /\ a.parents[1].type = "theater_turn" /\ a.parents # << >>
    BY <1>3, <2>1
  <2>3. PICK j \in 0..(n - 1) :
           \/ /\ a.parents[1] = Actor(r, sample, j)
              /\ IsTurn(a.parents[1], "actor_turn", sample, j)
           \/ /\ a.parents[1] = Theater(r, sample, j)
              /\ IsTurn(a.parents[1], "theater_turn", sample, j)
    BY <1>1, <1>2, <2>2
  <2>4. a.parents[1] = Theater(r, sample, j) /\ j = i - 1
    BY <2>1, <2>2, <2>3 DEF IsTurn
  <2> QED BY <2>2, <2>4
<1>6. t.parents[1] = a /\ t.parents[1] \in Parents(t)
  <2>1. ParentTypes(t) = <<"actor_turn">> /\ t.parents[1].index = <<i>>
    BY <1>1 DEF HasItsParents, IsTurn
  <2>2. t.parents[1] \in Parents(t) /\ t.parents[1].type = "actor_turn"
    BY <1>3, <2>1
  <2>3. PICK j \in 0..(n - 1) :
           \/ /\ t.parents[1] = Actor(r, sample, j)
              /\ IsTurn(t.parents[1], "actor_turn", sample, j)
           \/ /\ t.parents[1] = Theater(r, sample, j)
              /\ IsTurn(t.parents[1], "theater_turn", sample, j)
    BY <1>1, <1>2, <2>2
  <2>4. t.parents[1] = Actor(r, sample, j) /\ <<j>> = <<i>>
    BY <2>1, <2>2, <2>3 DEF IsTurn
  <2> QED BY <2>2, <2>4 DEF a
<1> QED BY <1>4, <1>5, <1>6 DEF a, t

\* What a stage of the plan is, by its type.
IsPlanned(r, s) ==
    LET sample == s.sample
        n == Turns[sample.scenario]
    IN  /\ n \in Nat
        /\ s.type = "actor_turn" => \E i \in 0..(n - 1) : s = Actor(r, sample, i)
        /\ s.type = "theater_turn" => \E i \in 0..(n - 1) : s = Theater(r, sample, i)
        /\ s.type = "conversation_transcript" => s = Transcript(r, sample)
        /\ s.type = "grader_eval" => s.parents = <<Transcript(r, sample)>>

LEMMA RowsAreKnown ==
  ASSUME PlanInv, NEW s \in ToSet(rows)
  PROVE  IsPlanned(run, s)
<1> DEFINE m == s.sample
           n == Turns[m.scenario]
<1>1. /\ s \in ToSet(SamplePlan(run, m)) /\ n \in Nat
      /\ IsList(Operators(run)) /\ run.assessments \in Nat /\ run.mutations \in Nat
  BY RowsArePlanned
<1> DEFINE c == Conversation(run, m)
           t == Transcript(run, m)
           e == GraderEvals(run, m)
           a == Aggregate(run, m)
           mutations == Mutations(run, m, a)
<1>2. s \in ToSet(c) \/ s = t \/ s \in ToSet(e) \/ s = a \/ s \in ToSet(mutations)
  BY <1>1, SamplePlanMembers
<1>3. CASE s \in ToSet(c)
  <2>1. PICK i \in 0..(n - 1) : s = Actor(run, m, i) \/ s = Theater(run, m, i)
    BY <1>1, <1>3, ConversationMembers
  <2>2. CASE s = Actor(run, m, i)
    <3>1. IsTurn(Actor(run, m, i), "actor_turn", m, i)
      BY <1>1, TurnStages
    <3>2. s.type = "actor_turn"
      BY <2>2, <3>1, Zenon DEF IsTurn
    <3> QED BY <1>1, <2>2, <3>2 DEF IsPlanned
  <2>3. CASE s = Theater(run, m, i)
    <3>1. IsTurn(Theater(run, m, i), "theater_turn", m, i)
      BY <1>1, TurnStages
    <3>2. s.type = "theater_turn"
      BY <2>3, <3>1, Zenon DEF IsTurn
    <3> QED BY <1>1, <2>3, <3>2 DEF IsPlanned
  <2> QED BY <2>1, <2>2, <2>3
<1>4. CASE s = t
  <2>1. t.type = "conversation_transcript"
    BY DEF Transcript, Local, Spec
  <2>2. s.type = "conversation_transcript"
    BY <1>4, <2>1, Zenon
  <2> QED BY <1>1, <1>4, <2>2 DEF IsPlanned
<1>5. CASE s \in ToSet(e)
  <2>1. IsList(e) /\ Len(e) = run.assessments
    BY <1>1, GraderEvalsOK DEF Block
  <2>2. \A i \in 1..run.assessments : e[i].type = "grader_eval" /\ e[i].parents = <<t>>
    BY DEF GraderEvals, Call, Spec
  <2> HIDE DEF e
  <2>3. s.type = "grader_eval" /\ s.parents = <<t>>
    BY <1>5, <2>1, <2>2, ListFacts
  <2> QED BY <1>1, <2>3 DEF IsPlanned
<1>6. CASE s = a
  <2>1. a.type = "assessment_aggregate"
    BY DEF Aggregate, Local, Spec
  <2>2. s.type = "assessment_aggregate"
    BY <1>6, <2>1, Zenon
  <2> QED BY <1>1, <2>2 DEF IsPlanned
<1>7. CASE s \in ToSet(mutations)
  <2>1. s.type \in {"mutation_proposal", "mutation_application"}
    BY <1>1, <1>7, SamplePlanKinds
  <2> QED BY <1>1, <2>1 DEF IsPlanned
<1> QED BY <1>2, <1>3, <1>4, <1>5, <1>6, <1>7

-----------------------------------------------------------------------------
(* The record of a conversation.                                           *)

\* The first n turns have recorded what was said.
TurnsIn(r, out, sample, n) ==
    \A i \in 0..(n - 1) : /\ Actor(r, sample, i) \in DOMAIN out
                          /\ Theater(r, sample, i) \in DOMAIN out

TurnOf(r, out, sample, i) ==
    [turn |-> i, question |-> out[Actor(r, sample, i)].question,
     answer |-> out[Theater(r, sample, i)].answer]

TurnsSoFar(r, out, sample, n) == [i \in 1..n |-> TurnOf(r, out, sample, i - 1)]

\* What an attempt at a stage computed is as the recorded turns have it.
SoundActorTurn(r, out, s, p) ==
    LET i == s.index[1] IN
    /\ TurnsIn(r, out, s.sample, i)
    /\ p.kind = "actor_turn" /\ p.turn = i
    /\ p.before = TurnsSoFar(r, out, s.sample, i)

SoundTheaterTurn(r, out, s, p) ==
    LET i == s.index[1] IN
    /\ TurnsIn(r, out, s.sample, i) /\ Actor(r, s.sample, i) \in DOMAIN out
    /\ p.kind = "theater_turn" /\ p.turn = i
    /\ p.before = TurnsSoFar(r, out, s.sample, i)
    /\ p.text = Append(p.before,
                       [turn |-> i, question |-> out[Actor(r, s.sample, i)].question,
                        answer |-> p.answer])

Whole(r, out, sample, conversation) ==
    /\ TurnsIn(r, out, sample, Turns[sample.scenario])
    /\ conversation = TurnsSoFar(r, out, sample, Turns[sample.scenario])

Sound(r, out, s, p) ==
    /\ s.type = "actor_turn" => SoundActorTurn(r, out, s, p)
    /\ s.type = "theater_turn" => SoundTheaterTurn(r, out, s, p)
    /\ s.type = "conversation_transcript" => Whole(r, out, s.sample, p.text)
    /\ s.type = "grader_eval" => Whole(r, out, s.sample, p.conversation)

\* All that is recorded, or may come to be, was computed from the recorded
\* turns; what attempts that are not completed say is on no record.
FlowInv ==
    /\ PlanInv
    /\ DOMAIN output \subseteq ToSet(rows)
    /\ \A s \in DOMAIN output : Sound(run, output, s, output[s])
    /\ \A d \in drafts : d.stage \in ToSet(rows) /\ Sound(run, output, d.stage, d.payload)

LEMMA OneMoreTurn ==
  ASSUME NEW r, NEW out, NEW sample, NEW n \in Nat
  PROVE  Append(TurnsSoFar(r, out, sample, n), TurnOf(r, out, sample, n))
            = TurnsSoFar(r, out, sample, n + 1)
<1> DEFINE turn(i) == TurnOf(r, out, sample, i)
           so == [i \in 1..n |-> turn(i - 1)]
           more == [i \in 1..(n + 1) |-> turn(i - 1)]
           X == {turn(i) : i \in 0..n}
<1>1. so = TurnsSoFar(r, out, sample, n) /\ more = TurnsSoFar(r, out, sample, n + 1)
  BY DEF TurnsSoFar
<1>2. \A i \in 1..(n + 1) : turn(i - 1) \in X
  OBVIOUS
<1> HIDE DEF X, turn
<1>3. so \in Seq(X) /\ more \in Seq(X) /\ Len(so) = n /\ Len(more) = n + 1
  BY <1>2
<1>4. turn(n) \in X
  <2>1. n + 1 \in 1..(n + 1) /\ (n + 1) - 1 = n
    OBVIOUS
  <2> QED BY <1>2, <2>1
<1> DEFINE a == Append(so, turn(n))
<1>5. a \in Seq(X) /\ Len(a) = n + 1
  BY <1>3, <1>4
<1>6. \A i \in 1..n : a[i] = so[i]
  BY <1>3, <1>4
<1>7. a[n + 1] = turn(n)
  BY <1>3, <1>4
<1>8. (\A i \in 1..n : so[i] = turn(i - 1)) /\ (\A i \in 1..(n + 1) : more[i] = turn(i - 1))
  OBVIOUS
<1> HIDE DEF a, so, more
<1>9. \A i \in 1..(n + 1) : a[i] = more[i]
  <2> SUFFICES ASSUME NEW i \in 1..(n + 1) PROVE a[i] = more[i]
    OBVIOUS
  <2>1. CASE i \in 1..n
    BY <1>6, <1>8, <2>1
  <2>2. CASE i = n + 1
    <3>1. i - 1 = n
      BY <2>2
    <3> QED BY <1>7, <1>8, <2>2, <3>1
  <2> QED BY <2>1, <2>2
<1>10. a = more
  BY <1>3, <1>5, <1>9
<1> QED BY <1>1, <1>10 DEF a, turn

\* sorted() of the first n turn indices
LEMMA AscendingTurns ==
  ASSUME NEW n \in Nat
  PROVE  Ascending(0..(n - 1)) = [i \in 1..n |-> i - 1]
<1> DEFINE T == 0..(n - 1)
           f == [i \in 1..n |-> i - 1]
           Sorted(list) == \A i, j \in DOMAIN list : i < j => list[i] < list[j]
<1>1. Cardinality(T) = n
  BY FS_Interval
<1>2. f \in [1..n -> T] /\ Sorted(f)
  OBVIOUS
<1> DEFINE list == CHOOSE l \in [1..n -> T] : Sorted(l)
<1>3. list \in [1..n -> T] /\ Sorted(list)
  BY <1>2
<1>4. Ascending(T) = list
  BY <1>1 DEF Ascending
<1> HIDE DEF list
<1>5. \A i, j \in 1..n : i < j => list[i] < list[j]
  BY <1>3
<1>6. \A i \in 1..n : list[i] \in 0..(n - 1)
  BY <1>3
<1> HIDE DEF T, Sorted
<1> DEFINE S == {k \in Nat : k + 1 \in 1..n => list[k + 1] >= k}
           R == {k \in Nat : n - k \in 1..n => list[n - k] <= (n - k) - 1}
<1>7. \A k \in Nat : k \in S
  <2>1. 0 \in S
    BY <1>6
  <2>2. ASSUME NEW k \in Nat, k \in S PROVE k + 1 \in S
    <3> SUFFICES ASSUME k + 2 \in 1..n PROVE list[k + 2] >= k + 1
      OBVIOUS
    <3>1. k + 1 \in 1..n /\ k + 1 < k + 2
      OBVIOUS
    <3>2. list[k + 1] >= k /\ list[k + 1] < list[k + 2]
      BY <1>5, <2>2, <3>1
    <3> QED BY <1>6, <3>1, <3>2
  <2> HIDE DEF S
  <2> QED BY <2>1, <2>2, Induction
<1>8. \A k \in Nat : k \in R
  <2>1. 0 \in R
    BY <1>6
  <2>2. ASSUME NEW k \in Nat, k \in R PROVE k + 1 \in R
    <3> SUFFICES ASSUME n - (k + 1) \in 1..n PROVE list[n - (k + 1)] <= (n - (k + 1)) - 1
      OBVIOUS
    <3>1. n - k \in 1..n /\ n - (k + 1) < n - k
      OBVIOUS
    <3>2. list[n - k] <= (n - k) - 1 /\ list[n - (k + 1)] < list[n - k]
      BY <1>5, <2>2, <3>1
    <3> QED BY <1>6, <3>1, <3>2
  <2> HIDE DEF R
  <2> QED BY <2>1, <2>2, Induction
<1>9. \A i \in 1..n : list[i] = i - 1
  <2> SUFFICES ASSUME NEW i \in 1..n PROVE list[i] = i - 1
    OBVIOUS
  <2>1. i - 1 \in Nat /\ (i - 1) + 1 = i /\ n - i \in Nat /\ n - (n - i) = i
    OBVIOUS
  <2>2. list[i] >= i - 1
    BY <1>7, <2>1
  <2>3. list[i] <= i - 1
    BY <1>8, <2>1
  <2> QED BY <1>6, <2>2, <2>3
<1> QED BY <1>3, <1>4, <1>9 DEF T

\* What is recorded stays as it is while more is recorded.
Extends(out, more) ==
    \A s \in DOMAIN out : s \in DOMAIN more /\ more[s] = out[s]

LEMMA TurnsStay ==
  ASSUME NEW r, NEW out, NEW more, Extends(out, more), NEW sample, NEW n \in Nat,
         TurnsIn(r, out, sample, n)
  PROVE  /\ TurnsIn(r, more, sample, n)
         /\ TurnsSoFar(r, more, sample, n) = TurnsSoFar(r, out, sample, n)
<1>1. TurnsIn(r, more, sample, n)
  BY DEF TurnsIn, Extends
<1>2. \A i \in 0..(n - 1) : TurnOf(r, more, sample, i) = TurnOf(r, out, sample, i)
  BY DEF TurnsIn, Extends, TurnOf
<1>3. \A i \in 1..n : TurnOf(r, more, sample, i - 1) = TurnOf(r, out, sample, i - 1)
  BY <1>2
<1>4. TurnsSoFar(r, more, sample, n) = TurnsSoFar(r, out, sample, n)
  BY <1>3, Zenon DEF TurnsSoFar
<1> QED BY <1>1, <1>4

LEMMA TurnIndex ==
  ASSUME NEW r, NEW s, IsPlanned(r, s), s.type \in {"actor_turn", "theater_turn"}
  PROVE  /\ s.index[1] \in 0..(Turns[s.sample.scenario] - 1)
         /\ s.type = "actor_turn" => s = Actor(r, s.sample, s.index[1])
         /\ s.type = "theater_turn" => s = Theater(r, s.sample, s.index[1])
<1> DEFINE n == Turns[s.sample.scenario]
<1>1. n \in Nat
  BY DEF IsPlanned
<1>2. ASSUME s.type = "actor_turn"
      PROVE  s.index[1] \in 0..(n - 1) /\ s = Actor(r, s.sample, s.index[1])
  <2>1. PICK i \in 0..(n - 1) : s = Actor(r, s.sample, i)
    BY <1>2 DEF IsPlanned
  <2>2. s.index = <<i>>
    <3>1. IsTurn(Actor(r, s.sample, i), "actor_turn", s.sample, i)
      BY <1>1, TurnStages
    <3>2. IsTurn(s, "actor_turn", s.sample, i)
      BY <2>1, <3>1, Zenon
    <3> QED BY <3>2 DEF IsTurn
  <2>3. s.index[1] = i
    BY <2>2
  <2> QED BY <2>1, <2>3
<1>3. ASSUME s.type = "theater_turn"
      PROVE  s.index[1] \in 0..(n - 1) /\ s = Theater(r, s.sample, s.index[1])
  <2>1. PICK i \in 0..(n - 1) : s = Theater(r, s.sample, i)
    BY <1>3 DEF IsPlanned
  <2>2. s.index = <<i>>
    <3>1. IsTurn(Theater(r, s.sample, i), "theater_turn", s.sample, i)
      BY <1>1, TurnStages
    <3>2. IsTurn(s, "theater_turn", s.sample, i)
      BY <2>1, <3>1, Zenon
    <3> QED BY <3>2 DEF IsTurn
  <2>3. s.index[1] = i
    BY <2>2
  <2> QED BY <2>1, <2>3
<1> QED BY <1>2, <1>3

LEMMA SoundStays ==
  ASSUME NEW r, NEW out, NEW more, Extends(out, more), NEW s, NEW p,
         IsPlanned(r, s), Sound(r, out, s, p)
  PROVE  Sound(r, more, s, p)
<1> DEFINE m == s.sample
           n == Turns[m.scenario]
           i == s.index[1]
<1>1. n \in Nat
  BY DEF IsPlanned
<1>2. s.type \in {"actor_turn", "theater_turn"} => i \in Nat
  BY <1>1, TurnIndex
<1>3. CASE s.type = "actor_turn"
  <2>1. SoundActorTurn(r, out, s, p)
    BY <1>3 DEF Sound
  <2>2. SoundActorTurn(r, more, s, p)
    BY <1>2, <1>3, <2>1, TurnsStay DEF SoundActorTurn
  <2> QED BY <1>3, <2>2 DEF Sound
<1>4. CASE s.type = "theater_turn"
  <2>1. SoundTheaterTurn(r, out, s, p)
    BY <1>4 DEF Sound
  <2>2. /\ Actor(r, m, i) \in DOMAIN more
        /\ more[Actor(r, m, i)] = out[Actor(r, m, i)]
    BY <2>1 DEF SoundTheaterTurn, Extends
  <2>3. /\ TurnsIn(r, more, m, i)
        /\ TurnsSoFar(r, more, m, i) = TurnsSoFar(r, out, m, i)
    BY <1>2, <1>4, <2>1, TurnsStay DEF SoundTheaterTurn
  <2>4. SoundTheaterTurn(r, more, s, p)
    BY <2>1, <2>2, <2>3 DEF SoundTheaterTurn
  <2> QED BY <1>4, <2>4 DEF Sound
<1>5. ASSUME NEW text, Whole(r, out, m, text) PROVE Whole(r, more, m, text)
  BY <1>1, <1>5, TurnsStay DEF Whole
<1>6. CASE s.type \notin {"actor_turn", "theater_turn"}
  BY <1>5, <1>6 DEF Sound
<1> QED BY <1>3, <1>4, <1>6

-----------------------------------------------------------------------------
(* What handlers compute.                                                  *)

LEMMA TurnsInNext ==
  ASSUME NEW r, NEW out, NEW sample, NEW n \in Nat, n # 0, TurnsIn(r, out, sample, n - 1),
         Actor(r, sample, n - 1) \in DOMAIN out, Theater(r, sample, n - 1) \in DOMAIN out
  PROVE  TurnsIn(r, out, sample, n)
<1>1. \A i \in 0..(n - 1) : i \in 0..((n - 1) - 1) \/ i = n - 1
  OBVIOUS
<1> QED BY <1>1 DEF TurnsIn

\* A theater turn that is recorded hands on the conversation up to it.
LEMMA HandedOn ==
  ASSUME NEW r, NEW sample, Turns[sample.scenario] \in Nat, NEW out,
         NEW i \in 0..(Turns[sample.scenario] - 1),
         Theater(r, sample, i) \in DOMAIN out,
         Sound(r, out, Theater(r, sample, i), out[Theater(r, sample, i)])
  PROVE  /\ TurnsIn(r, out, sample, i + 1)
         /\ out[Theater(r, sample, i)].text = TurnsSoFar(r, out, sample, i + 1)
<1> DEFINE t == Theater(r, sample, i)
           a == Actor(r, sample, i)
           p == out[t]
<1>1. t.type = "theater_turn" /\ t.sample = sample /\ t.index[1] = i
  BY TurnStages DEF IsTurn
<1>2. i \in Nat /\ (i + 1) - 1 = i /\ i + 1 # 0 /\ i + 1 \in Nat
  OBVIOUS
<1>3. SoundTheaterTurn(r, out, t, p)
  BY <1>1 DEF Sound
<1>4. /\ TurnsIn(r, out, sample, i) /\ a \in DOMAIN out
      /\ p.text = Append(TurnsSoFar(r, out, sample, i),
                         [turn |-> i, question |-> out[a].question, answer |-> p.answer])
  BY <1>1, <1>3, Zenon DEF SoundTheaterTurn
<1>5. TurnsIn(r, out, sample, i + 1)
  BY <1>2, <1>4, TurnsInNext
<1>6. p.text = Append(TurnsSoFar(r, out, sample, i), TurnOf(r, out, sample, i))
  BY <1>4, Zenon DEF TurnOf
<1>7. p.text = TurnsSoFar(r, out, sample, i + 1)
  BY <1>2, <1>6, OneMoreTurn
<1> QED BY <1>5, <1>7

LEMMA ActorTurnSound ==
  ASSUME FlowInv, NEW s \in ToSet(rows), IsPlanned(run, s), s.type = "actor_turn",
         ToSet(s.parents) \subseteq DOMAIN output, NEW attempt
  PROVE  SoundActorTurn(run, output, s, ActorTurnPayload(s, attempt))
<1> DEFINE m == s.sample
           i == s.index[1]
           p == ActorTurnPayload(s, attempt)
<1>1. Turns[m.scenario] \in Nat /\ i \in 0..(Turns[m.scenario] - 1) /\ s = Actor(run, m, i)
  BY TurnIndex DEF IsPlanned
<1>2. /\ p.kind = "actor_turn" /\ p.turn = i
      /\ p.before = IF s.parents = << >> THEN << >> ELSE output[s.parents[1]].text
  BY DEF ActorTurnPayload, Parent
<1> HIDE DEF p
<1>3. CASE i = 0
  <2>1. s.parents = << >>
    BY <1>1, <1>3, TurnParents
  <2>2. TurnsSoFar(run, output, m, 0) = << >> /\ TurnsIn(run, output, m, 0)
    BY DEF TurnsSoFar, TurnsIn
  <2> QED BY <1>2, <1>3, <2>1, <2>2 DEF SoundActorTurn, p
<1>4. CASE i # 0
  <2> DEFINE t == Theater(run, m, i - 1)
  <2>1. s.parents # << >> /\ s.parents[1] = t /\ t \in ToSet(s.parents)
    BY <1>1, <1>4, TurnParents DEF Parents
  <2>2. t \in DOMAIN output /\ Sound(run, output, t, output[t])
    BY <2>1 DEF FlowInv
  <2>3. i - 1 \in 0..(Turns[m.scenario] - 1) /\ (i - 1) + 1 = i
    BY <1>1, <1>4
  <2>4. /\ TurnsIn(run, output, m, (i - 1) + 1)
        /\ output[t].text = TurnsSoFar(run, output, m, (i - 1) + 1)
    BY <1>1, <2>2, <2>3, HandedOn
  <2> QED BY <1>2, <2>1, <2>3, <2>4 DEF SoundActorTurn, p
<1> QED BY <1>3, <1>4

LEMMA TheaterTurnSound ==
  ASSUME FlowInv, NEW s \in ToSet(rows), IsPlanned(run, s), s.type = "theater_turn",
         ToSet(s.parents) \subseteq DOMAIN output, NEW attempt
  PROVE  SoundTheaterTurn(run, output, s, TheaterTurnPayload(s, attempt))
<1> DEFINE m == s.sample
           i == s.index[1]
           p == TheaterTurnPayload(s, attempt)
           a == Actor(run, m, i)
<1>1. Turns[m.scenario] \in Nat /\ i \in 0..(Turns[m.scenario] - 1) /\ s = Theater(run, m, i)
  BY TurnIndex DEF IsPlanned
<1>2. s.parents[1] = a /\ a \in ToSet(s.parents)
  BY <1>1, TurnParents DEF Parents
<1>3. a \in DOMAIN output /\ Sound(run, output, a, output[a])
  BY <1>2 DEF FlowInv
<1>4. a.type = "actor_turn" /\ a.sample = m /\ a.index[1] = i
  BY <1>1, TurnStages DEF IsTurn
<1> HIDE DEF a
<1>5. /\ TurnsIn(run, output, m, i)
      /\ output[a].before = TurnsSoFar(run, output, m, i)
  BY <1>3, <1>4 DEF Sound, SoundActorTurn
<1>6. /\ p.kind = "theater_turn" /\ p.turn = i /\ p.before = output[a].before
      /\ p.text = Append(output[a].before,
                         [turn |-> i, question |-> output[a].question, answer |-> p.answer])
  BY <1>2 DEF TheaterTurnPayload, Parent
<1> HIDE DEF p
<1> QED BY <1>3, <1>5, <1>6 DEF SoundTheaterTurn, a, p

\* The turns of a transcript are put together again from those recorded.
LEMMA TranscriptSound ==
  ASSUME FlowInv, NEW s \in ToSet(rows), IsPlanned(run, s),
         s.type = "conversation_transcript", ToSet(s.parents) \subseteq DOMAIN output
  PROVE  Whole(run, output, s.sample, TranscriptPayload(s).text)
<1> DEFINE m == s.sample
           n == Turns[m.scenario]
           payloads == {output[p] : p \in ToSet(s.parents)}
           a(i) == Actor(run, m, i)
           t(i) == Theater(run, m, i)
<1>1. n \in Nat /\ s.parents = Conversation(run, m)
  BY DEF IsPlanned, Transcript, Local, Spec
<1>2. \A i \in 0..(n - 1) : /\ a(i) \in ToSet(s.parents) /\ t(i) \in ToSet(s.parents)
                            /\ IsTurn(a(i), "actor_turn", m, i)
                            /\ IsTurn(t(i), "theater_turn", m, i)
  BY <1>1, TurnStages
<1>3. \A p \in ToSet(s.parents) : \E i \in 0..(n - 1) : p = a(i) \/ p = t(i)
  BY <1>1, ConversationMembers
<1>4. TurnsIn(run, output, m, n)
  BY <1>2 DEF TurnsIn
<1> HIDE DEF a, t, n
<1>5. \A i \in 0..(n - 1) :
         /\ output[a(i)] \in payloads /\ output[t(i)] \in payloads
         /\ output[a(i)].kind = "actor_turn" /\ output[a(i)].turn = i
         /\ output[t(i)].kind = "theater_turn" /\ output[t(i)].turn = i
  <2> SUFFICES ASSUME NEW i \in 0..(n - 1)
               PROVE  /\ output[a(i)] \in payloads /\ output[t(i)] \in payloads
                      /\ output[a(i)].kind = "actor_turn" /\ output[a(i)].turn = i
                      /\ output[t(i)].kind = "theater_turn" /\ output[t(i)].turn = i
    OBVIOUS
  <2>1. /\ a(i).type = "actor_turn" /\ a(i).index[1] = i
        /\ t(i).type = "theater_turn" /\ t(i).index[1] = i
    BY <1>2 DEF IsTurn
  <2>2. Sound(run, output, a(i), output[a(i)]) /\ Sound(run, output, t(i), output[t(i)])
    BY <1>2 DEF FlowInv
  <2>3. output[a(i)].kind = "actor_turn" /\ output[a(i)].turn = i
    BY <2>1, <2>2 DEF Sound, SoundActorTurn
  <2>4. output[t(i)].kind = "theater_turn" /\ output[t(i)].turn = i
    BY <2>1, <2>2 DEF Sound, SoundTheaterTurn
  <2> QED BY <1>2, <2>3, <2>4
<1>6. \A p \in payloads : \E i \in 0..(n - 1) : p = output[a(i)] \/ p = output[t(i)]
  BY <1>3
<1> HIDE DEF payloads
<1>7. {p.turn : p \in payloads} = 0..(n - 1)
  BY <1>5, <1>6
<1>8. \A i \in 0..(n - 1) :
         /\ {p \in payloads : p.kind = "actor_turn" /\ p.turn = i} = {output[a(i)]}
         /\ {p \in payloads : p.kind = "theater_turn" /\ p.turn = i} = {output[t(i)]}
  <2> SUFFICES ASSUME NEW i \in 0..(n - 1), NEW p \in payloads, p.turn = i
               PROVE  /\ p.kind = "actor_turn" => p = output[a(i)]
                      /\ p.kind = "theater_turn" => p = output[t(i)]
    BY <1>5
  <2>1. PICK j \in 0..(n - 1) : p = output[a(j)] \/ p = output[t(j)]
    BY <1>6
  <2>2. j = i
    BY <1>5, <2>1
  <2> QED BY <1>5, <2>1, <2>2
<1>9. \A i \in 0..(n - 1) : AssembledTurn(payloads, i) = TurnOf(run, output, m, i)
  <2> SUFFICES ASSUME NEW i \in 0..(n - 1)
               PROVE  AssembledTurn(payloads, i) = TurnOf(run, output, m, i)
    OBVIOUS
  <2>1. \A x : (CHOOSE p \in {x} : TRUE) = x /\ {x} # {}
    OBVIOUS
  <2>2. AssembledTurn(payloads, i) = [turn |-> i, question |-> output[a(i)].question,
                                      answer |-> output[t(i)].answer]
    BY <1>8, <2>1 DEF AssembledTurn
  <2> QED BY <2>2 DEF TurnOf, a, t
<1> DEFINE turns == Ascending({p.turn : p \in payloads})
<1>10. turns = [i \in 1..n |-> i - 1]
  BY <1>1, <1>7, AscendingTurns DEF n
<1>11. TranscriptPayload(s).text = [i \in DOMAIN turns |-> AssembledTurn(payloads, turns[i])]
  BY DEF TranscriptPayload, payloads
<1> HIDE DEF turns
<1>12. DOMAIN turns = 1..n /\ \A i \in 1..n : turns[i] = i - 1 /\ i - 1 \in 0..(n - 1)
  BY <1>1, <1>10 DEF n
<1>13. \A i \in 1..n : AssembledTurn(payloads, turns[i]) = TurnOf(run, output, m, i - 1)
  BY <1>9, <1>12
<1>14. TranscriptPayload(s).text = TurnsSoFar(run, output, m, n)
  BY <1>11, <1>12, <1>13, Zenon DEF TurnsSoFar
<1> QED BY <1>4, <1>14 DEF Whole, n

\* The transcript is there when the graders start, so none is called
\* without it.
LEMMA GraderSound ==
  ASSUME FlowInv, NEW s \in ToSet(rows), IsPlanned(run, s), s.type = "grader_eval",
         ToSet(s.parents) \subseteq DOMAIN output, NEW attempt
  PROVE  Whole(run, output, s.sample, GraderPayload(s, attempt).conversation)
<1> DEFINE t == Transcript(run, s.sample)
<1>1. t \in DOMAIN output
  BY Singleton DEF IsPlanned
<1>2. t.type = "conversation_transcript" /\ t.sample = s.sample
  BY DEF Transcript, Local, Spec
<1>3. Whole(run, output, s.sample, output[t].text)
  <2>1. Sound(run, output, t, output[t])
    BY <1>1 DEF FlowInv
  <2> HIDE DEF t
  <2> QED BY <1>2, <2>1 DEF Sound
<1>4. GraderPayload(s, attempt).conversation = output[t].text
  BY <1>1 DEF GraderPayload
<1> QED BY <1>3, <1>4

LEMMA PayloadSound ==
  ASSUME FlowInv, NEW s \in ToSet(rows), ToSet(s.parents) \subseteq DOMAIN output,
         NEW attempt
  PROVE  Sound(run, output, s, Payload(s, attempt))
<1>1. IsPlanned(run, s)
  BY RowsAreKnown DEF FlowInv
<1>2. CASE s.type = "actor_turn"
  <2>1. Payload(s, attempt) = ActorTurnPayload(s, attempt)
    BY <1>2 DEF Payload
  <2> QED BY <1>1, <1>2, <2>1, ActorTurnSound DEF Sound
<1>3. CASE s.type = "theater_turn"
  <2>1. Payload(s, attempt) = TheaterTurnPayload(s, attempt)
    BY <1>3 DEF Payload
  <2> QED BY <1>1, <1>3, <2>1, TheaterTurnSound DEF Sound
<1>4. CASE s.type = "conversation_transcript"
  <2>1. Payload(s, attempt) = TranscriptPayload(s)
    BY <1>4 DEF Payload
  <2> QED BY <1>1, <1>4, <2>1, TranscriptSound DEF Sound
<1>5. CASE s.type = "grader_eval"
  <2>1. Payload(s, attempt) = GraderPayload(s, attempt)
    BY <1>5 DEF Payload
  <2> QED BY <1>1, <1>5, <2>1, GraderSound DEF Sound
<1>6. CASE s.type \notin {"actor_turn", "theater_turn", "conversation_transcript",
                          "grader_eval"}
  BY <1>6 DEF Sound
<1> QED BY <1>2, <1>3, <1>4, <1>5, <1>6

-----------------------------------------------------------------------------
(* The invariant.                                                          *)

LEMMA FlowInvInit == FlowInit => FlowInv
<1>1. DOMAIN << >> = {}
  OBVIOUS
<1> QED BY <1>1, PlanInvInit DEF FlowInit, FlowInv

\* Seeding adds rows, and leaves what handlers go by as it is.
LEMMA SeedingKeepsFlowInv ==
  ASSUME FlowInv, [Next]_vars, UNCHANGED flowVars
  PROVE  FlowInv'
<1>1. PlanInv /\ PlanInv'
  BY PlanInvNext DEF FlowInv
<1>2. run' = run
  BY DEF Next, Reject, PlanMissingStages, AddNext, vars
<1>3. ToSet(rows) \subseteq ToSet(rows')
  <2>1. CASE AddNext
    <3>1. IsList(rows)
      BY <1>1 DEF PlanInv
    <3> QED BY <2>1, <3>1, Appended DEF AddNext
  <2>2. CASE ~AddNext
    BY <2>2 DEF Next, Reject, PlanMissingStages, vars
  <2> QED BY <2>1, <2>2
<1> QED BY <1>1, <1>2, <1>3 DEF FlowInv, flowVars

LEMMA AttemptKeepsFlowInv ==
  ASSUME FlowInv, NEW s \in ToSet(rows), Attempt(s), UNCHANGED vars
  PROVE  FlowInv'
<1>1. PlanInv /\ PlanInv'
  BY PlanInvNext DEF FlowInv
<1>2. run' = run /\ rows' = rows /\ output' = output
  BY DEF vars, Attempt
<1>3. PICK attempt : drafts' \subseteq drafts \cup {[stage |-> s, attempt |-> attempt,
                                                     payload |-> Payload(s, attempt)]}
  BY DEF Attempt
<1>4. Sound(run, output, s, Payload(s, attempt))
  <2>1. ToSet(s.parents) \subseteq DOMAIN output
    BY DEF Attempt, Claimable
  <2> QED BY <2>1, PayloadSound
<1>5. ASSUME NEW d \in drafts'
      PROVE  d.stage \in ToSet(rows) /\ Sound(run, output, d.stage, d.payload)
  <2>1. CASE d \in drafts
    BY <2>1 DEF FlowInv
  <2>2. CASE d = [stage |-> s, attempt |-> attempt, payload |-> Payload(s, attempt)]
    <3>1. d.stage = s /\ d.payload = Payload(s, attempt)
      BY <2>2
    <3> QED BY <1>4, <3>1
  <2> QED BY <1>3, <2>1, <2>2
<1> QED BY <1>1, <1>2, <1>5 DEF FlowInv

\* The artifact of a stage is written once.
LEMMA Recorded ==
  ASSUME NEW d, d.stage \notin DOMAIN output
  PROVE  LET more == With(output, d)
         IN  /\ DOMAIN more = DOMAIN output \cup {d.stage}
             /\ more[d.stage] = d.payload
             /\ Extends(output, more)
  BY DEF With, Extends

LEMMA CompleteKeepsFlowInv ==
  ASSUME FlowInv, NEW d \in drafts, Complete(d), UNCHANGED vars
  PROVE  FlowInv'
<1>1. PlanInv /\ PlanInv'
  BY PlanInvNext DEF FlowInv
<1>2. run' = run /\ rows' = rows /\ output' = With(output, d) /\ drafts' \subseteq drafts
  BY DEF vars, Complete
<1>3. /\ DOMAIN output' = DOMAIN output \cup {d.stage}
      /\ output'[d.stage] = d.payload
      /\ Extends(output, output')
  BY <1>2, Recorded DEF Complete
<1>4. ASSUME NEW s \in ToSet(rows), NEW p, Sound(run, output, s, p)
      PROVE  Sound(run, output', s, p)
  BY <1>1, <1>3, <1>4, RowsAreKnown, SoundStays
<1>5. ASSUME NEW s \in DOMAIN output' PROVE s \in ToSet(rows) /\ Sound(run, output', s, output'[s])
  <2>1. CASE s = d.stage
    BY <1>3, <1>4, <2>1 DEF FlowInv
  <2>2. CASE s \in DOMAIN output
    <3>1. output'[s] = output[s]
      BY <1>3, <2>2 DEF Extends
    <3> QED BY <1>4, <2>2, <3>1 DEF FlowInv
  <2> QED BY <1>3, <2>1, <2>2
<1>6. \A e \in drafts' : e.stage \in ToSet(rows) /\ Sound(run, output', e.stage, e.payload)
  BY <1>2, <1>4 DEF FlowInv
<1> QED BY <1>1, <1>2, <1>5, <1>6 DEF FlowInv

LEMMA FlowInvNext == FlowInv /\ [FlowNext]_<<vars, flowVars>> => FlowInv'
<1> SUFFICES ASSUME FlowInv, [FlowNext]_<<vars, flowVars>> PROVE FlowInv'
  OBVIOUS
<1>1. CASE [Next]_vars /\ UNCHANGED flowVars
  BY <1>1, SeedingKeepsFlowInv
<1>2. ASSUME NEW s \in ToSet(rows), Attempt(s), UNCHANGED vars PROVE FlowInv'
  BY <1>2, AttemptKeepsFlowInv
<1>3. ASSUME NEW s \in ToSet(rows), FailTerminally(s), UNCHANGED vars PROVE FlowInv'
  <2>1. PlanInv /\ PlanInv'
    BY <1>3, PlanInvNext DEF FlowInv
  <2> QED BY <1>3, <2>1 DEF FlowInv, FailTerminally, vars
<1>4. ASSUME NEW d \in drafts, Complete(d), UNCHANGED vars PROVE FlowInv'
  BY <1>4, CompleteKeepsFlowInv
<1> QED BY <1>1, <1>2, <1>3, <1>4 DEF FlowNext

LEMMA FlowInvariant == FlowSpec => []FlowInv
  BY FlowInvInit, FlowInvNext, PTL DEF FlowSpec

\* A turn has one stage, so what is found under its name is its own.
LEMMA RecordedTurnsFacts ==
  ASSUME FlowInv, NEW sample, Turns[sample.scenario] \in Nat, NEW n \in Nat,
         n <= Turns[sample.scenario], TurnsIn(run, output, sample, n)
  PROVE  RecordedTurns(sample, n) = TurnsSoFar(run, output, sample, n)
<1> DEFINE found(type, i) ==
             CHOOSE s \in Succeeded(type) : s.sample = sample /\ s.index = <<i>>
<1>1. ASSUME NEW s \in DOMAIN output PROVE IsPlanned(run, s)
  BY RowsAreKnown DEF FlowInv
<1>2. ASSUME NEW i \in 0..(n - 1)
      PROVE  /\ found("actor_turn", i) = Actor(run, sample, i)
             /\ found("theater_turn", i) = Theater(run, sample, i)
  <2> DEFINE a == Actor(run, sample, i)
             t == Theater(run, sample, i)
  <2>1. /\ a \in DOMAIN output /\ IsTurn(a, "actor_turn", sample, i)
        /\ t \in DOMAIN output /\ IsTurn(t, "theater_turn", sample, i)
    <3>1. i \in 0..(Turns[sample.scenario] - 1)
      OBVIOUS
    <3>2. a \in DOMAIN output /\ t \in DOMAIN output
      BY DEF TurnsIn
    <3> QED BY <3>1, <3>2, TurnStages
  <2>2. ASSUME NEW s \in DOMAIN output, s.sample = sample, s.index = <<i>>
        PROVE  /\ s.type = "actor_turn" => s = a
               /\ s.type = "theater_turn" => s = t
    <3>1. s.index[1] = i
      BY <2>2
    <3> QED BY <1>1, <2>2, <3>1, TurnIndex
  <2> HIDE DEF a, t
  <2>3. found("actor_turn", i) = a
    BY <2>1, <2>2 DEF IsTurn, Succeeded
  <2>4. found("theater_turn", i) = t
    BY <2>1, <2>2 DEF IsTurn, Succeeded
  <2> QED BY <2>3, <2>4 DEF a, t
<1>3. RecordedTurns(sample, n) =
         [i \in 1..n |-> [turn |-> i - 1, question |-> output[found("actor_turn", i - 1)].question,
                          answer |-> output[found("theater_turn", i - 1)].answer]]
  BY DEF RecordedTurns
<1> HIDE DEF found
<1>4. \A i \in 1..n :
         [turn |-> i - 1, question |-> output[found("actor_turn", i - 1)].question,
          answer |-> output[found("theater_turn", i - 1)].answer]
           = TurnOf(run, output, sample, i - 1)
  <2>1. \A i \in 1..n : i - 1 \in 0..(n - 1)
    OBVIOUS
  <2> QED BY <1>2, <2>1 DEF TurnOf
<1> QED BY <1>3, <1>4, Zenon DEF TurnsSoFar

\* In runs of any size, and whichever attempts come back, late or never:
\* actor, theater and graders are shown the conversation that is recorded.
THEOREM CallsSeeTheRecord == FlowSpec => []CallsSawTheRecord
<1>1. ASSUME FlowInv PROVE CallsSawTheRecord
  <2> USE <1>1
  <2>1. ASSUME NEW s \in DOMAIN output
        PROVE  IsPlanned(run, s) /\ Turns[s.sample.scenario] \in Nat
               /\ Sound(run, output, s, output[s])
    BY RowsAreKnown DEF FlowInv, IsPlanned
  <2>2. ASSUME NEW s \in Succeeded("actor_turn")
        PROVE  output[s].before = RecordedTurns(s.sample, s.index[1])
    <3>1. s \in DOMAIN output /\ s.type = "actor_turn"
      BY DEF Succeeded
    <3>2. s.index[1] \in Nat /\ s.index[1] <= Turns[s.sample.scenario]
      BY <2>1, <3>1, TurnIndex
    <3> QED BY <2>1, <3>1, <3>2, RecordedTurnsFacts DEF Sound, SoundActorTurn
  <2>3. ASSUME NEW s \in Succeeded("theater_turn")
        PROVE  /\ output[s].before = RecordedTurns(s.sample, s.index[1])
               /\ output[s].text = RecordedTurns(s.sample, s.index[1] + 1)
    <3> DEFINE m == s.sample
               i == s.index[1]
    <3>1. s \in DOMAIN output /\ s.type = "theater_turn"
      BY DEF Succeeded
    <3>2. /\ i \in 0..(Turns[m.scenario] - 1) /\ s = Theater(run, m, i)
          /\ i \in Nat /\ i <= Turns[m.scenario]
          /\ i + 1 \in Nat /\ i + 1 <= Turns[m.scenario]
      BY <2>1, <3>1, TurnIndex
    <3>3. output[s].before = RecordedTurns(m, i)
      <4>1. TurnsIn(run, output, m, i) /\ output[s].before = TurnsSoFar(run, output, m, i)
        BY <2>1, <3>1 DEF Sound, SoundTheaterTurn
      <4>2. Turns[m.scenario] \in Nat
        BY <2>1, <3>1
      <4> HIDE DEF m, i
      <4> QED BY <3>2, <4>1, <4>2, RecordedTurnsFacts
    <3>4. /\ TurnsIn(run, output, m, i + 1)
          /\ output[s].text = TurnsSoFar(run, output, m, i + 1)
      <4>1. Turns[m.scenario] \in Nat /\ Sound(run, output, s, output[s])
        BY <2>1, <3>1
      <4>2. /\ Theater(run, m, i) \in DOMAIN output
            /\ Sound(run, output, Theater(run, m, i), output[Theater(run, m, i)])
        BY <3>1, <3>2, <4>1, Zenon
      <4>3. /\ TurnsIn(run, output, m, i + 1)
            /\ output[Theater(run, m, i)].text = TurnsSoFar(run, output, m, i + 1)
        BY <3>2, <4>1, <4>2, HandedOn
      <4> QED BY <3>2, <4>3, Zenon
    <3>5. output[s].text = RecordedTurns(m, i + 1)
      BY <2>1, <3>1, <3>2, <3>4, RecordedTurnsFacts
    <3> QED BY <3>3, <3>5
  <2>4. ASSUME NEW m, Turns[m.scenario] \in Nat, NEW text, Whole(run, output, m, text)
        PROVE  text = RecordedTurns(m, Turns[m.scenario])
    BY <2>4, RecordedTurnsFacts DEF Whole
  <2>5. ASSUME NEW s \in Succeeded("conversation_transcript")
        PROVE  output[s].text = RecordedTurns(s.sample, Turns[s.sample.scenario])
    BY <2>1, <2>4 DEF Succeeded, Sound
  <2>6. ASSUME NEW s \in Succeeded("grader_eval")
        PROVE  output[s].conversation = RecordedTurns(s.sample, Turns[s.sample.scenario])
    BY <2>1, <2>4 DEF Succeeded, Sound
  <2> QED BY <2>2, <2>3, <2>5, <2>6 DEF CallsSawTheRecord
<1> QED BY <1>1, FlowInvariant, PTL

-----------------------------------------------------------------------------
(* Counting in lists.                                                      *)

Places(list, X) == {i \in 1..Len(list) : list[i] \in X}

CountIn(list, X) == Cardinality(Places(list, X))

LEMMA CountIsNatural ==
  ASSUME NEW list, IsList(list), NEW X
  PROVE  /\ IsFiniteSet(Places(list, X)) /\ CountIn(list, X) \in Nat
         /\ CountIn(list, X) <= Len(list)
<1>1. Len(list) \in Nat
  BY ListFacts
<1>2. IsFiniteSet(1..Len(list)) /\ Cardinality(1..Len(list)) = Len(list)
  <2> DEFINE n == Len(list)
  <2>1. n \in Int /\ 1 \in Int
    BY <1>1
  <2> HIDE DEF n
  <2>2. IsFiniteSet(1..n) /\ Cardinality(1..n) = IF 1 > n THEN 0 ELSE n - 1 + 1
    BY <2>1, FS_Interval
  <2> QED BY <1>1, <2>2 DEF n
<1>3. Places(list, X) \in SUBSET (1..Len(list))
  BY DEF Places
<1>4. IsFiniteSet(Places(list, X)) /\ Cardinality(Places(list, X)) <= Len(list)
  BY <1>2, <1>3, FS_Subset
<1> QED BY <1>4, FS_CardinalityType DEF CountIn

LEMMA CountAll ==
  ASSUME NEW list, IsList(list), NEW X, ToSet(list) \subseteq X
  PROVE  CountIn(list, X) = Len(list)
<1>1. Len(list) \in Nat /\ \A i \in 1..Len(list) : list[i] \in X
  BY ListFacts
<1>2. Places(list, X) = 1..Len(list)
  BY <1>1 DEF Places
<1> DEFINE n == Len(list)
<1>3. n \in Int /\ 1 \in Int
  BY <1>1
<1> HIDE DEF n
<1>4. Cardinality(1..n) = IF 1 > n THEN 0 ELSE n - 1 + 1
  BY <1>3, FS_Interval
<1> QED BY <1>1, <1>2, <1>4 DEF CountIn, n

LEMMA CountOfNothing == \A X : CountIn(<< >>, X) = 0
<1>1. \A X : Places(<< >>, X) = {}
  BY Nothing DEF Places
<1> QED BY <1>1, FS_EmptySet DEF CountIn

LEMMA CountOfOne == \A x, X : CountIn(<<x>>, X) = IF x \in X THEN 1 ELSE 0
<1> SUFFICES ASSUME NEW x, NEW X PROVE CountIn(<<x>>, X) = IF x \in X THEN 1 ELSE 0
  OBVIOUS
<1>1. Places(<<x>>, X) = IF x \in X THEN {1} ELSE {}
  BY Singleton DEF Places
<1>2. Cardinality({1}) = 1 /\ Cardinality({}) = 0
  BY FS_Singleton, FS_EmptySet
<1> QED BY <1>1, <1>2 DEF CountIn

LEMMA CountJoined ==
  ASSUME NEW s, NEW t, IsList(s), IsList(t), NEW X
  PROVE  CountIn(s \o t, X) = CountIn(s, X) + CountIn(t, X)
<1> DEFINE u == s \o t
           n == Len(s)
           A == Places(s, X)
           B == Places(t, X)
           C == {n + i : i \in B}
           f == [i \in B |-> n + i]
<1>1. /\ n \in Nat /\ Len(t) \in Nat /\ Len(u) = n + Len(t)
      /\ \A i \in 1..n : u[i] = s[i]
      /\ \A i \in 1..Len(t) : u[n + i] = t[i]
      /\ \A i \in (n + 1)..Len(u) : i - n \in 1..Len(t) /\ u[i] = t[i - n]
  BY Concatenated, ListFacts
<1>2. A \subseteq 1..n /\ B \subseteq 1..Len(t)
  BY DEF Places
<1>3. Places(u, X) = A \cup C
  <2> HIDE DEF u
  <2>1. \A i \in 1..Len(u) : i \in 1..n \/ i \in (n + 1)..Len(u)
    BY <1>1
  <2>2. ASSUME NEW i \in 1..Len(u), u[i] \in X PROVE i \in A \cup C
    <3>1. CASE i \in 1..n
      BY <1>1, <2>2, <3>1 DEF Places
    <3>2. CASE i \in (n + 1)..Len(u)
      <4>1. i - n \in B /\ n + (i - n) = i
        BY <1>1, <2>2, <3>2 DEF Places
      <4> QED BY <4>1
    <3> QED BY <2>1, <3>1, <3>2
  <2>3. ASSUME NEW i \in A PROVE i \in 1..Len(u) /\ u[i] \in X
    BY <1>1 DEF Places
  <2>4. ASSUME NEW i \in B PROVE n + i \in 1..Len(u) /\ u[n + i] \in X
    BY <1>1 DEF Places
  <2> HIDE DEF A, B
  <2>5. \A i \in A \cup C : i \in 1..Len(u) /\ u[i] \in X
    BY <2>3, <2>4
  <2> QED BY <2>2, <2>5 DEF Places
<1>4. A \cap C = {}
  <2>1. \A i \in B : n + i > n
    BY <1>1, <1>2
  <2>2. \A i \in A : ~(i > n)
    BY <1>1, <1>2
  <2> HIDE DEF A, B
  <2> QED BY <2>1, <2>2
<1>5. IsFiniteSet(A) /\ IsFiniteSet(B)
  BY CountIsNatural
<1>6. IsFiniteSet(C) /\ Cardinality(C) = Cardinality(B)
  <2>1. \A i \in B : i \in Int
    BY <1>1, <1>2
  <2> HIDE DEF B
  <2>2. f \in Bijection(B, C)
    BY <1>1, <2>1 DEF Bijection, Injection, Surjection, IsInjective
  <2>3. ExistsBijection(B, C)
    BY <2>2 DEF ExistsBijection
  <2> HIDE DEF C
  <2> QED BY <1>5, <2>3, FS_Bijection
<1> HIDE DEF A, B, C, u
<1>7. Cardinality(A \cup C) = Cardinality(A) + Cardinality(C)
  BY <1>4, <1>5, <1>6, DisjointUnion
<1> QED BY <1>3, <1>6, <1>7 DEF CountIn, A, B, u

\* What the passes of a loop yield adds up.
LEMMA CountInLoop ==
  ASSUME NEW n \in Nat, NEW f, f = [i \in 1..n |-> f[i]], \A i \in 1..n : IsList(f[i]),
         NEW X, NEW c, c[0] = 0, \A k \in 1..n : c[k] = c[k - 1] + CountIn(f[k], X)
  PROVE  CountIn(FlattenSeq(f), X) = c[n]
<1>1. IsList(f) /\ Len(f) = n
  BY Tabulated
<1>2. CASE n = 0
  <2>1. f = << >>
    BY <1>1, <1>2, ListFacts
  <2>2. FlattenSeq(f) = << >>
    BY <1>1, <1>2, <2>1 DEF FlattenSeq
  <2> QED BY <1>2, <2>2, CountOfNothing
<1>3. CASE n # 0
  <2>1. f # << >> /\ n >= 1
    BY <1>1, <1>3, ListFacts
  <2>2. PICK flat : /\ FlattenSeq(f) = flat[n]
                    /\ flat[1] = f[1]
                    /\ \A i \in 2..n : flat[i] = flat[i - 1] \o f[i]
    <3>1. \E flat : /\ FlattenSeq(f) = flat[Len(f)]
                    /\ flat[1] = f[1]
                    /\ \A i \in 2..Len(f) : flat[i] = flat[i - 1] \o f[i]
      BY <1>1, <2>1, FlattenSteps, Zenon
    <3> QED BY <1>1, <3>1, Zenon
  <2> DEFINE S == {k \in Nat : k < n => /\ IsList(flat[k + 1])
                                        /\ CountIn(flat[k + 1], X) = c[k + 1]}
  <2>3. 0 \in S
    <3>1. 1 \in 1..n /\ 1 - 1 = 0
      BY <2>1
    <3>2. c[1] = 0 + CountIn(f[1], X) /\ CountIn(f[1], X) \in Nat
      BY <3>1, CountIsNatural
    <3> QED BY <2>2, <3>1, <3>2
  <2>4. ASSUME NEW k \in Nat, k \in S PROVE k + 1 \in S
    <3> SUFFICES ASSUME k + 1 < n
                 PROVE  IsList(flat[k + 2]) /\ CountIn(flat[k + 2], X) = c[k + 2]
      OBVIOUS
    <3>1. k + 2 \in 2..n /\ k + 2 \in 1..n /\ (k + 2) - 1 = k + 1 /\ k < n
      OBVIOUS
    <3> DEFINE s == flat[k + 1]
               t == f[k + 2]
    <3>2. IsList(s) /\ CountIn(s, X) = c[k + 1] /\ IsList(t)
      BY <2>4, <3>1
    <3>3. flat[k + 2] = Joined(s, t)
      BY <2>2, <3>1 DEF Joined
    <3>4. c[k + 2] = c[k + 1] + CountIn(t, X)
      BY <3>1
    <3> HIDE DEF s, t
    <3>5. IsList(Joined(s, t))
      BY <3>2, Concatenated, Zenon DEF Joined
    <3>6. CountIn(Joined(s, t), X) = CountIn(s, X) + CountIn(t, X)
      BY <3>2, CountJoined DEF Joined
    <3> QED BY <3>2, <3>3, <3>4, <3>5, <3>6
  <2> HIDE DEF S
  <2>5. n - 1 \in S
    BY <2>1, <2>3, <2>4, Induction
  <2> QED BY <2>1, <2>2, <2>5 DEF S
<1> QED BY <1>2, <1>3

\* The places among the first k, as a function to add up.
Counts(c, n, list, X) ==
    /\ c[0] = 0
    /\ \A k \in 1..n : c[k] = c[k - 1] + (IF list[k] \in X THEN 1 ELSE 0)
    /\ \A k \in 0..n : c[k] \in Nat
    /\ c[n] = Cardinality({i \in 1..n : list[i] \in X})

LEMMA CountUpTo ==
  ASSUME NEW n \in Nat, NEW list, NEW X
  PROVE  \E c : Counts(c, n, list, X)
<1> DEFINE P(k) == {i \in 1..k : list[i] \in X}
           c == [k \in 0..n |-> Cardinality(P(k))]
<1>1. \A k \in 0..n : IsFiniteSet(P(k)) /\ Cardinality(P(k)) \in Nat
  <2> SUFFICES ASSUME NEW k \in 0..n PROVE IsFiniteSet(P(k)) /\ Cardinality(P(k)) \in Nat
    OBVIOUS
  <2>1. IsFiniteSet(1..k)
    BY FS_Interval
  <2>2. P(k) \in SUBSET (1..k)
    OBVIOUS
  <2> HIDE DEF P
  <2> QED BY <2>1, <2>2, FS_Subset, FS_CardinalityType
<1>2. P(0) = {}
  OBVIOUS
<1>3. ASSUME NEW k \in 1..n
      PROVE  /\ P(k) = IF list[k] \in X THEN P(k - 1) \cup {k} ELSE P(k - 1)
             /\ k \notin P(k - 1)
  OBVIOUS
<1> HIDE DEF P
<1>4. 0 \in 0..n /\ \A k \in 1..n : k \in 0..n /\ k - 1 \in 0..n
  OBVIOUS
<1>5. c[0] = 0
  BY <1>2, <1>4, FS_EmptySet
<1>6. ASSUME NEW k \in 1..n PROVE c[k] = c[k - 1] + (IF list[k] \in X THEN 1 ELSE 0)
  <2>1. c[k] = Cardinality(P(k)) /\ c[k - 1] = Cardinality(P(k - 1))
    BY <1>4
  <2>2. IsFiniteSet(P(k - 1)) /\ Cardinality(P(k - 1)) \in Nat
    BY <1>1, <1>4
  <2>3. CASE list[k] \in X
    BY <1>3, <2>1, <2>2, <2>3, OneMore
  <2>4. CASE list[k] \notin X
    BY <1>3, <2>1, <2>2, <2>4
  <2> QED BY <2>3, <2>4
<1>7. \A k \in 0..n : c[k] \in Nat
  BY <1>1
<1>8. c[n] = Cardinality({i \in 1..n : list[i] \in X})
  BY DEF P
<1> HIDE DEF c
<1> QED BY <1>5, <1>6, <1>7, <1>8 DEF Counts

LEMMA OnlyFacts ==
  ASSUME NEW list, IsList(list), NEW X
  PROVE  /\ IsList(Only(list, X))
         /\ ToSet(Only(list, X)) = ToSet(list) \cap X
<1> DEFINE n == Len(list)
           f == [i \in 1..n |-> IF list[i] \in X THEN <<list[i]>> ELSE << >>]
<1>1. Only(list, X) = FlattenSeq(f)
  BY DEF Only, ForEach
<1>2. n \in Nat /\ ToSet(list) = {list[i] : i \in 1..n}
  BY ListFacts
<1>3. /\ f = [i \in 1..n |-> f[i]]
      /\ \A i \in 1..n : /\ IsList(f[i])
                         /\ ToSet(f[i]) = IF list[i] \in X THEN {list[i]} ELSE {}
  BY Singleton, Nothing
<1> HIDE DEF f, n
<1>4. /\ IsList(FlattenSeq(f))
      /\ \A x : x \in ToSet(FlattenSeq(f)) <=> \E i \in 1..n : x \in ToSet(f[i])
  BY <1>2, <1>3, LoopMembers
<1>5. \A x : x \in ToSet(FlattenSeq(f)) <=> x \in ToSet(list) /\ x \in X
  BY <1>2, <1>3, <1>4
<1> QED BY <1>1, <1>4, <1>5

LEMMA CountInOnly ==
  ASSUME NEW list, IsList(list), NEW X, NEW Y
  PROVE  CountIn(Only(list, X), Y) = CountIn(list, X \cap Y)
<1> DEFINE n == Len(list)
           Z == X \cap Y
           f == [i \in 1..n |-> IF list[i] \in X THEN <<list[i]>> ELSE << >>]
<1>1. Only(list, X) = FlattenSeq(f)
  BY DEF Only, ForEach
<1>2. n \in Nat
  BY ListFacts
<1>3. /\ f = [i \in 1..n |-> f[i]]
      /\ \A i \in 1..n : /\ IsList(f[i])
                         /\ CountIn(f[i], Y) = IF list[i] \in Z THEN 1 ELSE 0
  BY Singleton, Nothing, CountOfNothing, CountOfOne
<1> HIDE DEF f, n, Z
<1>4. PICK c : Counts(c, n, list, Z)
  BY <1>2, CountUpTo, Zenon
<1>5. c[n] = CountIn(list, Z)
  <2>1. Places(list, Z) = {i \in 1..n : list[i] \in Z}
    BY DEF Places, n
  <2> QED BY <1>4, <2>1 DEF CountIn, Counts
<1>6. c[0] = 0 /\ \A k \in 1..n : c[k] = c[k - 1] + CountIn(f[k], Y)
  BY <1>3, <1>4 DEF Counts
<1>7. CountIn(FlattenSeq(f), Y) = c[n]
  BY <1>2, <1>3, <1>6, CountInLoop
<1> QED BY <1>1, <1>5, <1>7 DEF Z

\* Each key is there once.
LEMMA DictKeysDistinct ==
  ASSUME NEW list, IsList(list)
  PROVE  LET keys == DictKeys(list)
         IN  \A i, j \in 1..Len(keys) : keys[i] = keys[j] => i = j
<1> DEFINE L == Len(list)
           Distinct(s) == \A i, j \in 1..Len(s) : s[i] = s[j] => i = j
<1>1. L \in Nat
  BY ListFacts
<1>2. PICK keys : /\ DictKeys(list) = keys[L]
                  /\ keys[0] = << >>
                  /\ \A n \in 1..L : keys[n] = WithKey(keys[n - 1], list[n])
  BY DictKeysSteps
<1> HIDE DEF L
<1>3. ASSUME NEW s, NEW x, IsList(s), Distinct(s)
      PROVE  IsList(WithKey(s, x)) /\ Distinct(WithKey(s, x))
  <2>1. CASE x \in ToSet(s)
    BY <1>3, <2>1 DEF WithKey
  <2>2. CASE x \notin ToSet(s)
    <3> DEFINE t == Append(s, x)
    <3>1. /\ IsList(t) /\ Len(t) = Len(s) + 1 /\ t[Len(s) + 1] = x
          /\ \A i \in 1..Len(s) : t[i] = s[i]
      BY <1>3, Appended
    <3>2. Len(s) \in Nat /\ \A i \in 1..Len(s) : s[i] # x
      BY <1>3, <2>2, ListFacts
    <3>3. \A i : i \in 1..(Len(s) + 1) <=> i \in 1..Len(s) \/ i = Len(s) + 1
      BY <3>2
    <3>4. WithKey(s, x) = t
      BY <2>2 DEF WithKey
    <3> HIDE DEF t
    <3>5. Distinct(t)
      BY <1>3, <3>1, <3>2, <3>3
    <3> QED BY <3>1, <3>4, <3>5
  <2> QED BY <2>1, <2>2
<1> HIDE DEF Distinct
<1> DEFINE S == {k \in Nat : k <= L => IsList(keys[k]) /\ Distinct(keys[k])}
<1>4. 0 \in S
  BY <1>2, Nothing DEF Distinct
<1>5. ASSUME NEW k \in Nat, k \in S PROVE k + 1 \in S
  <2> SUFFICES ASSUME k + 1 <= L PROVE IsList(keys[k + 1]) /\ Distinct(keys[k + 1])
    OBVIOUS
  <2>1. k + 1 \in 1..L /\ (k + 1) - 1 = k /\ k <= L
    BY <1>1
  <2> QED BY <1>2, <1>3, <1>5, <2>1
<1> HIDE DEF S
<1>6. L \in S
  BY <1>1, <1>4, <1>5, Induction
<1> QED BY <1>1, <1>2, <1>6 DEF S, Distinct

LEMMA CountOfKey ==
  ASSUME NEW list, IsList(list), NEW x
  PROVE  CountIn(DictKeys(list), {x}) = IF x \in ToSet(list) THEN 1 ELSE 0
<1> DEFINE keys == DictKeys(list)
<1>1. /\ IsList(keys) /\ ToSet(keys) = ToSet(list)
      /\ \A i, j \in 1..Len(keys) : keys[i] = keys[j] => i = j
  BY DictKeysList, DictKeysMembers, DictKeysDistinct
<1> HIDE DEF keys
<1>2. CASE x \in ToSet(list)
  <2>1. PICK i \in 1..Len(keys) : keys[i] = x
    BY <1>1, <1>2, ListFacts
  <2>2. Places(keys, {x}) = {i}
    BY <1>1, <2>1 DEF Places
  <2> QED BY <1>2, <2>2, FS_Singleton DEF CountIn, keys
<1>3. CASE x \notin ToSet(list)
  <2>1. Places(keys, {x}) = {}
    BY <1>1, <1>3, ListFacts DEF Places
  <2> QED BY <1>3, <2>1, FS_EmptySet DEF CountIn, keys
<1> QED BY <1>2, <1>3

-----------------------------------------------------------------------------
(* Sums.                                                                   *)

LEMMA TotalSteps ==
  ASSUME NEW list, Len(list) \in Nat
  PROVE  \E sum : /\ Total(list) = sum[Len(list)]
                  /\ sum[0] = 0
                  /\ \A k \in 1..Len(list) : sum[k] = sum[k - 1] + list[k]
<1> DEFINE L == Len(list)
           F(g, k) == [n \in 0..k |-> IF n = 0 THEN 0 ELSE g[n - 1] + list[n]]
           S == {k \in Nat : \E g : g = F(g, k)}
           sum == CHOOSE g : g = F(g, L)
<1>1. 0 \in S
  <2> DEFINE g == [n \in 0..0 |-> 0]
  <2>1. g = F(g, 0)
    OBVIOUS
  <2> HIDE DEF g
  <2> QED BY <2>1
<1>2. ASSUME NEW k \in Nat, k \in S PROVE k + 1 \in S
  <2>1. PICK g : g = F(g, k)
    BY <1>2
  <2> DEFINE h == [n \in 0..(k + 1) |-> IF n <= k THEN g[n] ELSE g[n - 1] + list[n]]
  <2>2. \A n \in 0..(k + 1) : h[n] = IF n = 0 THEN 0 ELSE h[n - 1] + list[n]
    <3> SUFFICES ASSUME NEW n \in 0..(k + 1)
                 PROVE  h[n] = IF n = 0 THEN 0 ELSE h[n - 1] + list[n]
      OBVIOUS
    <3>1. CASE n <= k
      BY <2>1, <3>1
    <3>2. CASE n = k + 1
      BY <3>2
    <3> QED BY <3>1, <3>2
  <2>3. h = [n \in 0..(k + 1) |-> h[n]]
    OBVIOUS
  <2> HIDE DEF h
  <2>4. h = F(h, k + 1)
    BY <2>2, <2>3
  <2>5. k + 1 \in Nat
    OBVIOUS
  <2> HIDE DEF F
  <2> QED BY <2>4, <2>5
<1> HIDE DEF S
<1>3. L \in S
  BY <1>1, <1>2, Induction
<1>4. Total(list) = sum[L]
  BY DEF Total
<1> HIDE DEF sum
<1>5. sum = F(sum, L)
  <2>1. \E g : g = F(g, L)
    BY <1>3 DEF S
  <2> HIDE DEF F
  <2> QED BY <2>1 DEF sum
<1>6. sum[0] = 0 /\ \A k \in 1..L : sum[k] = sum[k - 1] + list[k]
  BY <1>5
<1> QED BY <1>4, <1>6

\* What is never more than bound adds up to no more than bound for each.
LEMMA TotalBound ==
  ASSUME NEW list, IsList(list), NEW bound \in Nat,
         \A i \in 1..Len(list) : list[i] \in 0..bound
  PROVE  Total(list) \in 0..(bound * Len(list))
<1> DEFINE n == Len(list)
<1>1. n \in Nat
  BY ListFacts
<1>2. PICK sum : /\ Total(list) = sum[n]
                 /\ sum[0] = 0
                 /\ \A k \in 1..n : sum[k] = sum[k - 1] + list[k]
  BY <1>1, TotalSteps
<1> HIDE DEF n
<1> DEFINE S == {k \in Nat : k <= n => sum[k] \in Nat /\ sum[k] <= bound * k}
<1>3. 0 \in S
  BY <1>2
<1>4. ASSUME NEW k \in Nat, k \in S PROVE k + 1 \in S
  <2> SUFFICES ASSUME k + 1 <= n PROVE sum[k + 1] \in Nat /\ sum[k + 1] <= bound * (k + 1)
    OBVIOUS
  <2>1. k + 1 \in 1..n /\ (k + 1) - 1 = k /\ k <= n
    BY <1>1
  <2>2. sum[k + 1] = sum[k] + list[k + 1] /\ list[k + 1] \in 0..bound
    BY <1>2, <2>1 DEF n
  <2>3. bound * (k + 1) = bound * k + bound
    OBVIOUS
  <2>4. sum[k] \in Nat /\ sum[k] <= bound * k
    BY <1>4, <2>1
  <2>5. bound * k \in Int
    OBVIOUS
  <2> DEFINE b == bound * k
  <2> HIDE DEF b
  <2> QED BY <2>2, <2>3, <2>4, <2>5 DEF b
<1> HIDE DEF S
<1>5. n \in S
  BY <1>1, <1>3, <1>4, Induction
<1>6. sum[n] \in Nat /\ sum[n] <= bound * n
  BY <1>1, <1>5 DEF S
<1>7. bound * n \in Int
  BY <1>1
<1> QED BY <1>2, <1>6, <1>7 DEF n

\* Halves add up to two for each judgment that says "extracted" and one for
\* each that says "partial".
LEMMA TotalHalves ==
  ASSUME NEW of, IsList(of), NEW E, NEW P,
         E = {i \in 1..Len(of) : of[i].status = "extracted"},
         P = {i \in 1..Len(of) : of[i].status = "partial"}
  PROVE  Total([i \in DOMAIN of |-> Halves(of[i].status)])
            = 2 * Cardinality(E) + Cardinality(P)
<1> DEFINE n == Len(of)
           list == [i \in DOMAIN of |-> Halves(of[i].status)]
           status == [i \in 1..n |-> of[i].status]
<1>1. n \in Nat /\ DOMAIN of = 1..n
  BY ListFacts
<1>2. list = [i \in 1..n |-> list[i]] /\ \A i \in 1..n : list[i] = Halves(status[i])
  BY <1>1
<1>3. E = {i \in 1..n : status[i] \in {"extracted"}} /\ P = {i \in 1..n : status[i] \in {"partial"}}
  OBVIOUS
<1> HIDE DEF n, status, list
<1>4. Len(list) = n
  BY <1>1, <1>2, Tabulated
<1>5. PICK sum : /\ Total(list) = sum[n]
                 /\ sum[0] = 0
                 /\ \A k \in 1..n : sum[k] = sum[k - 1] + list[k]
  <2>1. Len(list) \in Nat
    BY <1>1, <1>4
  <2> QED BY <1>4, <2>1, TotalSteps
<1>6. PICK e : Counts(e, n, status, {"extracted"})
  BY <1>1, CountUpTo, Zenon
<1>7. PICK p : Counts(p, n, status, {"partial"})
  BY <1>1, CountUpTo, Zenon
<1> DEFINE S == {k \in Nat : k <= n => sum[k] = 2 * e[k] + p[k]}
<1>8. 0 \in S
  BY <1>5, <1>6, <1>7 DEF Counts
<1>9. ASSUME NEW k \in Nat, k \in S PROVE k + 1 \in S
  <2> SUFFICES ASSUME k + 1 <= n PROVE sum[k + 1] = 2 * e[k + 1] + p[k + 1]
    OBVIOUS
  <2>1. k + 1 \in 1..n /\ (k + 1) - 1 = k /\ k <= n /\ k \in 0..n
    BY <1>1
  <2>2. sum[k] = 2 * e[k] + p[k] /\ e[k] \in Nat /\ p[k] \in Nat
    BY <1>6, <1>7, <1>9, <2>1 DEF Counts
  <2>3. Halves("extracted") = 2 /\ Halves("partial") = 1
        /\ \A x : x # "extracted" /\ x # "partial" => Halves(x) = 0
    BY DEF Halves
  <2>4. sum[k + 1] = sum[k] + Halves(status[k + 1])
    BY <1>2, <1>5, <2>1
  <2>5. e[k + 1] = e[k] + (IF status[k + 1] = "extracted" THEN 1 ELSE 0)
    BY <1>6, <2>1 DEF Counts
  <2>6. p[k + 1] = p[k] + (IF status[k + 1] = "partial" THEN 1 ELSE 0)
    BY <1>7, <2>1 DEF Counts
  <2>7. CASE status[k + 1] = "extracted"
    BY <2>2, <2>3, <2>4, <2>5, <2>6, <2>7
  <2>8. CASE status[k + 1] = "partial"
    BY <2>2, <2>3, <2>4, <2>5, <2>6, <2>8
  <2>9. CASE status[k + 1] # "extracted" /\ status[k + 1] # "partial"
    BY <2>2, <2>3, <2>4, <2>5, <2>6, <2>9
  <2> QED BY <2>7, <2>8, <2>9
<1> HIDE DEF S
<1>10. n \in S
  BY <1>1, <1>8, <1>9, Induction
<1>11. Total(list) = 2 * Cardinality(E) + Cardinality(P)
  <2>1. sum[n] = 2 * e[n] + p[n]
    BY <1>1, <1>10 DEF S
  <2>2. e[n] = Cardinality(E) /\ p[n] = Cardinality(P)
    BY <1>3, <1>6, <1>7, Zenon DEF Counts
  <2> QED BY <1>5, <2>1, <2>2
<1> QED BY <1>11 DEF list

-----------------------------------------------------------------------------
(* What is recorded of one answer.                                         *)

IsPoints(points) == IsList(points) /\ \A i \in 1..Len(points) : points[i].id \in Int

IsAnswer(answer) ==
    /\ IsPoints(answer.points)
    /\ \/ answer.rating.form \in {"none", "nan"}
       \/ answer.rating.form = "number" /\ answer.rating.value \in Int

LEMMA JudgedPointsFacts == \A answer : IsAnswer(answer) => IsPoints(JudgedPoints(answer))
<1>1. IsPoints(<< >>)
  BY Nothing DEF IsPoints
<1> QED BY <1>1 DEF IsAnswer, JudgedPoints

LEMMA IdsFacts ==
  ASSUME NEW list, IsList(list)
  PROVE  /\ IsList(Ids(list)) /\ Len(Ids(list)) = Len(list)
         /\ \A i \in 1..Len(list) : Ids(list)[i] = list[i].id
         /\ ToSet(Ids(list)) = {list[i].id : i \in 1..Len(list)}
<1> DEFINE n == Len(list)
           ids == Ids(list)
<1>1. n \in Nat /\ DOMAIN list = 1..n
  BY ListFacts
<1>2. ids = [i \in 1..n |-> ids[i]] /\ \A i \in 1..n : ids[i] = list[i].id
  BY <1>1 DEF Ids
<1> HIDE DEF n, ids
<1>3. IsList(ids) /\ Len(ids) = n
  BY <1>1, <1>2, Tabulated
<1>4. ToSet(ids) = {ids[i] : i \in 1..n}
  BY <1>3, ListFacts
<1> QED BY <1>2, <1>3, <1>4 DEF n, ids

\* The judgments of a record: of the configured points, and of the others.
Configured(points, answer) ==
    [i \in DOMAIN points |-> IF Judged(points, answer, i)
                             THEN Judgment(points, answer, points[i].id)
                             ELSE Unjudged(points[i])]

Others(points, answer) ==
    LET judged == DictKeys(Ids(JudgedPoints(answer)))
    IN  Only(judged, ToSet(judged) \ ToSet(Ids(points)))

Extra(points, answer) ==
    [i \in DOMAIN Others(points, answer) |-> Judgment(points, answer, Others(points, answer)[i])]

Record(points, answer) == AssessmentRecord(points, answer).points

LEMMA RecordParts ==
  \A points, answer : Record(points, answer) = Configured(points, answer) \o Extra(points, answer)
  BY DEF Record, AssessmentRecord, Configured, Others, Extra

LEMMA JudgmentFacts ==
  \A points, answer, id :
     /\ Judgment(points, answer, id).id = id
     /\ Judgment(points, answer, id).status = Status(Under(id, JudgedPoints(answer)).status)
  BY DEF Judgment

LEMMA ConfiguredFacts ==
  ASSUME NEW points, IsList(points), NEW answer
  PROVE  LET list == Configured(points, answer)
         IN  /\ IsList(list) /\ Len(list) = Len(points)
             /\ \A i \in 1..Len(points) :
                   /\ list[i].id = points[i].id
                   /\ list[i].status =
                         IF Judged(points, answer, i)
                         THEN Status(Under(points[i].id, JudgedPoints(answer)).status)
                         ELSE "missing"
<1> DEFINE n == Len(points)
           list == Configured(points, answer)
<1>1. n \in Nat /\ DOMAIN points = 1..n
  BY ListFacts
<1>2. /\ list = [i \in 1..n |-> list[i]]
      /\ \A i \in 1..n : list[i] = IF Judged(points, answer, i)
                                   THEN Judgment(points, answer, points[i].id)
                                   ELSE Unjudged(points[i])
  BY <1>1 DEF Configured
<1> HIDE DEF n, list
<1>3. IsList(list) /\ Len(list) = n
  BY <1>1, <1>2, Tabulated
<1>4. ASSUME NEW i \in 1..n
      PROVE  /\ list[i].id = points[i].id
             /\ list[i].status =
                   IF Judged(points, answer, i)
                   THEN Status(Under(points[i].id, JudgedPoints(answer)).status)
                   ELSE "missing"
  <2>1. /\ Unjudged(points[i]).id = points[i].id
        /\ Unjudged(points[i]).status = "missing"
    BY DEF Unjudged
  <2> QED BY <1>2, <2>1, JudgmentFacts
<1> QED BY <1>3, <1>4 DEF n, list

LEMMA ExtraFacts ==
  ASSUME NEW points, IsList(points), NEW answer, IsList(JudgedPoints(answer))
  PROVE  LET list == Extra(points, answer)
             ids == Others(points, answer)
         IN  /\ IsList(list) /\ Len(list) = Len(ids) /\ IsList(ids)
             /\ ToSet(ids) = ToSet(Ids(JudgedPoints(answer))) \ ToSet(Ids(points))
             /\ \A i \in 1..Len(ids) :
                   /\ list[i].id = ids[i]
                   /\ list[i].status = Status(Under(ids[i], JudgedPoints(answer)).status)
<1> DEFINE list == Extra(points, answer)
           ids == Others(points, answer)
           n == Len(ids)
           judged == DictKeys(Ids(JudgedPoints(answer)))
           X == ToSet(judged) \ ToSet(Ids(points))
<1>1. IsList(judged) /\ ToSet(judged) = ToSet(Ids(JudgedPoints(answer)))
  BY IdsFacts, DictKeysList, DictKeysMembers
<1>2. ids = Only(judged, X)
  BY DEF Others
<1>3. IsList(ids) /\ ToSet(ids) = ToSet(judged) \cap X
  <2> HIDE DEF judged, X, ids
  <2> QED BY <1>1, <1>2, OnlyFacts
<1>4. ToSet(ids) = ToSet(Ids(JudgedPoints(answer))) \ ToSet(Ids(points))
  BY <1>1, <1>3
<1>5. n \in Nat /\ DOMAIN ids = 1..n
  BY <1>3, ListFacts
<1>6. /\ list = [i \in 1..n |-> list[i]]
      /\ \A i \in 1..n : list[i] = Judgment(points, answer, ids[i])
  BY <1>5 DEF Extra
<1> HIDE DEF list, ids, n
<1>7. IsList(list) /\ Len(list) = n
  BY <1>5, <1>6, Tabulated
<1> QED BY <1>3, <1>4, <1>6, <1>7, JudgmentFacts DEF list, ids, n

\* The points of a record: those configured and those judged.
LEMMA RecordIds ==
  ASSUME NEW points, IsList(points), NEW answer, IsList(JudgedPoints(answer))
  PROVE  /\ IsList(Record(points, answer))
         /\ {j.id : j \in ToSet(Record(points, answer))}
               = ToSet(Ids(points)) \cup ToSet(Ids(JudgedPoints(answer)))
         /\ \A j \in ToSet(Record(points, answer)) : j.status \in Statuses
<1> DEFINE c == Configured(points, answer)
           x == Extra(points, answer)
           ids == Others(points, answer)
<1>1. IsList(c) /\ IsList(x) /\ IsList(ids) /\ Len(c) = Len(points) /\ Len(x) = Len(ids)
  BY ConfiguredFacts, ExtraFacts
<1>2. IsList(c \o x) /\ ToSet(c \o x) = ToSet(c) \cup ToSet(x)
  BY <1>1, Concatenated
<1>3. /\ ToSet(c) = {c[i] : i \in 1..Len(c)} /\ ToSet(x) = {x[i] : i \in 1..Len(x)}
      /\ ToSet(ids) = {ids[i] : i \in 1..Len(ids)}
  BY <1>1, ListFacts
<1>4. ToSet(Ids(points)) = {points[i].id : i \in 1..Len(points)}
  BY IdsFacts
<1>5. {j.id : j \in ToSet(c)} = ToSet(Ids(points))
  <2>1. \A i \in 1..Len(points) : c[i].id = points[i].id
    BY ConfiguredFacts
  <2> HIDE DEF c
  <2> QED BY <1>1, <1>3, <1>4, <2>1
<1>6. {j.id : j \in ToSet(x)} = ToSet(Ids(JudgedPoints(answer))) \ ToSet(Ids(points))
  <2>1. \A i \in 1..Len(ids) : x[i].id = ids[i]
    BY ExtraFacts
  <2>2. ToSet(ids) = ToSet(Ids(JudgedPoints(answer))) \ ToSet(Ids(points))
    BY ExtraFacts
  <2> HIDE DEF x, ids
  <2>3. {j.id : j \in ToSet(x)} = ToSet(ids)
    BY <1>1, <1>3, <2>1
  <2> QED BY <2>2, <2>3
<1>7. \A raw : Status(raw) \in Statuses
  BY DEF Status, Statuses
<1>8. \A j \in ToSet(c) : j.status \in Statuses
  <2>1. \A i \in 1..Len(points) : c[i].status \in Statuses
    <3>1. "missing" \in Statuses
      BY DEF Statuses
    <3>2. \A i \in 1..Len(points) : \/ c[i].status = "missing"
                                    \/ \E raw : c[i].status = Status(raw)
      BY ConfiguredFacts
    <3> QED BY <1>7, <3>1, <3>2
  <2> HIDE DEF c
  <2> QED BY <1>1, <1>3, <2>1
<1>9. \A j \in ToSet(x) : j.status \in Statuses
  <2>1. \A i \in 1..Len(ids) : x[i].status \in Statuses
    <3>1. \A i \in 1..Len(ids) :
             x[i].status = Status(Under(ids[i], JudgedPoints(answer)).status)
      BY ExtraFacts
    <3> HIDE DEF x, ids
    <3> QED BY <1>7, <3>1
  <2> HIDE DEF x, ids
  <2> QED BY <1>1, <1>3, <2>1
<1>10. Record(points, answer) = c \o x
  BY RecordParts
<1> HIDE DEF c, x
<1> QED BY <1>2, <1>5, <1>6, <1>8, <1>9, <1>10

Of(judgments, id, status) == {j \in judgments : j.id = id /\ j.status = status}

Copies(points, id) == {i \in DOMAIN points : points[i].id = id}

Says(answer, id, status) ==
    Mentions(answer, id) /\ Status(Under(id, JudgedPoints(answer)).status) = status

\* Whatever is left of the copies of a point when the answer has had its say.
LeftOut(points, answer, id) ==
    IF Copies(points, id) = {} THEN 0
    ELSE Cardinality(Copies(points, id)) - (IF Mentions(answer, id) THEN 1 ELSE 0)

TimesRecorded(points, answer, id, status) ==
    (IF Says(answer, id, status) THEN 1 ELSE 0)
      + (IF status = "missing" THEN LeftOut(points, answer, id) ELSE 0)

LEMMA CopiesFacts ==
  ASSUME NEW points, IsList(points), NEW id
  PROVE  /\ IsFiniteSet(Copies(points, id)) /\ Cardinality(Copies(points, id)) \in Nat
         /\ Copies(points, id) \subseteq 1..Len(points)
         /\ Copies(points, id) = {} <=> id \notin ToSet(Ids(points))
<1> DEFINE n == Len(points)
<1>1. n \in Nat /\ DOMAIN points = 1..n
  BY ListFacts
<1>2. Copies(points, id) \in SUBSET (1..n)
  BY <1>1 DEF Copies
<1>3. IsFiniteSet(1..n)
  <2> HIDE DEF n
  <2> QED BY <1>1, FS_Interval
<1>4. ToSet(Ids(points)) = {points[i].id : i \in 1..Len(points)}
  BY IdsFacts
<1>5. Copies(points, id) = {} <=> id \notin ToSet(Ids(points))
  BY <1>1, <1>4 DEF Copies
<1> QED BY <1>2, <1>3, <1>5, FS_Subset, FS_CardinalityType

\* The first copy of a point gets what the answer says, the others are
\* missing.
LEMMA ConfiguredCount ==
  ASSUME NEW points, IsList(points), NEW answer, NEW U,
         ToSet(Configured(points, answer)) \subseteq U, NEW id, NEW status
  PROVE  CountIn(Configured(points, answer), Of(U, id, status)) =
            IF Copies(points, id) = {} THEN 0
            ELSE TimesRecorded(points, answer, id, status)
<1> DEFINE c == Configured(points, answer)
           D == Copies(points, id)
           n == Len(points)
           said == Status(Under(id, JudgedPoints(answer)).status)
           P == Places(c, Of(U, id, status))
<1>1. n \in Nat /\ DOMAIN points = 1..n /\ IsList(c) /\ Len(c) = n
  BY ListFacts, ConfiguredFacts
<1>2. \A i \in 1..n : /\ c[i] \in U
                      /\ c[i].id = points[i].id
                      /\ c[i].status = IF Judged(points, answer, i)
                                       THEN Status(Under(points[i].id, JudgedPoints(answer)).status)
                                       ELSE "missing"
  BY <1>1, ListFacts, ConfiguredFacts
<1>3. /\ IsFiniteSet(D) /\ Cardinality(D) \in Nat /\ D \subseteq 1..n
      /\ \A i \in 1..n : i \in D <=> points[i].id = id
  BY <1>1, CopiesFacts DEF Copies
<1>4. \A i : i \in P <=>
         /\ i \in D
         /\ status = IF Judged(points, answer, i) THEN said ELSE "missing"
  <2> HIDE DEF c, D, said
  <2>1. \A i : i \in P <=> i \in 1..n /\ c[i].id = id /\ c[i].status = status
    BY <1>1, <1>2 DEF Places, Of
  <2> QED BY <1>2, <1>3, <2>1 DEF said
<1>5. CountIn(c, Of(U, id, status)) = Cardinality(P)
  BY DEF CountIn
<1> HIDE DEF c, P
<1>6. CASE D = {}
  <2>1. P = {}
    BY <1>4, <1>6
  <2> QED BY <1>5, <1>6, <2>1, FS_EmptySet DEF c
<1>7. CASE D # {}
  <2>1. PICK m \in D : \A i \in D : m <= i
    <3>1. D \in SUBSET Nat
      BY <1>1, <1>3
    <3> HIDE DEF D
    <3> QED BY <1>7, <3>1, LeastOf
  <2>2. \A i \in D : Judged(points, answer, i) <=> Mentions(answer, id) /\ i = m
    <3> SUFFICES ASSUME NEW i \in D
                 PROVE  Judged(points, answer, i) <=> Mentions(answer, id) /\ i = m
      OBVIOUS
    <3>1. i \in 1..n /\ m \in 1..n /\ points[i].id = id /\ points[m].id = id /\ m <= i
      BY <1>3, <2>1
    <3>2. Judged(points, answer, i) <=>
             Mentions(answer, id) /\ \A j \in 1..(i - 1) : points[j].id # id
      BY <3>1 DEF Judged, Mentions
    <3>3. (\A j \in 1..(i - 1) : points[j].id # id) <=> i = m
      <4>1. ASSUME i = m, NEW j \in 1..(i - 1), points[j].id = id PROVE FALSE
        <5>1. j \in 1..n /\ j < m
          BY <1>1, <3>1, <4>1
        <5>2. j \in D
          BY <1>3, <4>1, <5>1
        <5> QED BY <2>1, <5>1, <5>2, <1>1, <3>1
      <4>2. ASSUME i # m PROVE m \in 1..(i - 1)
        BY <1>1, <3>1, <4>2
      <4> QED BY <3>1, <4>1, <4>2
    <3> QED BY <3>2, <3>3
  <2>3. \A i : i \in P <=> /\ i \in D
                           /\ status = IF Mentions(answer, id) /\ i = m THEN said ELSE "missing"
    BY <1>4, <2>2
  <2>4. Cardinality(D \ {m}) = Cardinality(D) - 1 /\ Cardinality({m}) = 1
        /\ Cardinality({}) = 0
    BY <1>3, FS_RemoveElement, FS_Singleton, FS_EmptySet
  <2>5. TimesRecorded(points, answer, id, status) =
           (IF Mentions(answer, id) /\ said = status THEN 1 ELSE 0)
             + (IF status = "missing"
                THEN Cardinality(D) - (IF Mentions(answer, id) THEN 1 ELSE 0) ELSE 0)
    BY <1>7 DEF TimesRecorded, Says, LeftOut
  <2> HIDE DEF D, said
  <2>6. Cardinality(P) = TimesRecorded(points, answer, id, status)
    <3>1. CASE ~Mentions(answer, id) /\ status = "missing"
      <4>1. P = D
        BY <2>3, <3>1
      <4> QED BY <1>3, <2>5, <3>1, <4>1
    <3>2. CASE ~Mentions(answer, id) /\ status # "missing"
      <4>1. P = {}
        BY <2>3, <3>2
      <4> QED BY <2>4, <2>5, <3>2, <4>1
    <3>3. CASE Mentions(answer, id) /\ status = "missing" /\ said = status
      <4>1. P = D
        BY <2>3, <3>3
      <4> QED BY <1>3, <2>5, <3>3, <4>1
    <3>4. CASE Mentions(answer, id) /\ status = "missing" /\ said # status
      <4>1. P = D \ {m}
        BY <2>3, <3>4
      <4> QED BY <1>3, <2>4, <2>5, <3>4, <4>1
    <3>5. CASE Mentions(answer, id) /\ status # "missing" /\ said = status
      <4>1. P = {m}
        BY <2>1, <2>3, <3>5
      <4> QED BY <2>4, <2>5, <3>5, <4>1
    <3>6. CASE Mentions(answer, id) /\ status # "missing" /\ said # status
      <4>1. P = {}
        BY <2>3, <3>6
      <4> QED BY <2>4, <2>5, <3>6, <4>1
    <3> QED BY <3>1, <3>2, <3>3, <3>4, <3>5, <3>6
  <2> QED BY <1>5, <1>7, <2>6 DEF c, D
<1> QED BY <1>6, <1>7

\* What is judged and not configured is recorded once.
LEMMA ExtraCount ==
  ASSUME NEW points, IsList(points), NEW answer, IsList(JudgedPoints(answer)), NEW U,
         ToSet(Extra(points, answer)) \subseteq U, NEW id, NEW status
  PROVE  CountIn(Extra(points, answer), Of(U, id, status)) =
            IF Copies(points, id) = {} THEN TimesRecorded(points, answer, id, status) ELSE 0
<1> DEFINE x == Extra(points, answer)
           ids == Others(points, answer)
           n == Len(ids)
           said == Status(Under(id, JudgedPoints(answer)).status)
           P == Places(x, Of(U, id, status))
           K == Places(ids, {id})
<1>1. /\ IsList(x) /\ Len(x) = n /\ IsList(ids)
      /\ ToSet(ids) = ToSet(Ids(JudgedPoints(answer))) \ ToSet(Ids(points))
  BY ExtraFacts
<1>2. \A i \in 1..n : /\ x[i] \in U
                      /\ x[i].id = ids[i]
                      /\ x[i].status = Status(Under(ids[i], JudgedPoints(answer)).status)
  <2>1. \A i \in 1..n : x[i] \in U
    <3> HIDE DEF ids
    <3>1. ToSet(x) = {x[i] : i \in 1..n}
      BY <1>1, ListFacts
    <3> QED BY <3>1
  <2>2. \A i \in 1..n : /\ x[i].id = ids[i]
                        /\ x[i].status = Status(Under(ids[i], JudgedPoints(answer)).status)
    BY ExtraFacts
  <2> QED BY <2>1, <2>2
<1>3. \A i : i \in P <=> i \in K /\ status = said
  <2> HIDE DEF x, ids, said
  <2>1. \A i : i \in P <=> i \in 1..n /\ x[i].id = id /\ x[i].status = status
    BY <1>1, <1>2 DEF Places, Of
  <2>2. \A i : i \in K <=> i \in 1..n /\ ids[i] = id
    BY DEF Places
  <2> QED BY <1>2, <2>1, <2>2 DEF said
<1>4. CountIn(x, Of(U, id, status)) = Cardinality(P)
  BY DEF CountIn
<1>5. Cardinality(K) = IF Mentions(answer, id) /\ Copies(points, id) = {} THEN 1 ELSE 0
  <2> DEFINE given == Ids(JudgedPoints(answer))
             judged == DictKeys(given)
             X == ToSet(judged) \ ToSet(Ids(points))
  <2>1. IsList(given) /\ IsList(judged) /\ ToSet(judged) = ToSet(given)
    BY IdsFacts, DictKeysList, DictKeysMembers
  <2>2. CountIn(judged, {id}) = IF id \in ToSet(given) THEN 1 ELSE 0
    <3> HIDE DEF given
    <3> QED BY <2>1, CountOfKey
  <2>3. ids = Only(judged, X)
    BY DEF Others
  <2>4. CountIn(Only(judged, X), {id}) = CountIn(judged, X \cap {id})
    <3> DEFINE Y == {id}
    <3> HIDE DEF judged, X, Y
    <3>1. CountIn(Only(judged, X), Y) = CountIn(judged, X \cap Y)
      BY <2>1, CountInOnly
    <3> QED BY <3>1 DEF Y
  <2>5. Mentions(answer, id) <=> id \in ToSet(given)
    BY DEF Mentions
  <2>6. Copies(points, id) = {} <=> id \notin ToSet(Ids(points))
    BY CopiesFacts
  <2>7. Cardinality(K) = CountIn(judged, X \cap {id})
    BY <2>3, <2>4 DEF CountIn
  <2> HIDE DEF K
  <2>8. CASE id \in X
    <3>1. X \cap {id} = {id}
      BY <2>8
    <3>2. Mentions(answer, id) /\ Copies(points, id) = {} /\ id \in ToSet(given)
      BY <2>1, <2>5, <2>6, <2>8
    <3> HIDE DEF X, judged, given
    <3> QED BY <2>2, <2>7, <3>1, <3>2
  <2>9. CASE id \notin X
    <3>1. X \cap {id} = {}
      BY <2>9
    <3>2. ~(Mentions(answer, id) /\ Copies(points, id) = {})
      BY <2>1, <2>5, <2>6, <2>9
    <3>3. CountIn(judged, {}) = 0
      <4>1. Places(judged, {}) = {}
        BY DEF Places
      <4> QED BY <4>1, FS_EmptySet DEF CountIn
    <3> HIDE DEF X, judged
    <3> QED BY <2>7, <3>1, <3>2, <3>3
  <2> QED BY <2>8, <2>9
<1>6. Copies(points, id) = {} =>
         TimesRecorded(points, answer, id, status)
            = IF Mentions(answer, id) /\ said = status THEN 1 ELSE 0
  BY DEF TimesRecorded, Says, LeftOut
<1> HIDE DEF x, P, K, said
<1>7. CASE status = said
  <2>1. P = K
    BY <1>3, <1>7
  <2> QED BY <1>4, <1>5, <1>6, <1>7, <2>1 DEF x
<1>8. CASE status # said
  <2>1. P = {}
    BY <1>3, <1>8
  <2> QED BY <1>4, <1>6, <1>8, <2>1, FS_EmptySet DEF x
<1> QED BY <1>7, <1>8

LEMMA RecordCount ==
  ASSUME NEW points, IsList(points), NEW answer, IsList(JudgedPoints(answer)), NEW U,
         ToSet(Record(points, answer)) \subseteq U, NEW id, NEW status
  PROVE  CountIn(Record(points, answer), Of(U, id, status))
            = TimesRecorded(points, answer, id, status)
<1> DEFINE c == Configured(points, answer)
           x == Extra(points, answer)
           X == Of(U, id, status)
           times == TimesRecorded(points, answer, id, status)
<1>1. IsList(c) /\ IsList(x)
  BY ConfiguredFacts, ExtraFacts
<1>2. Record(points, answer) = c \o x /\ ToSet(c \o x) = ToSet(c) \cup ToSet(x)
  BY <1>1, RecordParts, Concatenated
<1>3. CountIn(c \o x, X) = CountIn(c, X) + CountIn(x, X)
  <2> HIDE DEF c, x, X
  <2> QED BY <1>1, CountJoined
<1>4. CountIn(c, X) = IF Copies(points, id) = {} THEN 0 ELSE times
  <2>1. ToSet(Configured(points, answer)) \subseteq U
    BY <1>2
  <2> QED BY <2>1, ConfiguredCount
<1>5. CountIn(x, X) = IF Copies(points, id) = {} THEN times ELSE 0
  <2>1. ToSet(Extra(points, answer)) \subseteq U
    BY <1>2
  <2> QED BY <2>1, ExtraCount, Zenon
<1>6. CountIn(c, X) \in Nat /\ CountIn(x, X) \in Nat
  BY <1>1, CountIsNatural
<1> HIDE DEF c, x, X, times
<1>7. CountIn(c \o x, X) = times
  BY <1>3, <1>4, <1>5, <1>6
<1> QED BY <1>2, <1>7 DEF X, times

-----------------------------------------------------------------------------
(* What is aggregated of many answers.                                     *)

Tallied(judgments, id, status) == CountIn(judgments, Of(ToSet(judgments), id, status))

\* An aggregate of a point counts its judgments, by status and in all, and
\* scores them.
IsPointAggregate(p, judgments, id) ==
    /\ p.id = id
    /\ \A status \in Statuses : /\ Tallied(judgments, id, status) \in Nat
                                /\ p.tally[status] = Tallied(judgments, id, status)
    /\ p.count = p.tally["extracted"] + p.tally["partial"] + p.tally["missing"]
                 + p.tally["contradicted"]
    /\ p.count \in Nat \ {0}
    /\ p.score = 2 * p.tally["extracted"] + p.tally["partial"]

LEMMA PointAggregateFacts ==
  ASSUME NEW judgments, IsList(judgments), \A j \in ToSet(judgments) : j.status \in Statuses,
         NEW id, \E j \in ToSet(judgments) : j.id = id
  PROVE  IsPointAggregate(PointAggregate(id, judgments), judgments, id)
<1> DEFINE U == ToSet(judgments)
           O == {j \in U : j.id = id}
           of == Only(judgments, O)
           p == PointAggregate(id, judgments)
           n == Len(of)
           S(status) == {i \in 1..n : of[i].status = status}
<1>1. IsList(of) /\ ToSet(of) = O
  <2>1. U \cap O = O
    OBVIOUS
  <2> HIDE DEF O
  <2> QED BY <2>1, OnlyFacts
<1>2. n \in Nat /\ DOMAIN of = 1..n /\ ToSet(of) = {of[i] : i \in 1..n}
  BY <1>1, ListFacts
<1>3. \A i \in 1..n : of[i] \in U /\ of[i].id = id /\ of[i].status \in Statuses
  <2> HIDE DEF of, n
  <2> QED BY <1>1, <1>2
<1>4. /\ p.id = id /\ p.count = n
      /\ p.tally = [status \in Statuses |-> Cardinality({i \in DOMAIN of : of[i].status = status})]
      /\ p.score = Total([i \in DOMAIN of |-> Halves(of[i].status)])
  BY DEF PointAggregate
<1>5. ASSUME NEW status
      PROVE  /\ Cardinality(S(status)) = Tallied(judgments, id, status)
             /\ IsFiniteSet(S(status)) /\ Cardinality(S(status)) \in Nat
  <2> DEFINE X == Of(U, id, status)
  <2>1. Places(of, X) = S(status)
    <3> HIDE DEF of
    <3> QED BY <1>3 DEF Places, Of
  <2>2. O \cap X = X
    BY DEF Of
  <2> HIDE DEF O, X, S
  <2>3. CountIn(of, X) = CountIn(judgments, O \cap X)
    BY CountInOnly
  <2>4. IsFiniteSet(Places(of, X)) /\ CountIn(of, X) \in Nat
    <3> HIDE DEF of
    <3> QED BY <1>1, CountIsNatural
  <2> QED BY <2>1, <2>2, <2>3, <2>4 DEF CountIn, Tallied, X
<1>6. \A status \in Statuses : p.tally[status] = Cardinality(S(status))
  <2> HIDE DEF p
  <2>1. \A status : {i \in DOMAIN of : of[i].status = status} = S(status)
    BY <1>2
  <2> HIDE DEF S, of
  <2> QED BY <1>4, <2>1
<1>7. p.score = 2 * Cardinality(S("extracted")) + Cardinality(S("partial"))
  <2> HIDE DEF p, of
  <2>1. Total([i \in DOMAIN of |-> Halves(of[i].status)])
           = 2 * Cardinality(S("extracted")) + Cardinality(S("partial"))
    BY <1>1, TotalHalves
  <2> QED BY <1>4, <2>1
<1>8. n = Cardinality(S("extracted")) + Cardinality(S("partial")) + Cardinality(S("missing"))
          + Cardinality(S("contradicted"))
  <2> DEFINE E == S("extracted")
             P == S("partial")
             M == S("missing")
             C == S("contradicted")
  <2>1. /\ IsFiniteSet(E) /\ IsFiniteSet(P) /\ IsFiniteSet(M) /\ IsFiniteSet(C)
        /\ Cardinality(E) \in Nat /\ Cardinality(P) \in Nat
        /\ Cardinality(M) \in Nat /\ Cardinality(C) \in Nat
    BY <1>5
  <2>2. 1..n = ((E \cup P) \cup M) \cup C
    <3> HIDE DEF of, n
    <3> QED BY <1>3 DEF Statuses
  <2>3. E \cap P = {} /\ (E \cup P) \cap M = {} /\ ((E \cup P) \cup M) \cap C = {}
    <3> HIDE DEF of, n
    <3> QED OBVIOUS
  <2>4. Cardinality(1..n) = n
    <3> HIDE DEF n
    <3>1. n \in Int /\ 1 \in Int
      BY <1>2
    <3>2. Cardinality(1..n) = IF 1 > n THEN 0 ELSE n - 1 + 1
      BY <3>1, FS_Interval
    <3> QED BY <1>2, <3>2
  <2> HIDE DEF E, P, M, C, n
  <2>5. /\ IsFiniteSet(E \cup P)
        /\ Cardinality(E \cup P) = Cardinality(E) + Cardinality(P)
    BY <2>1, <2>3, DisjointUnion
  <2>6. /\ IsFiniteSet((E \cup P) \cup M)
        /\ Cardinality((E \cup P) \cup M) = Cardinality(E \cup P) + Cardinality(M)
    BY <2>1, <2>3, <2>5, DisjointUnion
  <2>7. Cardinality(((E \cup P) \cup M) \cup C) = Cardinality((E \cup P) \cup M) + Cardinality(C)
    BY <2>1, <2>3, <2>6, DisjointUnion
  <2>8. n = Cardinality(E) + Cardinality(P) + Cardinality(M) + Cardinality(C)
    BY <2>2, <2>4, <2>5, <2>6, <2>7
  <2> QED BY <2>8 DEF E, P, M, C
<1>9. n # 0
  <2>1. O # {}
    OBVIOUS
  <2> HIDE DEF O, of
  <2>2. 1..n # {}
    BY <1>1, <1>2, <2>1
  <2> QED BY <1>2, <2>2
<1>10. {"extracted", "partial", "missing", "contradicted"} = Statuses
  BY DEF Statuses
<1> HIDE DEF S, p, n, of
<1>11. /\ p.tally["extracted"] = Cardinality(S("extracted"))
       /\ p.tally["partial"] = Cardinality(S("partial"))
       /\ p.tally["missing"] = Cardinality(S("missing"))
       /\ p.tally["contradicted"] = Cardinality(S("contradicted"))
  BY <1>6, <1>10
<1>12. \A status \in Statuses : /\ Tallied(judgments, id, status) \in Nat
                                /\ p.tally[status] = Tallied(judgments, id, status)
  BY <1>5, <1>6
<1>13. IsPointAggregate(p, judgments, id)
  BY <1>2, <1>4, <1>7, <1>8, <1>9, <1>11, <1>12 DEF IsPointAggregate
<1> QED BY <1>13 DEF p

AllJudgments(points, n, answers) == FlattenSeq([i \in 1..n |-> Record(points, answers[i])])

\* How often n answers say something of a point, and how many copies of it
\* they leave out.
Heard(n, answers, id) == Cardinality({i \in 1..n : Mentions(answers[i], id)})

Saying(n, answers, id, status) == Cardinality({i \in 1..n : Says(answers[i], id, status)})

Unheard(points, n, answers, id) ==
    IF Copies(points, id) = {} THEN 0
    ELSE Cardinality(Copies(points, id)) * n - Heard(n, answers, id)

Expected(points, n, answers, id, status) ==
    Saying(n, answers, id, status)
      + IF status = "missing" THEN Unheard(points, n, answers, id) ELSE 0

LEMMA JudgmentsCount ==
  ASSUME NEW points, IsList(points), NEW n \in Nat, NEW answers,
         \A i \in 1..n : IsList(JudgedPoints(answers[i])), NEW id, NEW status
  PROVE  Tallied(AllJudgments(points, n, answers), id, status)
            = Expected(points, n, answers, id, status)
<1> DEFINE f == [i \in 1..n |-> Record(points, answers[i])]
           judgments == AllJudgments(points, n, answers)
           U == ToSet(judgments)
           X == Of(U, id, status)
           A == {answers[i] : i \in 1..n}
           Y == {a \in A : Says(a, id, status)}
           Z == {a \in A : Mentions(a, id)}
           q == Cardinality(Copies(points, id))
           none == Copies(points, id) = {}
<1>1. /\ f = [i \in 1..n |-> f[i]]
      /\ \A i \in 1..n : IsList(f[i]) /\ f[i] = Record(points, answers[i])
  BY RecordIds
<1>2. judgments = FlattenSeq(f)
  BY DEF AllJudgments
<1>3. \A i \in 1..n : ToSet(f[i]) \subseteq U
  <2> HIDE DEF f, judgments
  <2>1. \A x : x \in ToSet(FlattenSeq(f)) <=> \E i \in 1..n : x \in ToSet(f[i])
    BY <1>1, LoopMembers
  <2> QED BY <1>2, <2>1
<1>4. \A i \in 1..n : CountIn(f[i], X) = TimesRecorded(points, answers[i], id, status)
  <2> SUFFICES ASSUME NEW i \in 1..n
               PROVE  CountIn(f[i], X) = TimesRecorded(points, answers[i], id, status)
    OBVIOUS
  <2>1. ToSet(Record(points, answers[i])) \subseteq U /\ IsList(JudgedPoints(answers[i]))
    BY <1>1, <1>3
  <2> HIDE DEF f, U
  <2>2. CountIn(Record(points, answers[i]), X) = TimesRecorded(points, answers[i], id, status)
    BY <2>1, RecordCount
  <2> QED BY <1>1, <2>2
<1>5. \A i \in 1..n : /\ answers[i] \in Y <=> Says(answers[i], id, status)
                      /\ answers[i] \in Z <=> Mentions(answers[i], id)
  OBVIOUS
<1> HIDE DEF f, X, Y, Z, U
<1>6. PICK y : Counts(y, n, answers, Y)
  BY CountUpTo, Zenon
<1>7. PICK z : Counts(z, n, answers, Z)
  BY CountUpTo, Zenon
<1>8. q \in Nat
  BY CopiesFacts
<1> DEFINE c == [k \in 0..n |-> y[k] + IF status = "missing"
                                       THEN IF none THEN 0 ELSE q * k - z[k] ELSE 0]
<1> HIDE DEF q, none
<1>9. c[0] = 0
  <2>1. q * 0 = 0
    BY <1>8
  <2> QED BY <1>6, <1>7, <2>1 DEF Counts
<1>10. ASSUME NEW k \in 1..n PROVE c[k] = c[k - 1] + CountIn(f[k], X)
  <2>1. /\ y[k] = y[k - 1] + (IF Says(answers[k], id, status) THEN 1 ELSE 0)
        /\ z[k] = z[k - 1] + (IF Mentions(answers[k], id) THEN 1 ELSE 0)
    BY <1>5, <1>6, <1>7 DEF Counts
  <2>2. k - 1 \in 0..n /\ k \in 0..n
    OBVIOUS
  <2>3. y[k - 1] \in Nat /\ z[k - 1] \in Nat
    BY <1>6, <1>7, <2>2 DEF Counts
  <2>4. q * k = q * (k - 1) + q
    <3>1. \A j \in Int : q * (j + 1) = q * j + q
      BY <1>8
    <3>2. (k - 1) + 1 = k /\ k - 1 \in Int
      OBVIOUS
    <3> QED BY <3>1, <3>2
  <2>5. q * (k - 1) \in Int
    BY <1>8
  <2>6. CountIn(f[k], X) = (IF Says(answers[k], id, status) THEN 1 ELSE 0)
           + (IF status = "missing"
              THEN IF none THEN 0 ELSE q - (IF Mentions(answers[k], id) THEN 1 ELSE 0)
              ELSE 0)
    BY <1>4 DEF TimesRecorded, LeftOut, q, none
  <2> DEFINE b == q * (k - 1)
             d == q * k
  <2>7. /\ c[k - 1] = y[k - 1] + IF status = "missing"
                                 THEN IF none THEN 0 ELSE b - z[k - 1] ELSE 0
        /\ c[k] = y[k] + IF status = "missing" THEN IF none THEN 0 ELSE d - z[k] ELSE 0
    BY <2>2
  <2> HIDE DEF b, c, d
  <2>8. b \in Int /\ d = b + q
    BY <2>4, <2>5 DEF b, d
  <2> QED BY <1>8, <2>1, <2>3, <2>6, <2>7, <2>8
<1>11. c[n] = Expected(points, n, answers, id, status)
  <2>1. {i \in 1..n : answers[i] \in Y} = {i \in 1..n : Says(answers[i], id, status)}
    BY <1>5
  <2>2. {i \in 1..n : answers[i] \in Z} = {i \in 1..n : Mentions(answers[i], id)}
    BY <1>5
  <2>3. y[n] = Saying(n, answers, id, status)
    BY <1>6, <2>1 DEF Counts, Saying
  <2>4. z[n] = Heard(n, answers, id)
    BY <1>7, <2>2 DEF Counts, Heard
  <2>5. c[n] = y[n] + IF status = "missing" THEN IF none THEN 0 ELSE q * n - z[n] ELSE 0
    OBVIOUS
  <2> HIDE DEF c
  <2> QED BY <2>3, <2>4, <2>5 DEF Expected, Unheard, q, none
<1> HIDE DEF c
<1>12. CountIn(FlattenSeq(f), X) = c[n]
  BY <1>1, <1>9, <1>10, CountInLoop
<1> QED BY <1>2, <1>11, <1>12 DEF Tallied, X, U

IdsOf(points, n, answers) ==
    ToSet(Ids(points)) \cup UNION {ToSet(Ids(JudgedPoints(answers[i]))) : i \in 1..n}

LEMMA JudgmentsIds ==
  ASSUME NEW points, IsList(points), NEW n \in Nat, n # 0, NEW answers,
         \A i \in 1..n : IsList(JudgedPoints(answers[i]))
  PROVE  LET judgments == AllJudgments(points, n, answers)
         IN  /\ IsList(judgments)
             /\ \A j \in ToSet(judgments) : j.status \in Statuses
             /\ {j.id : j \in ToSet(judgments)} = IdsOf(points, n, answers)
<1> DEFINE f == [i \in 1..n |-> Record(points, answers[i])]
           judgments == AllJudgments(points, n, answers)
           given(i) == ToSet(Ids(JudgedPoints(answers[i])))
           C == ToSet(Ids(points))
<1>1. /\ f = [i \in 1..n |-> f[i]]
      /\ \A i \in 1..n : /\ IsList(f[i])
                         /\ {j.id : j \in ToSet(f[i])} = C \cup given(i)
                         /\ \A j \in ToSet(f[i]) : j.status \in Statuses
  BY RecordIds
<1>2. judgments = FlattenSeq(f)
  BY DEF AllJudgments
<1> HIDE DEF f, judgments
<1>3. /\ IsList(FlattenSeq(f))
      /\ \A x : x \in ToSet(FlattenSeq(f)) <=> \E i \in 1..n : x \in ToSet(f[i])
  BY <1>1, LoopMembers
<1>4. IdsOf(points, n, answers) = C \cup UNION {given(i) : i \in 1..n}
  BY DEF IdsOf
<1> HIDE DEF given, C
<1>5. {j.id : j \in ToSet(judgments)} = C \cup UNION {given(i) : i \in 1..n}
  <2>1. ASSUME NEW x \in ToSet(judgments)
        PROVE  x.id \in C \cup UNION {given(i) : i \in 1..n}
    <3>1. PICK i \in 1..n : x \in ToSet(f[i])
      BY <1>2, <1>3
    <3>2. x.id \in {j.id : j \in ToSet(f[i])}
      BY <3>1
    <3>3. x.id \in C \cup given(i)
      BY <1>1, <3>2
    <3> QED BY <3>3
  <2>2. ASSUME NEW id \in C \cup UNION {given(i) : i \in 1..n}
        PROVE  \E x \in ToSet(judgments) : x.id = id
    <3>1. PICK i \in 1..n : id \in C \cup given(i)
      <4>1. 1 \in 1..n
        OBVIOUS
      <4> QED BY <4>1
    <3>2. id \in {j.id : j \in ToSet(f[i])}
      BY <1>1, <3>1
    <3>3. PICK j \in ToSet(f[i]) : id = j.id
      BY <3>2
    <3>4. j \in ToSet(judgments)
      BY <1>2, <1>3
    <3> QED BY <3>3, <3>4
  <2> QED BY <2>1, <2>2
<1>6. \A j \in ToSet(judgments) : j.status \in Statuses
  BY <1>1, <1>2, <1>3
<1> QED BY <1>2, <1>3, <1>4, <1>5, <1>6 DEF judgments

LEMMA RatingFacts ==
  ASSUME NEW points, NEW answer, IsAnswer(answer)
  PROVE  LET rating == AssessmentRecord(points, answer).rating
         IN  \/ rating = << >>
             \/ \E value \in 0..100 : rating = <<value>>
<1>1. AssessmentRecord(points, answer).rating =
         IF answer.readable THEN Rating(answer.rating) ELSE << >>
  BY DEF AssessmentRecord
<1>2. CASE answer.rating.form = "none"
  BY <1>1, <1>2 DEF Rating
<1>3. CASE answer.rating.form = "nan"
  <2>1. Rating(answer.rating) = <<100>> /\ 100 \in 0..100
    BY <1>3 DEF Rating
  <2> QED BY <1>1, <2>1
<1>4. CASE answer.rating.form = "number" /\ answer.rating.value \in Int
  <2> DEFINE v == answer.rating.value
             low == Min({100, v})
             value == Max({0, low})
  <2>1. Rating(answer.rating) = <<value>>
    BY <1>4 DEF Rating
  <2>2. low \in Int /\ low <= 100
    <3>1. v \in Int
      BY <1>4
    <3> HIDE DEF v
    <3>2. \E x \in {100, v} : \A y \in {100, v} : x <= y
      BY <3>1
    <3> QED BY <3>1, <3>2 DEF Min
  <2> HIDE DEF low
  <2>3. value \in 0..100
    <3>1. \E x \in {0, low} : \A y \in {0, low} : x >= y
      BY <2>2
    <3>2. value \in {0, low} /\ \A y \in {0, low} : value >= y
      BY <3>1 DEF Max
    <3> HIDE DEF value
    <3> QED BY <2>2, <3>2
  <2> HIDE DEF value
  <2> QED BY <1>1, <2>1, <2>3
<1> QED BY <1>2, <1>3, <1>4 DEF IsAnswer

\* No more ratings than answers, each between 0 and 1.
LEMMA RatingsFacts ==
  ASSUME NEW points, NEW n \in Nat, NEW answers, \A i \in 1..n : IsAnswer(answers[i])
  PROVE  LET ratings == FlattenSeq([i \in 1..n |-> AssessmentRecord(points, answers[i]).rating])
         IN  /\ Len(ratings) \in Nat /\ Len(ratings) <= n
             /\ Total(ratings) \in 0..(100 * Len(ratings))
<1> DEFINE f == [i \in 1..n |-> AssessmentRecord(points, answers[i]).rating]
           ratings == FlattenSeq(f)
           X == 0..100
           F == {f[i] : i \in 1..n}
           Y == {rating \in F : rating # << >>}
<1>1. f = [i \in 1..n |-> f[i]]
  OBVIOUS
<1>2. \A i \in 1..n : f[i] = << >> \/ \E value \in X : f[i] = <<value>>
  BY RatingFacts
<1>3. \A i \in 1..n : f[i] \in Y <=> f[i] # << >>
  OBVIOUS
<1> HIDE DEF f, Y
<1>4. ASSUME NEW i \in 1..n
      PROVE  /\ IsList(f[i]) /\ ToSet(f[i]) \subseteq X
             /\ CountIn(f[i], X) = IF f[i] \in Y THEN 1 ELSE 0
  <2>1. CASE f[i] = << >>
    BY <1>3, <2>1, Nothing, CountOfNothing
  <2>2. ASSUME NEW value \in X, f[i] = <<value>>
        PROVE  /\ IsList(f[i]) /\ ToSet(f[i]) \subseteq X
               /\ CountIn(f[i], X) = IF f[i] \in Y THEN 1 ELSE 0
    <3> DEFINE one == <<value>>
    <3>1. CountIn(one, X) = 1
      BY CountOfOne
    <3>2. one # << >> /\ IsList(one) /\ ToSet(one) = {value}
      BY Singleton
    <3> HIDE DEF one
    <3>3. f[i] = one
      BY <2>2 DEF one
    <3> QED BY <1>3, <3>1, <3>2, <3>3
  <2> QED BY <1>2, <2>1, <2>2
<1> HIDE DEF X
<1>5. /\ IsList(ratings)
      /\ \A x : x \in ToSet(ratings) <=> \E i \in 1..n : x \in ToSet(f[i])
  BY <1>1, <1>4, LoopMembers
<1>6. ToSet(ratings) \subseteq X
  BY <1>4, <1>5
<1>7. PICK c : Counts(c, n, f, Y)
  BY CountUpTo, Zenon
<1>8. c[0] = 0 /\ \A k \in 1..n : c[k] = c[k - 1] + CountIn(f[k], X)
  BY <1>4, <1>7 DEF Counts
<1>9. CountIn(ratings, X) = c[n]
  BY <1>1, <1>4, <1>8, CountInLoop
<1>10. c[n] <= n
  <2> DEFINE D == {i \in 1..n : f[i] \in Y}
  <2>1. c[n] = Cardinality(D)
    BY <1>7 DEF Counts
  <2>2. D \in SUBSET (1..n)
    OBVIOUS
  <2>3. IsFiniteSet(1..n) /\ Cardinality(1..n) = IF 1 > n THEN 0 ELSE n - 1 + 1
    BY FS_Interval
  <2> HIDE DEF D
  <2>4. Cardinality(D) <= Cardinality(1..n) /\ IsFiniteSet(D)
    BY <2>2, <2>3, FS_Subset
  <2>5. Cardinality(D) \in Nat
    BY <2>4, FS_CardinalityType
  <2> QED BY <2>1, <2>3, <2>4, <2>5
<1> HIDE DEF ratings
<1>11. Len(ratings) = c[n] /\ Len(ratings) \in Nat
  BY <1>5, <1>6, <1>9, CountAll, ListFacts
<1>12. \A i \in 1..Len(ratings) : ratings[i] \in 0..100
  BY <1>5, <1>6, ListFacts DEF X
<1>13. Total(ratings) \in 0..(100 * Len(ratings))
  BY <1>5, <1>12, TotalBound
<1> QED BY <1>10, <1>11, <1>13 DEF ratings, f

\* An aggregate of n answers gives each point they judge, and each that is
\* configured, what they say of it.
IsOutcome(p, points, n, answers) ==
    /\ p.id \in IdsOf(points, n, answers)
    /\ \A status \in Statuses :
          /\ p.tally[status] = Expected(points, n, answers, p.id, status)
          /\ p.tally[status] \in Nat
    /\ p.count = p.tally["extracted"] + p.tally["partial"] + p.tally["missing"]
                 + p.tally["contradicted"]
    /\ p.count \in Nat \ {0}
    /\ p.score = 2 * p.tally["extracted"] + p.tally["partial"]

IsAggregate(aggregate, points, n, answers) ==
    LET list == aggregate.points
        L == Cardinality(IdsOf(points, n, answers))
    IN  /\ aggregate.count = n
        /\ IsFiniteSet(IdsOf(points, n, answers)) /\ L \in Nat
        /\ IsList(list) /\ Len(list) = L
        /\ {p.id : p \in ToSet(list)} = IdsOf(points, n, answers)
        /\ \A i, j \in 1..L : list[i].id = list[j].id => i = j
        /\ \A i \in 1..L : IsOutcome(list[i], points, n, answers)
        /\ aggregate.rated <= n
        /\ aggregate.ratings \in 0..(100 * aggregate.rated)

Aggregated(points, n, answers) ==
    AggregateAssessments([i \in 1..n |-> AssessmentRecord(points, answers[i])])

LEMMA AggregateParts ==
  ASSUME NEW points, NEW n \in Nat, NEW answers
  PROVE  LET aggregate == Aggregated(points, n, answers)
             judgments == AllJudgments(points, n, answers)
             ids == DictKeys(Ids(judgments))
             ratings == FlattenSeq([i \in 1..n |-> AssessmentRecord(points, answers[i]).rating])
         IN  /\ aggregate.count = n
             /\ aggregate.points = [i \in DOMAIN ids |-> PointAggregate(ids[i], judgments)]
             /\ aggregate.rated = Len(ratings)
             /\ aggregate.ratings = Total(ratings)
<1> DEFINE records == [i \in 1..n |-> AssessmentRecord(points, answers[i])]
<1>1. Len(records) = n
  <2>1. records = [i \in 1..n |-> records[i]]
    OBVIOUS
  <2> HIDE DEF records
  <2> QED BY <2>1, Tabulated
<1>2. [i \in 1..Len(records) |-> records[i].points] = [i \in 1..n |-> Record(points, answers[i])]
  <2>1. \A i \in 1..n : records[i].points = Record(points, answers[i])
    BY DEF Record
  <2> HIDE DEF records
  <2> QED BY <1>1, <2>1
<1>3. ForEach(records, LAMBDA record : record.points) = AllJudgments(points, n, answers)
  <2> HIDE DEF records
  <2> QED BY <1>2 DEF ForEach, AllJudgments
<1>4. ForEach(records, LAMBDA record : record.rating)
         = FlattenSeq([i \in 1..n |-> AssessmentRecord(points, answers[i]).rating])
  <2>1. [i \in 1..Len(records) |-> records[i].rating]
           = [i \in 1..n |-> AssessmentRecord(points, answers[i]).rating]
    <3>1. \A i \in 1..n : records[i].rating = AssessmentRecord(points, answers[i]).rating
      OBVIOUS
    <3> HIDE DEF records
    <3> QED BY <1>1, <3>1
  <2> HIDE DEF records
  <2> QED BY <2>1 DEF ForEach
<1>5. Aggregated(points, n, answers) = AggregateAssessments(records)
  BY DEF Aggregated
<1> HIDE DEF records
<1> QED BY <1>1, <1>3, <1>4, <1>5 DEF AggregateAssessments

LEMMA AggregateFacts ==
  ASSUME NEW points, IsPoints(points), NEW n \in Nat, n # 0, NEW answers,
         \A i \in 1..n : IsAnswer(answers[i])
  PROVE  IsAggregate(Aggregated(points, n, answers), points, n, answers)
<1> DEFINE aggregate == Aggregated(points, n, answers)
           judgments == AllJudgments(points, n, answers)
           given == Ids(judgments)
           ids == DictKeys(given)
           list == aggregate.points
           all == IdsOf(points, n, answers)
           L == Len(ids)
           ratings == FlattenSeq([i \in 1..n |-> AssessmentRecord(points, answers[i]).rating])
<1>1. IsList(points) /\ \A i \in 1..n : IsList(JudgedPoints(answers[i]))
  BY JudgedPointsFacts DEF IsPoints
<1>2. /\ IsList(judgments)
      /\ \A j \in ToSet(judgments) : j.status \in Statuses
      /\ {j.id : j \in ToSet(judgments)} = all
  BY <1>1, JudgmentsIds
<1>3. IsList(given) /\ ToSet(given) = all
  <2> HIDE DEF judgments, all
  <2>1. IsList(given) /\ ToSet(given) = {judgments[i].id : i \in 1..Len(judgments)}
    BY <1>2, IdsFacts
  <2>2. ToSet(judgments) = {judgments[i] : i \in 1..Len(judgments)}
    BY <1>2, ListFacts
  <2> QED BY <1>2, <2>1, <2>2
<1>4. /\ IsList(ids) /\ ToSet(ids) = all
      /\ \A i, j \in 1..L : ids[i] = ids[j] => i = j
  <2> HIDE DEF given, all
  <2> QED BY <1>3, DictKeysList, DictKeysMembers, DictKeysDistinct
<1>5. L \in Nat /\ DOMAIN ids = 1..L /\ ToSet(ids) = {ids[i] : i \in 1..L}
  BY <1>4, ListFacts
<1>6. IsFiniteSet(all) /\ Cardinality(all) = L
  <2> HIDE DEF ids, all
  <2>1. IsFiniteSet(ToSet(ids)) /\ Cardinality(ToSet(ids)) = Len(ids)
    BY <1>4, DistinctItems
  <2> QED BY <1>4, <2>1
<1>7. /\ aggregate.count = n
      /\ list = [i \in DOMAIN ids |-> PointAggregate(ids[i], judgments)]
      /\ aggregate.rated = Len(ratings)
      /\ aggregate.ratings = Total(ratings)
  BY AggregateParts
<1>8. aggregate.rated <= n /\ aggregate.ratings \in 0..(100 * aggregate.rated)
  <2>1. Len(ratings) <= n /\ Total(ratings) \in 0..(100 * Len(ratings))
    BY RatingsFacts
  <2> HIDE DEF aggregate, ratings
  <2> QED BY <1>7, <2>1
<1>9. ASSUME NEW status, NEW id
      PROVE  Tallied(judgments, id, status) = Expected(points, n, answers, id, status)
  BY <1>1, JudgmentsCount
<1> HIDE DEF aggregate, ids, given, judgments, L, all, ratings
<1>10. \A i \in 1..L : list[i] = PointAggregate(ids[i], judgments) /\ ids[i] \in all
  BY <1>4, <1>5, <1>7
<1>11. ASSUME NEW i \in 1..L
       PROVE  list[i].id = ids[i] /\ IsOutcome(list[i], points, n, answers)
  <2> DEFINE p == list[i]
             id == ids[i]
  <2>1. p = PointAggregate(id, judgments) /\ id \in all
    BY <1>10
  <2>2. \E j \in ToSet(judgments) : j.id = id
    BY <1>2, <2>1
  <2> HIDE DEF p, id
  <2>3. IsPointAggregate(p, judgments, id)
    BY <1>2, <2>1, <2>2, PointAggregateFacts
  <2>4. p.id = id /\ IsOutcome(p, points, n, answers)
    BY <1>9, <2>1, <2>3 DEF IsPointAggregate, IsOutcome, all
  <2> QED BY <2>4 DEF p, id
<1>12. IsList(list) /\ Len(list) = L
  <2>1. list = [i \in 1..L |-> list[i]]
    BY <1>5, <1>7
  <2> HIDE DEF list
  <2> QED BY <1>5, <2>1, Tabulated
<1>13. {p.id : p \in ToSet(list)} = all
  <2>1. ToSet(list) = {list[i] : i \in 1..L}
    BY <1>12, ListFacts
  <2> QED BY <1>4, <1>5, <1>11, <2>1
<1>14. \A i, j \in 1..L : list[i].id = list[j].id => i = j
  BY <1>4, <1>11
<1>15. IsAggregate(aggregate, points, n, answers)
  BY <1>5, <1>6, <1>7, <1>8, <1>11, <1>12, <1>13, <1>14 DEF IsAggregate, all
<1> QED BY <1>15 DEF aggregate

-----------------------------------------------------------------------------
(* What graders, aggregates and proposals leave in their artifacts.        *)

IsActive(r, operator) ==
    operator \in DOMAIN OperatorConfig /\ OperatorConfig[operator].focus \in Int

IsJudging(r, s) ==
    LET sample == s.sample
    IN  /\ s.type = "grader_eval" =>
              \E i \in 1..r.assessments : s = GraderEvals(r, sample)[i]
        /\ s.type = "assessment_aggregate" => s = Aggregate(r, sample)
        /\ s.type = "mutation_proposal" =>
              /\ s.parents = <<Aggregate(r, sample)>>
              /\ IsActive(r, s.index[1])

LEMMA RowsJudge ==
  ASSUME PlanInv, NEW s \in ToSet(rows)
  PROVE  IsJudging(run, s) /\ run \in Runs /\ run.assessments \in Nat /\ run.assessments # 0
<1> DEFINE m == s.sample
<1>1. phase \in {"seeding", "seeded"}
  BY Nothing DEF PlanInv
<1>2. run \in Runs /\ Valid(run)
  BY <1>1 DEF PlanInv, Added
<1>3. run.assessments \in Nat /\ run.assessments # 0
  BY <1>2, ValidFacts DEF Valid
<1> SUFFICES IsJudging(run, s)
  BY <1>2, <1>3
<1>4. /\ s \in ToSet(SamplePlan(run, m)) /\ Turns[m.scenario] \in Nat
      /\ IsList(Operators(run)) /\ run.mutations \in Nat
  BY RowsArePlanned
<1> DEFINE c == Conversation(run, m)
           t == Transcript(run, m)
           e == GraderEvals(run, m)
           a == Aggregate(run, m)
           mutations == Mutations(run, m, a)
<1>5. s \in ToSet(c) \/ s = t \/ s \in ToSet(e) \/ s = a \/ s \in ToSet(mutations)
  BY <1>3, <1>4, SamplePlanMembers
<1>6. CASE s \in ToSet(c)
  <2>1. s.type \in {"actor_turn", "theater_turn"}
    BY <1>3, <1>4, <1>6, SamplePlanKinds
  <2> QED BY <2>1 DEF IsJudging
<1>7. CASE s = t
  <2>1. t.type = "conversation_transcript"
    BY DEF Transcript, Local, Spec
  <2>2. s.type = "conversation_transcript"
    BY <1>7, <2>1, Zenon
  <2> QED BY <2>2 DEF IsJudging
<1>8. CASE s \in ToSet(e)
  <2>1. IsList(e) /\ Len(e) = run.assessments
    BY <1>3, <1>4, GraderEvalsOK DEF Block
  <2>2. s.type = "grader_eval"
    BY <1>3, <1>4, <1>8, SamplePlanKinds
  <2> HIDE DEF e
  <2>3. \E i \in 1..run.assessments : s = e[i]
    BY <1>8, <2>1, ListFacts
  <2> QED BY <2>2, <2>3 DEF IsJudging, e
<1>9. CASE s = a
  <2>1. a.type = "assessment_aggregate"
    BY DEF Aggregate, Local, Spec
  <2>2. s.type = "assessment_aggregate"
    BY <1>9, <2>1, Zenon
  <2> QED BY <1>9, <2>2 DEF IsJudging
<1>10. CASE s \in ToSet(mutations)
  <2>1. PICK operator \in ActiveOperators(run), i \in 0..(run.mutations - 1) :
           s = Proposal(m, operator, i, a) \/ s = Applied(m, operator, i, a)
    <3> HIDE DEF a, m
    <3> QED BY <1>4, <1>10, MutationsMembers
  <2>2. IsActive(run, operator)
    BY <1>2, ContentAssumption DEF ActiveOperators, Valid, IsActive
  <2> HIDE DEF a, m
  <2>3. CASE s = Proposal(m, operator, i, a)
    <3>1. s.type = "mutation_proposal" /\ s.parents = <<a>> /\ s.index[1] = operator
      BY <2>3 DEF Proposal, Local, Spec
    <3> QED BY <2>2, <3>1 DEF IsJudging, a, m
  <2>4. CASE s = Applied(m, operator, i, a)
    <3>1. s.type = "mutation_application"
      BY <2>4 DEF Applied, Local, Spec
    <3> QED BY <3>1 DEF IsJudging
  <2> QED BY <2>1, <2>3, <2>4
<1> QED BY <1>5, <1>6, <1>7, <1>8, <1>9, <1>10

LEMMA GraderFacts ==
  ASSUME NEW r, NEW sample, r.assessments \in Nat
  PROVE  /\ \A i \in 1..r.assessments :
               /\ GraderEvals(r, sample)[i].type = "grader_eval"
               /\ GraderEvals(r, sample)[i].sample = sample
               /\ GraderEvals(r, sample)[i].index = <<i - 1>>
         /\ \A i, j \in 1..r.assessments :
               GraderEvals(r, sample)[i] = GraderEvals(r, sample)[j] => i = j
         /\ IsList(GraderEvals(r, sample)) /\ Len(GraderEvals(r, sample)) = r.assessments
         /\ DOMAIN GraderEvals(r, sample) = 1..r.assessments
<1> DEFINE n == r.assessments
           e == GraderEvals(r, sample)
<1>1. /\ e = [i \in 1..n |-> e[i]]
      /\ \A i \in 1..n : /\ e[i].type = "grader_eval" /\ e[i].sample = sample
                         /\ e[i].index = <<i - 1>>
  BY DEF GraderEvals, Call, Spec
<1> HIDE DEF e
<1>2. ASSUME NEW i \in 1..n, NEW j \in 1..n, e[i] = e[j] PROVE i = j
  <2>1. <<i - 1>> = <<j - 1>>
    BY <1>1, <1>2
  <2>2. i - 1 = j - 1
    BY <2>1
  <2> QED BY <2>2
<1>3. IsList(e) /\ Len(e) = n /\ DOMAIN e = 1..n
  BY <1>1, Tabulated
<1> QED BY <1>1, <1>2, <1>3 DEF e

AnswersOf(r, out, sample) == [i \in 1..r.assessments |-> out[GraderEvals(r, sample)[i]].answer]

AggregateOf(r, out, sample) ==
    Aggregated(r.content.points, r.assessments, AnswersOf(r, out, sample))

\* Graders leave an answer, an aggregate is one of the recorded answers of
\* all graders of its sample, and the baseline proposes the weakest points of
\* the recorded aggregate.
SoundJudging(r, out, s, p) ==
    /\ r.content # NoContent
    /\ s.type = "grader_eval" => IsAnswer(p.answer)
    /\ s.type = "assessment_aggregate" =>
          /\ ToSet(GraderEvals(r, s.sample)) \subseteq DOMAIN out
          /\ p.aggregate = AggregateOf(r, out, s.sample)
    /\ (s.type = "mutation_proposal" /\ Config(s).implementation = DefaultOperator) =>
          /\ Aggregate(r, s.sample) \in DOMAIN out
          /\ p.proposal.operations[1].value.focus =
                WeakestPoints(out[Aggregate(r, s.sample)].aggregate, Config(s).focus)

JudgingInv ==
    /\ FlowInv
    /\ \A s \in DOMAIN attempts : attempts[s] \in Nat
    /\ \A s \in DOMAIN output : SoundJudging(run, output, s, output[s])
    /\ \A d \in drafts : SoundJudging(run, output, d.stage, d.payload)

LEMMA ClaimsFacts == (\A s \in DOMAIN attempts : attempts[s] \in Nat) => \A s : Claims(s) \in Nat
  BY DEF Claims, BagIn, BagToSet

LEMMA MoreClaims ==
  ASSUME \A s \in DOMAIN attempts : attempts[s] \in Nat, NEW s
  PROVE  \A x \in DOMAIN (attempts (+) SetToBag({s})) : (attempts (+) SetToBag({s}))[x] \in Nat
  BY DEF (+), SetToBag

LEMMA GraderJudges ==
  ASSUME NEW s, IsJudging(run, s), run \in Runs, run.content # NoContent,
         run.assessments \in Nat, s.type = "grader_eval", NEW attempt \in 1..run.content.attempts
  PROVE  IsAnswer(GraderPayload(s, attempt).answer)
<1>1. PICK i \in 1..run.assessments : s = GraderEvals(run, s.sample)[i]
  BY DEF IsJudging
<1>2. s.index = <<i - 1>>
  BY <1>1, GraderFacts
<1>3. s.index[1] + 1 = i
  BY <1>2
<1> DEFINE answer == run.content.answers[i][attempt]
<1>4. GraderPayload(s, attempt).answer = answer
  BY <1>3 DEF GraderPayload
<1>5. /\ answer.points \in Seq(ToSet(answer.points))
      /\ \A item \in ToSet(answer.points) : item.id \in Int
      /\ \/ answer.rating.form \in {"none", "nan"}
         \/ answer.rating.form = "number" /\ answer.rating.value \in Int
  BY ContentAssumption
<1> HIDE DEF answer
<1>6. IsPoints(answer.points)
  <2>1. IsList(answer.points)
    BY <1>5 DEF IsList
  <2> QED BY <1>5, <2>1, ListFacts DEF IsPoints
<1> QED BY <1>4, <1>5, <1>6 DEF IsAnswer

LEMMA AggregateJudges ==
  ASSUME NEW s, IsJudging(run, s), run.assessments \in Nat, s.type = "assessment_aggregate",
         ToSet(s.parents) \subseteq DOMAIN output
  PROVE  /\ ToSet(GraderEvals(run, s.sample)) \subseteq DOMAIN output
         /\ AggregatePayload(s).aggregate = AggregateOf(run, output, s.sample)
<1> DEFINE n == run.assessments
           e == GraderEvals(run, s.sample)
           answers == AnswersOf(run, output, s.sample)
           points == run.content.points
<1>1. s.parents = e
  <2>1. s = Aggregate(run, s.sample)
    BY DEF IsJudging
  <2>2. Aggregate(run, s.sample).parents = e
    BY DEF Aggregate, Local, Spec
  <2> QED BY <2>1, <2>2
<1>2. DOMAIN e = 1..n
  BY GraderFacts
<1>3. \A i \in 1..n : answers[i] = output[e[i]].answer
  BY DEF AnswersOf
<1> HIDE DEF e, answers, n
<1>4. [i \in DOMAIN s.parents |-> AssessmentRecord(points, output[s.parents[i]].answer)]
         = [i \in 1..n |-> AssessmentRecord(points, answers[i])]
  BY <1>1, <1>2, <1>3
<1>5. AggregatePayload(s).aggregate =
         AggregateAssessments([i \in DOMAIN s.parents |->
            AssessmentRecord(points, output[s.parents[i]].answer)])
  BY DEF AggregatePayload
<1>6. AggregatePayload(s).aggregate = Aggregated(points, n, answers)
  BY <1>4, <1>5 DEF Aggregated
<1> QED BY <1>1, <1>6 DEF AggregateOf, answers, n, e

LEMMA ProposalJudges ==
  ASSUME NEW s, IsJudging(run, s), s.type = "mutation_proposal",
         Config(s).implementation = DefaultOperator, ToSet(s.parents) \subseteq DOMAIN output
  PROVE  /\ Aggregate(run, s.sample) \in DOMAIN output
         /\ ProposalPayload(s).proposal.operations[1].value.focus =
               WeakestPoints(output[Aggregate(run, s.sample)].aggregate, Config(s).focus)
<1> DEFINE a == Aggregate(run, s.sample)
<1>1. s.parents = <<a>>
  BY DEF IsJudging
<1> HIDE DEF a
<1>2. a \in DOMAIN output /\ s.parents[1] = a
  BY <1>1, Singleton
<1>3. ProposalPayload(s).proposal = BaselineProposal(s)
  BY DEF ProposalPayload
<1>4. BaselineProposal(s).operations[1].value.focus =
         WeakestPoints(Parent(s).aggregate, Config(s).focus)
  BY DEF BaselineProposal
<1> QED BY <1>2, <1>3, <1>4 DEF Parent, a

LEMMA PayloadJudges ==
  ASSUME PlanInv, NEW s \in ToSet(rows), run.content # NoContent,
         ToSet(s.parents) \subseteq DOMAIN output, NEW attempt \in 1..run.content.attempts
  PROVE  SoundJudging(run, output, s, Payload(s, attempt))
<1>1. IsJudging(run, s) /\ run \in Runs /\ run.assessments \in Nat
  BY RowsJudge
<1>2. CASE s.type = "grader_eval"
  <2>1. Payload(s, attempt) = GraderPayload(s, attempt)
    BY <1>2 DEF Payload
  <2> QED BY <1>1, <1>2, <2>1, GraderJudges DEF SoundJudging
<1>3. CASE s.type = "assessment_aggregate"
  <2>1. Payload(s, attempt) = AggregatePayload(s)
    BY <1>3 DEF Payload
  <2> QED BY <1>1, <1>3, <2>1, AggregateJudges DEF SoundJudging
<1>4. CASE s.type = "mutation_proposal" /\ Config(s).implementation = DefaultOperator
  <2>1. Payload(s, attempt) = ProposalPayload(s)
    BY <1>4 DEF Payload
  <2>2. /\ Aggregate(run, s.sample) \in DOMAIN output
        /\ ProposalPayload(s).proposal.operations[1].value.focus =
               WeakestPoints(output[Aggregate(run, s.sample)].aggregate, Config(s).focus)
    BY <1>1, <1>4, ProposalJudges
  <2> QED BY <1>4, <2>1, <2>2 DEF SoundJudging
<1>5. CASE /\ s.type \notin {"grader_eval", "assessment_aggregate"}
           /\ ~(s.type = "mutation_proposal" /\ Config(s).implementation = DefaultOperator)
  BY <1>5 DEF SoundJudging
<1> QED BY <1>2, <1>3, <1>4, <1>5

\* What is recorded stays as it is, and so does what was computed from it.
LEMMA JudgingStays ==
  ASSUME NEW r, r.assessments \in Nat, NEW out, NEW more, Extends(out, more), NEW s, NEW p,
         SoundJudging(r, out, s, p)
  PROVE  SoundJudging(r, more, s, p)
<1>1. DOMAIN out \subseteq DOMAIN more /\ \A x \in DOMAIN out : more[x] = out[x]
  BY DEF Extends
<1>2. ASSUME s.type = "assessment_aggregate"
      PROVE  /\ ToSet(GraderEvals(r, s.sample)) \subseteq DOMAIN more
             /\ p.aggregate = AggregateOf(r, more, s.sample)
  <2> DEFINE e == GraderEvals(r, s.sample)
             n == r.assessments
  <2>1. ToSet(e) \subseteq DOMAIN out /\ p.aggregate = AggregateOf(r, out, s.sample)
    BY <1>2 DEF SoundJudging
  <2>2. \A i \in 1..n : e[i] \in ToSet(e)
    <3>1. IsList(e) /\ Len(e) = n
      BY GraderFacts
    <3> HIDE DEF e
    <3> QED BY <3>1, ListFacts
  <2> HIDE DEF e, n
  <2>3. \A i \in 1..n : more[e[i]].answer = out[e[i]].answer
    BY <1>1, <2>1, <2>2
  <2>4. [i \in 1..n |-> more[e[i]].answer] = [i \in 1..n |-> out[e[i]].answer]
    BY <2>3
  <2>5. AnswersOf(r, more, s.sample) = AnswersOf(r, out, s.sample)
    BY <2>4 DEF AnswersOf, e, n
  <2>6. AggregateOf(r, more, s.sample) = AggregateOf(r, out, s.sample)
    BY <2>5 DEF AggregateOf
  <2> QED BY <1>1, <2>1, <2>6 DEF e
<1>3. ASSUME s.type = "mutation_proposal", Config(s).implementation = DefaultOperator
      PROVE  /\ Aggregate(r, s.sample) \in DOMAIN more
             /\ p.proposal.operations[1].value.focus =
                   WeakestPoints(more[Aggregate(r, s.sample)].aggregate, Config(s).focus)
  <2> DEFINE a == Aggregate(r, s.sample)
  <2>1. /\ a \in DOMAIN out
        /\ p.proposal.operations[1].value.focus
              = WeakestPoints(out[a].aggregate, Config(s).focus)
    BY <1>3 DEF SoundJudging
  <2> HIDE DEF a
  <2>2. more[a] = out[a] /\ a \in DOMAIN more
    BY <1>1, <2>1
  <2> QED BY <2>1, <2>2 DEF a
<1>4. r.content # NoContent /\ (s.type = "grader_eval" => IsAnswer(p.answer))
  BY DEF SoundJudging
<1> QED BY <1>2, <1>3, <1>4 DEF SoundJudging

LEMMA JudgingInvInit == FlowInit => JudgingInv
<1>1. DOMAIN << >> = {}
  OBVIOUS
<1>2. DOMAIN EmptyBag = {}
  BY DEF EmptyBag, SetToBag
<1> QED BY <1>1, <1>2, FlowInvInit DEF FlowInit, JudgingInv

LEMMA AttemptKeepsJudging ==
  ASSUME JudgingInv, FlowInv', NEW s \in ToSet(rows), Attempt(s), UNCHANGED vars
  PROVE  JudgingInv'
<1>1. run' = run /\ output' = output /\ attempts' = attempts (+) SetToBag({s})
  BY DEF vars, Attempt
<1>2. \A x \in DOMAIN attempts' : attempts'[x] \in Nat
  BY <1>1, MoreClaims DEF JudgingInv
<1> DEFINE attempt == Claims(s) + 1
<1>3. /\ attempt <= run.content.attempts /\ run.content # NoContent
      /\ ToSet(s.parents) \subseteq DOMAIN output
      /\ drafts' \subseteq drafts \cup {[stage |-> s, attempt |-> attempt,
                                         payload |-> Payload(s, attempt)]}
  BY DEF Attempt, Claimable
<1>4. attempt \in 1..run.content.attempts
  <2>1. PlanInv
    BY DEF JudgingInv, FlowInv
  <2>2. run.content.attempts \in Nat
    BY <1>3, <2>1, RowsJudge, ContentAssumption
  <2>3. Claims(s) \in Nat
    BY ClaimsFacts DEF JudgingInv
  <2> QED BY <1>3, <2>2, <2>3
<1> HIDE DEF attempt
<1>5. SoundJudging(run, output, s, Payload(s, attempt))
  BY <1>3, <1>4, PayloadJudges DEF JudgingInv, FlowInv
<1>6. ASSUME NEW d \in drafts' PROVE SoundJudging(run, output, d.stage, d.payload)
  <2>1. CASE d \in drafts
    BY <2>1 DEF JudgingInv
  <2>2. CASE d = [stage |-> s, attempt |-> attempt, payload |-> Payload(s, attempt)]
    <3>1. d.stage = s /\ d.payload = Payload(s, attempt)
      BY <2>2
    <3> QED BY <1>5, <3>1
  <2> QED BY <1>3, <2>1, <2>2
<1> QED BY <1>1, <1>2, <1>6 DEF JudgingInv

LEMMA CompleteKeepsJudging ==
  ASSUME JudgingInv, FlowInv', NEW d \in drafts, Complete(d), UNCHANGED vars
  PROVE  JudgingInv'
<1>1. /\ run' = run /\ attempts' = attempts /\ output' = With(output, d)
      /\ drafts' \subseteq drafts
  BY DEF vars, Complete
<1>2. /\ DOMAIN output' = DOMAIN output \cup {d.stage}
      /\ output'[d.stage] = d.payload
      /\ Extends(output, output')
  BY <1>1, Recorded DEF Complete
<1>3. run.assessments \in Nat
  BY RowsJudge DEF JudgingInv, FlowInv
<1>4. ASSUME NEW s, NEW p, SoundJudging(run, output, s, p)
      PROVE  SoundJudging(run, output', s, p)
  BY <1>2, <1>3, <1>4, JudgingStays
<1>5. ASSUME NEW s \in DOMAIN output' PROVE SoundJudging(run, output', s, output'[s])
  <2>1. CASE s = d.stage
    BY <1>2, <1>4, <2>1 DEF JudgingInv
  <2>2. CASE s \in DOMAIN output
    <3>1. output'[s] = output[s]
      BY <1>2, <2>2 DEF Extends
    <3> QED BY <1>4, <2>2, <3>1 DEF JudgingInv
  <2> QED BY <1>2, <2>1, <2>2
<1>6. \A e \in drafts' : SoundJudging(run, output', e.stage, e.payload)
  BY <1>1, <1>4 DEF JudgingInv
<1> QED BY <1>1, <1>5, <1>6 DEF JudgingInv

LEMMA JudgingInvNext == JudgingInv /\ [FlowNext]_<<vars, flowVars>> => JudgingInv'
<1> SUFFICES ASSUME JudgingInv, [FlowNext]_<<vars, flowVars>> PROVE JudgingInv'
  OBVIOUS
<1>1. FlowInv'
  BY FlowInvNext DEF JudgingInv
<1>2. CASE [Next]_vars /\ UNCHANGED flowVars
  <2>1. run' = run
    BY <1>2 DEF Next, Reject, PlanMissingStages, AddNext, vars
  <2> QED BY <1>1, <1>2, <2>1 DEF JudgingInv, flowVars
<1>3. ASSUME NEW s \in ToSet(rows), Attempt(s), UNCHANGED vars PROVE JudgingInv'
  BY <1>1, <1>3, AttemptKeepsJudging
<1>4. ASSUME NEW s \in ToSet(rows), FailTerminally(s), UNCHANGED vars PROVE JudgingInv'
  <2>1. /\ run' = run /\ output' = output /\ drafts' = drafts
        /\ attempts' = attempts (+) SetToBag({s})
    BY <1>4 DEF vars, FailTerminally
  <2>2. \A x \in DOMAIN attempts' : attempts'[x] \in Nat
    BY <2>1, MoreClaims DEF JudgingInv
  <2> QED BY <1>1, <2>1, <2>2 DEF JudgingInv
<1>5. ASSUME NEW d \in drafts, Complete(d), UNCHANGED vars PROVE JudgingInv'
  BY <1>1, <1>5, CompleteKeepsJudging
<1> QED BY <1>2, <1>3, <1>4, <1>5 DEF FlowNext

LEMMA JudgingInvariant == FlowSpec => []JudgingInv
  BY JudgingInvInit, JudgingInvNext, PTL DEF FlowSpec

-----------------------------------------------------------------------------
(* The aggregate of a sample.                                              *)

Pairs(n, e, answers) == {<<e[i], answers[i]>> : i \in 1..n}

PairsIn(n, e, answers, Y) == {a \in Pairs(n, e, answers) : a[2] \in Y}

AnswersIn(n, answers, Y) == {i \in 1..n : answers[i] \in Y}

\* Pairs of stages, all different, and answers are as many as the stages.
LEMMA PairsCount ==
  ASSUME NEW n \in Nat, NEW e, \A i, j \in 1..n : e[i] = e[j] => i = j, NEW answers,
         NEW Y
  PROVE  Cardinality(PairsIn(n, e, answers, Y)) = Cardinality(AnswersIn(n, answers, Y))
<1> DEFINE D == {i \in 1..n : answers[i] \in Y}
           T == {a \in {<<e[i], answers[i]>> : i \in 1..n} : a[2] \in Y}
           f == [i \in D |-> <<e[i], answers[i]>>]
<1>1. D \in SUBSET (1..n)
  OBVIOUS
<1>2. IsFiniteSet(D)
  <2>1. IsFiniteSet(1..n)
    BY FS_Interval
  <2> HIDE DEF D
  <2> QED BY <1>1, <2>1, FS_Subset
<1>3. f \in Injection(D, T)
  <2>1. \A i \in D : f[i] \in T
    OBVIOUS
  <2>2. ASSUME NEW i \in D, NEW j \in D, f[i] = f[j] PROVE i = j
    BY <2>2
  <2> HIDE DEF D, T
  <2> QED BY <2>1, <2>2 DEF Injection, IsInjective
<1>4. \A a \in T : \E i \in D : f[i] = a
  OBVIOUS
<1> HIDE DEF D, T, f
<1>5. f \in Bijection(D, T)
  BY <1>3, <1>4 DEF Bijection, Injection, Surjection
<1>6. ExistsBijection(D, T)
  BY <1>5 DEF ExistsBijection
<1>7. Cardinality(T) = Cardinality(D)
  BY <1>2, <1>6, FS_Bijection
<1> QED BY <1>7 DEF D, T, PairsIn, AnswersIn, Pairs

LEMMA SampleGraders ==
  ASSUME JudgingInv, NEW sample, run.assessments \in Nat,
         ToSet(GraderEvals(run, sample)) \subseteq DOMAIN output
  PROVE  LET answers == AnswersOf(run, output, sample)
         IN  /\ GraderAnswers(sample) = Pairs(run.assessments, GraderEvals(run, sample), answers)
             /\ \A i \in 1..run.assessments : IsAnswer(answers[i])
<1> DEFINE n == run.assessments
           e == GraderEvals(run, sample)
           answers == AnswersOf(run, output, sample)
           G == {g \in Succeeded("grader_eval") : g.sample = sample}
<1>1. /\ \A i \in 1..n : e[i].type = "grader_eval" /\ e[i].sample = sample
      /\ IsList(e) /\ Len(e) = n
  BY GraderFacts
<1>2. \A i \in 1..n : answers[i] = output[e[i]].answer
  BY DEF AnswersOf
<1>3. ASSUME NEW g \in G PROVE \E i \in 1..n : g = e[i]
  <2>1. g \in DOMAIN output /\ g.type = "grader_eval" /\ g.sample = sample
    BY DEF Succeeded
  <2>2. g \in ToSet(rows) /\ PlanInv
    BY <2>1 DEF JudgingInv, FlowInv
  <2>3. IsJudging(run, g)
    BY <2>2, RowsJudge
  <2> QED BY <2>1, <2>3 DEF IsJudging
<1> HIDE DEF e, answers
<1>4. \A i \in 1..n : e[i] \in DOMAIN output
  <2>1. ToSet(e) = {e[i] : i \in 1..n}
    BY <1>1, ListFacts
  <2> QED BY <2>1 DEF e
<1>5. \A i \in 1..n : e[i] \in G
  BY <1>1, <1>4 DEF Succeeded
<1>6. GraderAnswers(sample) = {<<s, output[s].answer>> : s \in G}
  BY DEF GraderAnswers
<1> HIDE DEF G
<1>7. {<<s, output[s].answer>> : s \in G} = {<<e[i], answers[i]>> : i \in 1..n}
  <2>1. ASSUME NEW s \in G
        PROVE  <<s, output[s].answer>> \in {<<e[i], answers[i]>> : i \in 1..n}
    <3>1. PICK i \in 1..n : s = e[i]
      BY <1>3
    <3>2. output[s].answer = answers[i]
      BY <1>2, <3>1
    <3> QED BY <3>1, <3>2
  <2>2. ASSUME NEW i \in 1..n
        PROVE  <<e[i], answers[i]>> \in {<<s, output[s].answer>> : s \in G}
    BY <1>2, <1>5
  <2> QED BY <2>1, <2>2
<1>8. \A i \in 1..n : IsAnswer(answers[i])
  BY <1>1, <1>2, <1>4 DEF JudgingInv, SoundJudging
<1> QED BY <1>6, <1>7, <1>8 DEF Pairs, e, answers

\* What the record of a sample says, in terms of the answers of its graders.
LEMMA SampleTally ==
  ASSUME NEW sample, NEW n \in Nat, NEW e, \A i, j \in 1..n : e[i] = e[j] => i = j,
         NEW answers, GraderAnswers(sample) = Pairs(n, e, answers),
         IsList(run.content.points), NEW id, NEW status
  PROVE  ExpectedTally(sample, id, status)
            = Expected(run.content.points, n, answers, id, status)
<1> DEFINE all == GraderAnswers(sample)
           A == {answers[i] : i \in 1..n}
           Y == {a \in A : Says(a, id, status)}
           Z == {a \in A : Mentions(a, id)}
           heard == {a \in all : Mentions(a[2], id)}
           saying == {a \in heard : Status(Under(id, JudgedPoints(a[2])).status) = status}
           copies == Cardinality({i \in DOMAIN run.content.points :
                                     run.content.points[i].id = id})
<1>1. all = {<<e[i], answers[i]>> : i \in 1..n}
  BY DEF Pairs
<1>2. \A a \in all : a[2] \in A
  <2> HIDE DEF all
  <2> QED BY <1>1
<1> HIDE DEF all
<1>3. heard = {a \in all : a[2] \in Z} /\ saying = {a \in all : a[2] \in Y}
      /\ all = {a \in all : a[2] \in A}
  BY <1>2 DEF Says
<1>4. /\ {i \in 1..n : answers[i] \in Z} = {i \in 1..n : Mentions(answers[i], id)}
      /\ {i \in 1..n : answers[i] \in Y} = {i \in 1..n : Says(answers[i], id, status)}
      /\ {i \in 1..n : answers[i] \in A} = 1..n
  OBVIOUS
<1> HIDE DEF heard, saying, A, Y, Z
<1>5. ASSUME NEW W
      PROVE  Cardinality({a \in all : a[2] \in W}) = Cardinality({i \in 1..n : answers[i] \in W})
  <2>1. Cardinality(PairsIn(n, e, answers, W)) = Cardinality(AnswersIn(n, answers, W))
    BY PairsCount
  <2> QED BY <2>1, Zenon DEF PairsIn, AnswersIn, all
<1>6. Cardinality(heard) = Heard(n, answers, id)
  BY <1>3, <1>4, <1>5 DEF Heard
<1>7. Cardinality(saying) = Saying(n, answers, id, status)
  BY <1>3, <1>4, <1>5 DEF Saying
<1>8. Cardinality(all) = n
  <2>1. Cardinality(1..n) = IF 1 > n THEN 0 ELSE n - 1 + 1
    BY FS_Interval
  <2>2. Cardinality(all) = Cardinality(1..n)
    BY <1>3, <1>4, <1>5
  <2> QED BY <2>1, <2>2
<1>9. copies = Cardinality(Copies(run.content.points, id))
  BY DEF Copies
<1>10. copies = 0 <=> Copies(run.content.points, id) = {}
  BY <1>9, CopiesFacts, FS_EmptySet
<1>11. ExpectedTally(sample, id, status) =
          Cardinality(saying)
            + IF status = "missing"
              THEN IF copies = 0 THEN 0 ELSE copies * Cardinality(all) - Cardinality(heard)
              ELSE 0
  BY DEF ExpectedTally, saying, heard, all
<1> HIDE DEF copies
<1>12. (IF copies = 0 THEN 0 ELSE copies * n - Heard(n, answers, id))
          = Unheard(run.content.points, n, answers, id)
  BY <1>9, <1>10 DEF Unheard
<1> QED BY <1>6, <1>7, <1>8, <1>11, <1>12 DEF Expected

LEMMA SampleIds ==
  ASSUME NEW sample, NEW n \in Nat, NEW e, NEW answers,
         GraderAnswers(sample) = Pairs(n, e, answers)
  PROVE  PointIds(sample) = IdsOf(run.content.points, n, answers)
<1> DEFINE all == GraderAnswers(sample)
           given(a) == ToSet(Ids(JudgedPoints(a)))
<1>1. all = {<<e[i], answers[i]>> : i \in 1..n}
  BY DEF Pairs
<1>2. PointIds(sample) = ToSet(Ids(run.content.points)) \cup UNION {given(a[2]) : a \in all}
  BY DEF PointIds
<1>3. IdsOf(run.content.points, n, answers) =
         ToSet(Ids(run.content.points)) \cup UNION {given(answers[i]) : i \in 1..n}
  BY DEF IdsOf
<1> HIDE DEF all, given
<1>4. {given(a[2]) : a \in all} = {given(answers[i]) : i \in 1..n}
  <2>1. ASSUME NEW a \in all PROVE given(a[2]) \in {given(answers[i]) : i \in 1..n}
    BY <1>1
  <2>2. ASSUME NEW i \in 1..n PROVE given(answers[i]) \in {given(a[2]) : a \in all}
    <3>1. <<e[i], answers[i]>> \in all /\ <<e[i], answers[i]>>[2] = answers[i]
      BY <1>1
    <3> QED BY <3>1
  <2> QED BY <2>1, <2>2
<1> QED BY <1>2, <1>3, <1>4

\* The aggregate of a sample and the record agree.
IsAggregateOf(aggregate, sample, points, n, answers) ==
    /\ IsAggregate(aggregate, points, n, answers)
    /\ PointIds(sample) = IdsOf(points, n, answers)
    /\ \A id, status :
          ExpectedTally(sample, id, status) = Expected(points, n, answers, id, status)
    /\ PointIds(sample) \subseteq Int

LEMMA SampleAggregate ==
  ASSUME JudgingInv, NEW s \in DOMAIN output, s.type = "assessment_aggregate"
  PROVE  /\ \E answers : IsAggregateOf(output[s].aggregate, s.sample, run.content.points,
                                       run.assessments, answers)
         /\ s = Aggregate(run, s.sample)
<1> DEFINE m == s.sample
           n == run.assessments
           e == GraderEvals(run, m)
           answers == AnswersOf(run, output, m)
           points == run.content.points
<1>1. PlanInv /\ s \in ToSet(rows) /\ SoundJudging(run, output, s, output[s])
  BY DEF JudgingInv, FlowInv
<1>2. IsJudging(run, s) /\ run \in Runs /\ n \in Nat /\ n # 0
  BY <1>1, RowsJudge
<1>3. /\ run.content # NoContent
      /\ ToSet(e) \subseteq DOMAIN output
      /\ output[s].aggregate = Aggregated(points, n, answers)
  BY <1>1 DEF SoundJudging, AggregateOf
<1>4. IsPoints(points)
  <2>1. points \in Seq(ToSet(points)) /\ \A point \in ToSet(points) : point.id \in Int
    BY <1>2, <1>3, ContentAssumption
  <2> HIDE DEF points
  <2>2. IsList(points)
    BY <2>1 DEF IsList
  <2> QED BY <2>1, <2>2, ListFacts DEF IsPoints
<1>5. GraderAnswers(m) = Pairs(n, e, answers) /\ \A i \in 1..n : IsAnswer(answers[i])
  <2> HIDE DEF m
  <2> QED BY <1>2, <1>3, SampleGraders
<1>6. \A i, j \in 1..n : e[i] = e[j] => i = j
  BY <1>2, GraderFacts
<1>7. s = Aggregate(run, m)
  BY <1>2 DEF IsJudging
<1> HIDE DEF m, e, answers, n
<1>8. IsAggregate(output[s].aggregate, points, n, answers)
  BY <1>2, <1>3, <1>4, <1>5, AggregateFacts
<1>9. PointIds(m) = IdsOf(points, n, answers)
  BY <1>2, <1>5, SampleIds
<1>10. \A id, status : ExpectedTally(m, id, status) = Expected(points, n, answers, id, status)
  <2>1. IsList(points)
    BY <1>4 DEF IsPoints
  <2> SUFFICES ASSUME NEW id, NEW status
               PROVE  ExpectedTally(m, id, status) = Expected(points, n, answers, id, status)
    OBVIOUS
  <2> QED BY <1>2, <1>5, <1>6, <2>1, SampleTally
<1>11. IdsOf(points, n, answers) \subseteq Int
  <2>1. ASSUME NEW list, IsPoints(list) PROVE ToSet(Ids(list)) \subseteq Int
    <3>1. ToSet(Ids(list)) = {list[i].id : i \in 1..Len(list)}
      BY <2>1, IdsFacts DEF IsPoints
    <3> QED BY <2>1, <3>1 DEF IsPoints
  <2>2. \A i \in 1..n : ToSet(Ids(JudgedPoints(answers[i]))) \subseteq Int
    BY <1>5, <2>1, JudgedPointsFacts
  <2>3. ToSet(Ids(points)) \subseteq Int
    BY <1>4, <2>1
  <2> HIDE DEF points
  <2> QED BY <2>2, <2>3 DEF IdsOf
<1>12. IsAggregateOf(output[s].aggregate, m, points, n, answers)
  BY <1>8, <1>9, <1>10, <1>11 DEF IsAggregateOf
<1> HIDE DEF points
<1>13. \E a : IsAggregateOf(output[s].aggregate, m, points, n, a)
  BY <1>12
<1> QED BY <1>7, <1>13 DEF m, n, points

\* With any number of graders, whatever they say: no answer is lost or
\* counted twice on its way into the aggregate of its sample, and none of
\* another sample gets in.
THEOREM AggregatesAreComplete == FlowSpec => []AggregateCountsEveryGrader
<1>1. ASSUME JudgingInv PROVE AggregateCountsEveryGrader
  <2> SUFFICES ASSUME NEW s \in Succeeded("assessment_aggregate")
               PROVE  LET aggregate == output[s].aggregate
                          points == ToSet(aggregate.points)
                      IN  /\ aggregate.count = run.assessments
                          /\ {p.id : p \in points} = PointIds(s.sample)
                          /\ Len(aggregate.points) = Cardinality(PointIds(s.sample))
                          /\ \A p \in points : \A status \in Statuses :
                                p.tally[status] = ExpectedTally(s.sample, p.id, status)
                          /\ aggregate.rated <= run.assessments
                          /\ aggregate.ratings \in 0..(100 * aggregate.rated)
    BY DEF AggregateCountsEveryGrader
  <2> DEFINE aggregate == output[s].aggregate
             list == aggregate.points
             m == s.sample
  <2>1. PICK answers : IsAggregateOf(aggregate, m, run.content.points, run.assessments, answers)
    BY <1>1, SampleAggregate DEF Succeeded
  <2> HIDE DEF aggregate, m
  <2>2. \A p \in ToSet(list) : \A status \in Statuses :
           p.tally[status] = ExpectedTally(m, p.id, status)
    <3>1. /\ IsList(list)
          /\ \A i \in 1..Len(list) : IsOutcome(list[i], run.content.points, run.assessments, answers)
      BY <2>1 DEF IsAggregateOf, IsAggregate
    <3>2. ToSet(list) = {list[i] : i \in 1..Len(list)}
      BY <3>1, ListFacts
    <3> QED BY <2>1, <3>1, <3>2 DEF IsAggregateOf, IsOutcome
  <2>3. /\ aggregate.count = run.assessments
        /\ {p.id : p \in ToSet(list)} = PointIds(m)
        /\ Len(list) = Cardinality(PointIds(m))
        /\ aggregate.rated <= run.assessments
        /\ aggregate.ratings \in 0..(100 * aggregate.rated)
    BY <2>1 DEF IsAggregateOf, IsAggregate
  <2> QED BY <2>2, <2>3 DEF aggregate, m
<1> QED BY <1>1, JudgingInvariant, PTL

-----------------------------------------------------------------------------
(* The weakest points.                                                     *)

LEMMA StrictProducts ==
  ASSUME NEW x \in Int, NEW y \in Int, NEW z \in Nat \ {0}, x < y
  PROVE  x * z < y * z
<1>1. (x + 1) * z <= y * z
  BY Products
<1>2. (x + 1) * z = x * z + z
  OBVIOUS
<1>3. x * z \in Int /\ y * z \in Int
  OBVIOUS
<1> QED BY <1>1, <1>2, <1>3

\* a/m <= b/n <= c/k
LEMMA Fractions ==
  ASSUME NEW a \in Int, NEW b \in Int, NEW c \in Int,
         NEW m \in Nat \ {0}, NEW n \in Nat \ {0}, NEW k \in Nat \ {0},
         a * n <= b * m, b * k <= c * n
  PROVE  /\ a * k <= c * m
         /\ a * k = c * m => a * n = b * m /\ b * k = c * n
<1>1. /\ a * n \in Int /\ b * m \in Int /\ b * k \in Int /\ c * n \in Int
      /\ a * k \in Int /\ c * m \in Int
  OBVIOUS
<1>2. (a * n) * k = (a * k) * n /\ (b * m) * k = (b * k) * m /\ (c * n) * m = (c * m) * n
  OBVIOUS
<1> DEFINE an == a * n
           bm == b * m
           bk == b * k
           cn == c * n
           ak == a * k
           cm == c * m
<1> HIDE DEF an, bm, bk, cn, ak, cm
<1>3. /\ an \in Int /\ bm \in Int /\ bk \in Int /\ cn \in Int /\ ak \in Int /\ cm \in Int
      /\ an <= bm /\ bk <= cn
      /\ an * k = ak * n /\ bm * k = bk * m /\ cn * m = cm * n
  BY <1>1, <1>2 DEF an, bm, bk, cn, ak, cm
<1>4. an * k <= bm * k /\ bk * m <= cn * m
  BY <1>3, Products
<1>5. an * k \in Int /\ bm * k \in Int /\ cn * m \in Int /\ ak * n \in Int /\ cm * n \in Int
  BY <1>3
<1>6. ak * n <= cm * n
  BY <1>3, <1>4, <1>5
<1>7. ak <= cm
  <2> SUFFICES ASSUME cm < ak PROVE FALSE
    BY <1>3
  <2>1. cm * n < ak * n
    BY <1>3, StrictProducts
  <2> QED BY <1>5, <1>6, <2>1
<1>8. ASSUME ak = cm PROVE an = bm /\ bk = cn
  <2>1. an * k = bm * k /\ bk * m = cn * m
    BY <1>3, <1>4, <1>5, <1>8
  <2>2. ~(an < bm)
    <3> SUFFICES ASSUME an < bm PROVE FALSE
      OBVIOUS
    <3>1. an * k < bm * k
      BY <1>3, StrictProducts
    <3> QED BY <1>5, <2>1, <3>1
  <2>3. ~(bk < cn)
    <3> SUFFICES ASSUME bk < cn PROVE FALSE
      OBVIOUS
    <3>1. bk * m < cn * m
      BY <1>3, StrictProducts
    <3> QED BY <1>3, <1>5, <2>1, <3>1
  <2> QED BY <1>3, <2>2, <2>3
<1> QED BY <1>7, <1>8 DEF an, bm, bk, cn, ak, cm

IsScored(p) ==
    p.id \in Int /\ p.count \in Nat \ {0} /\ p.score \in Nat /\ Found(p) \in Nat

\* Weaker orders points whose ids differ.
LEMMA WeakerOrders ==
  /\ \A p : IsScored(p) => ~Weaker(p, p)
  /\ \A p, q : IsScored(p) /\ IsScored(q) /\ p.id # q.id => Weaker(p, q) \/ Weaker(q, p)
  /\ \A p, q, r : IsScored(p) /\ IsScored(q) /\ IsScored(r) /\ Weaker(p, q) /\ Weaker(q, r)
                     => Weaker(p, r)
  /\ \A p, q : IsScored(p) /\ IsScored(q) /\ Weaker(p, q)
                  => p.score * q.count <= q.score * p.count
<1>1. ASSUME NEW p, NEW q, IsScored(p), IsScored(q)
      PROVE  /\ p.score * q.count \in Int /\ q.score * p.count \in Int
             /\ Found(p) * q.count \in Int /\ Found(q) * p.count \in Int
             /\ Weaker(p, q) <=>
                   \/ p.score * q.count < q.score * p.count
                   \/ /\ p.score * q.count = q.score * p.count
                      /\ Found(p) * q.count < Found(q) * p.count
                   \/ /\ p.score * q.count = q.score * p.count
                      /\ Found(p) * q.count = Found(q) * p.count
                      /\ p.id < q.id
  <2> DEFINE a == p.score * q.count
             b == q.score * p.count
             c == Found(p) * q.count
             d == Found(q) * p.count
  <2>1. a \in Int /\ b \in Int /\ c \in Int /\ d \in Int
    BY <1>1 DEF IsScored
  <2>2. Weaker(p, q) <=> \/ a - b < 0
                         \/ a - b = 0 /\ c - d < 0
                         \/ a - b = 0 /\ c - d = 0 /\ p.id < q.id
    BY DEF Weaker
  <2> HIDE DEF a, b, c, d
  <2>3. Weaker(p, q) <=> \/ a < b
                         \/ a = b /\ c < d
                         \/ a = b /\ c = d /\ p.id < q.id
    BY <2>1, <2>2
  <2> QED BY <2>1, <2>3 DEF a, b, c, d
<1>2. ASSUME NEW p, IsScored(p) PROVE ~Weaker(p, p)
  BY <1>1, <1>2 DEF IsScored
<1>3. ASSUME NEW p, NEW q, IsScored(p), IsScored(q), p.id # q.id
      PROVE  Weaker(p, q) \/ Weaker(q, p)
  <2> DEFINE a == p.score * q.count
             b == q.score * p.count
             c == Found(p) * q.count
             d == Found(q) * p.count
  <2>1. a \in Int /\ b \in Int /\ c \in Int /\ d \in Int /\ p.id \in Int /\ q.id \in Int
    BY <1>1, <1>3 DEF IsScored
  <2>2. Weaker(p, q) <=> a < b \/ (a = b /\ c < d) \/ (a = b /\ c = d /\ p.id < q.id)
    BY <1>1, <1>3
  <2>3. Weaker(q, p) <=> b < a \/ (b = a /\ d < c) \/ (b = a /\ d = c /\ q.id < p.id)
    BY <1>1, <1>3
  <2> HIDE DEF a, b, c, d
  <2> QED BY <1>3, <2>1, <2>2, <2>3
<1>4. ASSUME NEW p, NEW q, NEW r, IsScored(p), IsScored(q), IsScored(r),
             Weaker(p, q), Weaker(q, r)
      PROVE  Weaker(p, r)
  <2>1. /\ p.score \in Int /\ q.score \in Int /\ r.score \in Int
        /\ Found(p) \in Int /\ Found(q) \in Int /\ Found(r) \in Int
        /\ p.count \in Nat \ {0} /\ q.count \in Nat \ {0} /\ r.count \in Nat \ {0}
        /\ p.id \in Int /\ q.id \in Int /\ r.id \in Int
    BY <1>4 DEF IsScored
  <2>2. p.score * q.count <= q.score * p.count /\ q.score * r.count <= r.score * q.count
    BY <1>1, <1>4
  <2>3. /\ p.score * r.count <= r.score * p.count
        /\ p.score * r.count = r.score * p.count =>
              /\ p.score * q.count = q.score * p.count
              /\ q.score * r.count = r.score * q.count
    BY <2>1, <2>2, Fractions
  <2>4. CASE p.score * r.count # r.score * p.count
    BY <1>1, <1>4, <2>3, <2>4
  <2>5. CASE p.score * r.count = r.score * p.count
    <3>1. /\ p.score * q.count = q.score * p.count
          /\ q.score * r.count = r.score * q.count
      BY <2>3, <2>5
    <3>2. /\ Found(p) * q.count <= Found(q) * p.count
          /\ Found(q) * r.count <= Found(r) * q.count
      BY <1>1, <1>4, <3>1
    <3>3. /\ Found(p) * r.count <= Found(r) * p.count
          /\ Found(p) * r.count = Found(r) * p.count =>
                /\ Found(p) * q.count = Found(q) * p.count
                /\ Found(q) * r.count = Found(r) * q.count
      <4> DEFINE a == Found(p)
                 b == Found(q)
                 c == Found(r)
                 m == p.count
                 n == q.count
                 k == r.count
      <4>1. /\ a \in Int /\ b \in Int /\ c \in Int
            /\ m \in Nat \ {0} /\ n \in Nat \ {0} /\ k \in Nat \ {0}
            /\ a * n <= b * m /\ b * k <= c * n
        BY <2>1, <3>2
      <4> HIDE DEF a, b, c, m, n, k
      <4>2. a * k <= c * m /\ (a * k = c * m => a * n = b * m /\ b * k = c * n)
        BY <4>1, Fractions
      <4> QED BY <4>2 DEF a, b, c, m, n, k
    <3>6. /\ Found(p) * q.count = Found(q) * p.count => p.id < q.id
          /\ Found(q) * r.count = Found(r) * q.count => q.id < r.id
      BY <1>1, <1>4, <3>1
    <3>4. Found(p) * r.count = Found(r) * p.count => p.id < r.id
      BY <2>1, <3>6, <3>3
    <3>5. Found(p) * r.count \in Int /\ Found(r) * p.count \in Int
      BY <1>1, <1>4
    <3> QED BY <1>1, <1>4, <2>5, <3>3, <3>4, <3>5
  <2> QED BY <2>4, <2>5
<1>5. ASSUME NEW p, NEW q, IsScored(p), IsScored(q), Weaker(p, q)
      PROVE  p.score * q.count <= q.score * p.count
  BY <1>1, <1>5
<1> QED BY <1>2, <1>3, <1>4, <1>5

AreScored(points) ==
    /\ IsFiniteSet(points)
    /\ \A p \in points : IsScored(p)
    /\ \A p, q \in points : p.id = q.id => p = q

Before(points, p) == {q \in points : Weaker(q, p)}

\* Counting the points before each gives its place.
LEMMA PlacesFromWeakest ==
  ASSUME NEW points, AreScored(points)
  PROVE  \E list \in [1..Cardinality(points) -> points] :
            \A i, j \in DOMAIN list : i < j => Weaker(list[i], list[j])
<1> DEFINE n == Cardinality(points)
           place == [p \in points |-> Cardinality(Before(points, p)) + 1]
           list == [k \in 1..n |-> CHOOSE p \in points : place[p] = k]
<1>1. /\ IsFiniteSet(points)
      /\ \A p \in points : ~Weaker(p, p)
      /\ \A p, q \in points : p = q \/ Weaker(p, q) \/ Weaker(q, p)
      /\ \A p, q, r \in points : Weaker(p, q) /\ Weaker(q, r) => Weaker(p, r)
  BY WeakerOrders DEF AreScored
<1>2. n \in Nat
  BY <1>1, FS_CardinalityType
<1>3. ASSUME NEW p \in points
      PROVE  /\ IsFiniteSet(Before(points, p)) /\ Cardinality(Before(points, p)) \in Nat
             /\ Cardinality(Before(points, p)) + 1 <= n
  <2>1. IsFiniteSet(points \ {p}) /\ Cardinality(points \ {p}) = n - 1
    BY <1>1, <1>3, FS_RemoveElement
  <2>2. Before(points, p) \in SUBSET (points \ {p})
    BY <1>1, <1>3 DEF Before
  <2>3. /\ IsFiniteSet(Before(points, p))
        /\ Cardinality(Before(points, p)) <= Cardinality(points \ {p})
    BY <2>1, <2>2, FS_Subset
  <2>4. Cardinality(Before(points, p)) \in Nat
    BY <2>3, FS_CardinalityType
  <2> HIDE DEF n
  <2> QED BY <1>2, <2>1, <2>3, <2>4
<1>4. ASSUME NEW p \in points, NEW q \in points, Weaker(p, q)
      PROVE  Cardinality(Before(points, p)) < Cardinality(Before(points, q))
  <2>1. Before(points, p) \in SUBSET Before(points, q)
    BY <1>1, <1>4 DEF Before
  <2>2. p \in Before(points, q) /\ p \notin Before(points, p)
    BY <1>1, <1>4 DEF Before
  <2>3. /\ Cardinality(Before(points, p)) <= Cardinality(Before(points, q))
        /\ Cardinality(Before(points, p)) # Cardinality(Before(points, q))
    BY <1>3, <2>1, <2>2, FS_Subset
  <2> QED BY <1>3, <2>3
<1>5. /\ place \in [points -> 1..n]
      /\ \A p, q \in points : Weaker(p, q) => place[p] < place[q]
  BY <1>2, <1>3, <1>4
<1> HIDE DEF place
<1>6. \A p, q \in points : place[p] = place[q] => p = q
  <2>1. \A p \in points : place[p] \in Int
    BY <1>2, <1>5
  <2> QED BY <1>1, <1>5, <2>1
<1>7. \A k \in 1..n : \E p \in points : place[p] = k
  <2>1. place \in Injection(points, 1..n)
    BY <1>5, <1>6 DEF Injection, IsInjective
  <2>2. IsFiniteSet(1..n) /\ Cardinality(1..n) = n
    <3> HIDE DEF n
    <3>1. n \in Int /\ 1 \in Int
      BY <1>2
    <3>2. IsFiniteSet(1..n) /\ Cardinality(1..n) = IF 1 > n THEN 0 ELSE n - 1 + 1
      BY <3>1, FS_Interval
    <3> QED BY <1>2, <3>2
  <2>3. place \in Surjection(points, 1..n)
    BY <2>1, <2>2, FS_Injection
  <2> QED BY <2>3 DEF Surjection
<1>8. /\ list \in [1..n -> points] /\ DOMAIN list = 1..n
      /\ \A k \in 1..n : place[list[k]] = k
  BY <1>7
<1> HIDE DEF list
<1>9. ASSUME NEW i \in 1..n, NEW j \in 1..n, i < j PROVE Weaker(list[i], list[j])
  <2>1. /\ list[i] \in points /\ list[j] \in points
        /\ place[list[i]] = i /\ place[list[j]] = j
    BY <1>8
  <2>2. i \in Int /\ j \in Int
    BY <1>2
  <2>3. list[i] # list[j]
    BY <1>9, <2>1, <2>2
  <2>4. ~Weaker(list[j], list[i])
    <3> SUFFICES ASSUME Weaker(list[j], list[i]) PROVE FALSE
      OBVIOUS
    <3>1. j < i
      BY <1>5, <2>1
    <3> QED BY <1>9, <2>2, <3>1
  <2> QED BY <1>1, <2>1, <2>3, <2>4
<1> QED BY <1>8, <1>9 DEF n

\* Every point is there, at one place.
LEMMA FromWeakestFacts ==
  ASSUME NEW points, AreScored(points)
  PROVE  LET n == Cardinality(points)
             list == FromWeakest(points)
         IN  /\ n \in Nat /\ list = [i \in 1..n |-> list[i]]
             /\ \A i \in 1..n : list[i] \in points
             /\ \A i, j \in 1..n : i < j => Weaker(list[i], list[j])
             /\ \A i, j \in 1..n : list[i] = list[j] => i = j
             /\ \A p \in points : \E i \in 1..n : list[i] = p
<1> DEFINE n == Cardinality(points)
           list == FromWeakest(points)
<1>1. /\ list \in [1..n -> points]
      /\ \A i, j \in DOMAIN list : i < j => Weaker(list[i], list[j])
  BY PlacesFromWeakest DEF FromWeakest
<1>2. n \in Nat /\ IsFiniteSet(points) /\ \A p \in points : ~Weaker(p, p)
  BY FS_CardinalityType, WeakerOrders DEF AreScored
<1> HIDE DEF list
<1>3. \A i, j \in 1..n : i < j => Weaker(list[i], list[j])
  BY <1>1
<1>4. ASSUME NEW i \in 1..n, NEW j \in 1..n, list[i] = list[j] PROVE i = j
  <2>1. ~(i < j) /\ ~(j < i)
    BY <1>1, <1>2, <1>3, <1>4
  <2> QED BY <1>2, <2>1
<1>5. \A p \in points : \E i \in 1..n : list[i] = p
  <2>1. list \in Injection(1..n, points)
    BY <1>1, <1>4 DEF Injection, IsInjective
  <2>2. Cardinality(1..n) = n
    <3> HIDE DEF n
    <3>1. n \in Int /\ 1 \in Int
      BY <1>2
    <3>2. Cardinality(1..n) = IF 1 > n THEN 0 ELSE n - 1 + 1
      BY <3>1, FS_Interval
    <3> QED BY <1>2, <3>2
  <2>3. list \in Surjection(1..n, points)
    BY <1>2, <2>1, <2>2, FS_Injection
  <2> QED BY <2>3 DEF Surjection
<1> QED BY <1>1, <1>2, <1>3, <1>4, <1>5 DEF list

Limited(n, limit) == IF limit >= 0 THEN Min({limit, n}) ELSE Max({0, n + limit})

LEMMA LimitedFacts ==
  ASSUME NEW n \in Nat, NEW limit \in Int
  PROVE  Limited(n, limit) \in 0..n
<1>1. CASE limit >= 0
  <2> DEFINE low == Min({limit, n})
  <2>1. \E x \in {limit, n} : \A y \in {limit, n} : x <= y
    OBVIOUS
  <2>2. low \in {limit, n} /\ \A y \in {limit, n} : low <= y
    BY <2>1 DEF Min
  <2>3. Limited(n, limit) = low
    BY <1>1 DEF Limited
  <2> HIDE DEF low
  <2> QED BY <1>1, <2>2, <2>3
<1>2. CASE ~(limit >= 0)
  <2> DEFINE rest == n + limit
             high == Max({0, rest})
  <2>1. rest \in Int /\ rest <= n
    BY <1>2
  <2>2. Limited(n, limit) = high
    BY <1>2 DEF Limited
  <2> HIDE DEF rest
  <2>3. \E x \in {0, rest} : \A y \in {0, rest} : x >= y
    BY <2>1
  <2>4. high \in {0, rest} /\ \A y \in {0, rest} : high >= y
    BY <2>3 DEF Max
  <2> HIDE DEF high
  <2> QED BY <2>1, <2>2, <2>4
<1> QED BY <1>1, <1>2

LEMMA SliceFacts ==
  ASSUME NEW list, IsList(list), NEW limit \in Int
  PROVE  LET part == Slice(list, limit)
             k == Limited(Len(list), limit)
         IN  /\ k \in 0..Len(list)
             /\ IsList(part) /\ Len(part) = k
             /\ \A i \in 1..k : part[i] = list[i]
<1> DEFINE k == Limited(Len(list), limit)
           part == Slice(list, limit)
<1>1. Len(list) \in Nat /\ DOMAIN list = 1..Len(list)
  BY ListFacts
<1>2. k \in 0..Len(list)
  BY <1>1, LimitedFacts
<1>3. part = SubSeq(list, 1, k)
  BY DEF Slice, Limited
<1> HIDE DEF k, part
<1>4. k \in Nat /\ \A i \in 1..k : i \in 1..Len(list)
  BY <1>1, <1>2
<1>5. /\ part = [i \in 1..k |-> part[i]]
      /\ \A i \in 1..k : part[i] = list[i]
  BY <1>1, <1>2, <1>3, <1>4 DEF IsList
<1>6. IsList(part) /\ Len(part) = k
  BY <1>4, <1>5, Tabulated
<1> QED BY <1>2, <1>5, <1>6 DEF k, part

\* The chosen points, however many are asked for: none that is left out has a
\* lower mean.
IsFocus(focus, points, limit) ==
    /\ ToSet(focus) \subseteq {p.id : p \in points}
    /\ \A p, q \in points : p.id \in ToSet(focus) /\ q.id \notin ToSet(focus)
                               => p.score * q.count <= q.score * p.count
    /\ Cardinality(ToSet(focus)) = Len(focus)
    /\ Len(focus) = Limited(Cardinality(points), limit)

LEMMA WeakestPointsFacts ==
  ASSUME NEW aggregate, AreScored(ToSet(aggregate.points)), NEW limit \in Int
  PROVE  IsFocus(WeakestPoints(aggregate, limit), ToSet(aggregate.points), limit)
<1> DEFINE points == ToSet(aggregate.points)
           n == Cardinality(points)
           list == FromWeakest(points)
           ids == Ids(list)
           k == Limited(n, limit)
           focus == WeakestPoints(aggregate, limit)
<1>1. AreScored(points)
  OBVIOUS
<1>2. focus = Slice(ids, limit)
  BY DEF WeakestPoints
<1> HIDE DEF points
<1>3. /\ n \in Nat /\ list = [i \in 1..n |-> list[i]]
      /\ \A i \in 1..n : list[i] \in points
      /\ \A i, j \in 1..n : i < j => Weaker(list[i], list[j])
      /\ \A i, j \in 1..n : list[i] = list[j] => i = j
      /\ \A p \in points : \E i \in 1..n : list[i] = p
  BY <1>1, FromWeakestFacts
<1>4. /\ \A p, q \in points : p.id = q.id => p = q
      /\ \A p, q \in points : Weaker(p, q) => p.score * q.count <= q.score * p.count
  BY <1>1, WeakerOrders DEF AreScored
<1> HIDE DEF list, n, focus
<1>5. IsList(list) /\ Len(list) = n
  BY <1>3, Tabulated
<1>6. /\ IsList(ids) /\ Len(ids) = n
      /\ \A i \in 1..n : ids[i] = list[i].id
  BY <1>5, IdsFacts
<1> HIDE DEF ids
<1>7. /\ k \in 0..n /\ IsList(focus) /\ Len(focus) = k
      /\ \A i \in 1..k : focus[i] = ids[i]
  BY <1>2, <1>6, SliceFacts
<1> HIDE DEF k
<1>8. \A i \in 1..k : i \in 1..n /\ focus[i] = list[i].id
  BY <1>3, <1>6, <1>7
<1>9. /\ k \in Nat /\ DOMAIN focus = 1..k
      /\ ToSet(focus) = {focus[i] : i \in 1..k}
  BY <1>7, ListFacts
<1>10. ToSet(focus) \subseteq {p.id : p \in points}
  BY <1>3, <1>8, <1>9
<1>11. ASSUME NEW p \in points, NEW q \in points,
              p.id \in ToSet(focus), q.id \notin ToSet(focus)
       PROVE  p.score * q.count <= q.score * p.count
  <2>1. PICK i \in 1..k : focus[i] = p.id
    BY <1>9, <1>11
  <2>2. i \in 1..n /\ list[i] = p
    BY <1>3, <1>4, <1>8, <1>11, <2>1
  <2>3. PICK j \in 1..n : list[j] = q
    BY <1>3, <1>11
  <2>4. ~(j \in 1..k)
    BY <1>8, <1>9, <1>11, <2>3
  <2>5. i < j
    BY <1>3, <1>9, <2>1, <2>3, <2>4
  <2>6. Weaker(p, q)
    BY <1>3, <2>2, <2>3, <2>5
  <2> QED BY <1>4, <1>11, <2>6
<1>12. Cardinality(ToSet(focus)) = k
  <2>1. ASSUME NEW i \in 1..k, NEW j \in 1..k, focus[i] = focus[j] PROVE i = j
    <3>1. /\ i \in 1..n /\ j \in 1..n
          /\ list[i].id = list[j].id
          /\ list[i] \in points /\ list[j] \in points
      BY <1>3, <1>8, <2>1
    <3>2. list[i] = list[j]
      BY <1>4, <3>1
    <3> QED BY <1>3, <3>1, <3>2
  <2> QED BY <1>7, <2>1, DistinctItems
<1>13. Len(focus) = Limited(n, limit)
  BY <1>7 DEF k
<1> QED BY <1>7, <1>10, <1>11, <1>12, <1>13 DEF IsFocus, focus, n, points

\* The points of a recorded aggregate can be put in order, and say what the
\* graders of its sample said.
LEMMA AggregatePoints ==
  ASSUME JudgingInv, NEW s \in DOMAIN output, s.type = "assessment_aggregate"
  PROVE  LET points == ToSet(output[s].aggregate.points)
         IN  /\ AreScored(points)
             /\ {p.id : p \in points} = PointIds(s.sample)
             /\ Cardinality(points) = Cardinality(PointIds(s.sample))
             /\ \A p \in points :
                   /\ \A status \in Statuses :
                         p.tally[status] = ExpectedTally(s.sample, p.id, status)
                   /\ p.count = p.tally["extracted"] + p.tally["partial"]
                                + p.tally["missing"] + p.tally["contradicted"]
                   /\ p.score = 2 * p.tally["extracted"] + p.tally["partial"]
<1> DEFINE aggregate == output[s].aggregate
           list == aggregate.points
           points == ToSet(list)
           m == s.sample
<1>1. PICK answers : IsAggregateOf(aggregate, m, run.content.points, run.assessments, answers)
  BY SampleAggregate
<1> HIDE DEF aggregate, m
<1> DEFINE Outcome(p) == IsOutcome(p, run.content.points, run.assessments, answers)
<1>2. /\ IsList(list) /\ Len(list) = Cardinality(PointIds(m))
      /\ {p.id : p \in points} = PointIds(m)
      /\ \A i, j \in 1..Len(list) : list[i].id = list[j].id => i = j
      /\ \A i \in 1..Len(list) : Outcome(list[i])
      /\ PointIds(m) \subseteq Int
      /\ \A id, status : ExpectedTally(m, id, status) =
                            Expected(run.content.points, run.assessments, answers, id, status)
  BY <1>1 DEF IsAggregateOf, IsAggregate
<1>3. points = {list[i] : i \in 1..Len(list)}
  BY <1>2, ListFacts
<1>4. \A p \in points : Outcome(p)
  BY <1>2, <1>3
<1>5. \A p \in points :
         /\ \A status \in Statuses : /\ p.tally[status] = ExpectedTally(m, p.id, status)
                                     /\ p.tally[status] \in Nat
         /\ p.count = p.tally["extracted"] + p.tally["partial"] + p.tally["missing"]
                      + p.tally["contradicted"]
         /\ p.count \in Nat \ {0}
         /\ p.score = 2 * p.tally["extracted"] + p.tally["partial"]
  BY <1>2, <1>4 DEF IsOutcome
<1>6. IsFiniteSet(points) /\ Cardinality(points) = Len(list)
  <2>1. \A i, j \in 1..Len(list) : list[i] = list[j] => i = j
    BY <1>2
  <2> QED BY <1>2, <2>1, DistinctItems
<1>7. \A p, q \in points : p.id = q.id => p = q
  BY <1>2, <1>3
<1>8. ASSUME NEW p \in points PROVE IsScored(p)
  <2>1. p.tally["extracted"] \in Nat /\ p.tally["partial"] \in Nat
    BY <1>5 DEF Statuses
  <2>2. p.id \in Int
    BY <1>2
  <2> QED BY <1>5, <2>1, <2>2 DEF IsScored, Found
<1> HIDE DEF list
<1>9. AreScored(points)
  BY <1>6, <1>7, <1>8 DEF AreScored
<1> QED BY <1>2, <1>5, <1>6, <1>9 DEF list, aggregate, m

\* Whatever the graders say, and whatever number of points is asked for: no
\* point that is left out did worse with the graders of the sample than one
\* the baseline names.
THEOREM FocusOnTheWeakest == FlowSpec => []FocusIsWeakest
<1>1. ASSUME JudgingInv PROVE FocusIsWeakest
  <2> SUFFICES ASSUME NEW s \in Succeeded("mutation_proposal"),
                      Config(s).implementation = DefaultOperator
               PROVE  LET focus == output[s].proposal.operations[1].value.focus
                          ids == PointIds(s.sample)
                          tally(id, status) == ExpectedTally(s.sample, id, status)
                          score(id) == 2 * tally(id, "extracted") + tally(id, "partial")
                          count(id) == tally(id, "extracted") + tally(id, "partial")
                                       + tally(id, "missing") + tally(id, "contradicted")
                          limit == Config(s).focus
                      IN  /\ ToSet(focus) \subseteq ids
                          /\ \A f \in ToSet(focus), id \in ids \ ToSet(focus) :
                                score(f) * count(id) <= score(id) * count(f)
                          /\ Cardinality(ToSet(focus)) = Len(focus)
                          /\ Len(focus) = IF limit >= 0
                                          THEN Min({limit, Cardinality(ids)})
                                          ELSE Max({0, Cardinality(ids) + limit})
    BY DEF FocusIsWeakest
  <2> DEFINE m == s.sample
             a == Aggregate(run, m)
             aggregate == output[a].aggregate
             points == ToSet(aggregate.points)
             limit == Config(s).focus
             focus == output[s].proposal.operations[1].value.focus
             ids == PointIds(m)
             tally(id, status) == ExpectedTally(m, id, status)
             score(id) == 2 * tally(id, "extracted") + tally(id, "partial")
             count(id) == tally(id, "extracted") + tally(id, "partial")
                          + tally(id, "missing") + tally(id, "contradicted")
  <2>1. s \in DOMAIN output /\ s.type = "mutation_proposal"
    BY DEF Succeeded
  <2>2. PlanInv /\ s \in ToSet(rows) /\ SoundJudging(run, output, s, output[s])
    BY <1>1, <2>1 DEF JudgingInv, FlowInv
  <2>3. limit \in Int
    BY <2>1, <2>2, RowsJudge DEF IsJudging, IsActive, Config
  <2>4. a \in DOMAIN output /\ focus = WeakestPoints(aggregate, limit)
    BY <2>1, <2>2 DEF SoundJudging
  <2>5. a.type = "assessment_aggregate" /\ a.sample = m
    BY DEF Aggregate, Local, Spec
  <2> HIDE DEF a, m, focus, limit
  <2>6. /\ AreScored(points)
        /\ {p.id : p \in points} = ids
        /\ Cardinality(points) = Cardinality(ids)
        /\ \A p \in points :
              /\ \A status \in Statuses : p.tally[status] = tally(p.id, status)
              /\ p.count = p.tally["extracted"] + p.tally["partial"]
                           + p.tally["missing"] + p.tally["contradicted"]
              /\ p.score = 2 * p.tally["extracted"] + p.tally["partial"]
    BY <1>1, <2>4, <2>5, AggregatePoints
  <2>7. \A p \in points : p.count = count(p.id) /\ p.score = score(p.id)
    BY <2>6 DEF Statuses
  <2> HIDE DEF aggregate
  <2>8. IsFocus(focus, points, limit)
    BY <2>3, <2>4, <2>6, WeakestPointsFacts
  <2> HIDE DEF tally, score, count, points, ids
  <2>9. ASSUME NEW f \in ToSet(focus), NEW id \in ids \ ToSet(focus)
        PROVE  score(f) * count(id) <= score(id) * count(f)
    <3>1. PICK p \in points : p.id = f
      BY <2>8 DEF IsFocus
    <3>2. PICK q \in points : q.id = id
      BY <2>6
    <3>3. p.score * q.count <= q.score * p.count
      BY <2>8, <3>1, <3>2 DEF IsFocus
    <3> QED BY <2>7, <3>1, <3>2, <3>3
  <2>10. /\ ToSet(focus) \subseteq ids
         /\ Cardinality(ToSet(focus)) = Len(focus)
         /\ Len(focus) = Limited(Cardinality(ids), limit)
    BY <2>6, <2>8 DEF IsFocus
  <2> QED BY <2>9, <2>10 DEF Limited, tally, score, count, ids, m, focus, limit
<1> QED BY <1>1, JudgingInvariant, PTL

-----------------------------------------------------------------------------
(* Walks through trees of objects.                                         *)

Indices == DOMAIN Numeral \cup {"-"}

\* Keys that may be of the same item: the same name, or positions.
Alike(a, b) == a = b \/ (a \in Indices /\ b \in Indices)

Walk(heap, root, keys, n, at) ==
    at[0] = [ref |-> root] /\ \A k \in 1..n : at[k] = Child(heap, at[k - 1], keys[k])

LEMMA WalkSteps ==
  ASSUME NEW heap, NEW root, NEW keys, Len(keys) \in Nat
  PROVE  \E at : Walk(heap, root, keys, Len(keys), at) /\ Descend(heap, root, keys) = at[Len(keys)]
<1> DEFINE L == Len(keys)
           F(g, k) == [n \in 0..k |-> IF n = 0 THEN [ref |-> root]
                                      ELSE Child(heap, g[n - 1], keys[n])]
           S == {k \in Nat : \E g : g = F(g, k)}
           at == CHOOSE g : g = F(g, L)
<1>1. 0 \in S
  <2> DEFINE g == [n \in 0..0 |-> [ref |-> root]]
  <2>1. g = F(g, 0)
    OBVIOUS
  <2> HIDE DEF g
  <2> QED BY <2>1
<1>2. ASSUME NEW k \in Nat, k \in S PROVE k + 1 \in S
  <2>1. PICK g : g = F(g, k)
    BY <1>2
  <2> DEFINE h == [n \in 0..(k + 1) |-> IF n <= k THEN g[n] ELSE Child(heap, g[n - 1], keys[n])]
  <2>2. \A n \in 0..(k + 1) : h[n] = IF n = 0 THEN [ref |-> root]
                                     ELSE Child(heap, h[n - 1], keys[n])
    <3> SUFFICES ASSUME NEW n \in 0..(k + 1)
                 PROVE  h[n] = IF n = 0 THEN [ref |-> root] ELSE Child(heap, h[n - 1], keys[n])
      OBVIOUS
    <3>1. CASE n <= k
      BY <2>1, <3>1
    <3>2. CASE n = k + 1
      BY <3>2
    <3> QED BY <3>1, <3>2
  <2>3. h = [n \in 0..(k + 1) |-> h[n]]
    OBVIOUS
  <2> HIDE DEF h
  <2>4. h = F(h, k + 1)
    BY <2>2, <2>3
  <2>5. k + 1 \in Nat
    OBVIOUS
  <2> HIDE DEF F
  <2> QED BY <2>4, <2>5
<1> HIDE DEF S
<1>3. L \in S
  BY <1>1, <1>2, Induction
<1>4. Descend(heap, root, keys) = at[L]
  BY DEF Descend
<1> HIDE DEF at
<1>5. at = F(at, L)
  <2>1. \E g : g = F(g, L)
    BY <1>3 DEF S
  <2> HIDE DEF F
  <2> QED BY <2>1 DEF at
<1>6. at[0] = [ref |-> root] /\ \A k \in 1..L : at[k] = Child(heap, at[k - 1], keys[k])
  BY <1>5
<1> QED BY <1>4, <1>6 DEF Walk

\* There is one way to walk.
LEMMA WalkIsOne ==
  ASSUME NEW heap, NEW root, NEW keys, NEW other, NEW n \in Nat, NEW at, NEW to,
         Walk(heap, root, keys, n, at), Walk(heap, root, other, n, to),
         \A k \in 1..n : keys[k] = other[k]
  PROVE  \A k \in 0..n : at[k] = to[k]
<1> DEFINE S == {k \in Nat : k <= n => at[k] = to[k]}
<1>1. 0 \in S
  BY DEF Walk
<1>2. ASSUME NEW k \in Nat, k \in S PROVE k + 1 \in S
  <2> SUFFICES ASSUME k + 1 <= n PROVE at[k + 1] = to[k + 1]
    OBVIOUS
  <2>1. k + 1 \in 1..n /\ (k + 1) - 1 = k /\ at[k] = to[k]
    BY <1>2
  <2> QED BY <2>1 DEF Walk
<1> HIDE DEF S
<1>3. \A k \in Nat : k \in S
  BY <1>1, <1>2, Induction
<1> QED BY <1>3 DEF S

LEMMA WalkEnds ==
  ASSUME NEW heap, NEW root, NEW keys, Len(keys) \in Nat, NEW at,
         Walk(heap, root, keys, Len(keys), at)
  PROVE  Descend(heap, root, keys) = at[Len(keys)]
<1>1. PICK to : /\ Walk(heap, root, keys, Len(keys), to)
                /\ Descend(heap, root, keys) = to[Len(keys)]
  BY WalkSteps
<1>2. \A k \in 0..Len(keys) : at[k] = to[k]
  BY <1>1, WalkIsOne
<1> QED BY <1>1, <1>2

\* A walk that gets somewhere is through objects all along.
LEMMA WalkInside ==
  ASSUME NEW heap, NEW root, NEW keys, NEW n \in Nat, NEW at,
         Walk(heap, root, keys, n, at), at[n] # Raised
  PROVE  \A k \in 0..n : at[k] # Raised /\ (k < n => IsRef(at[k]))
<1> DEFINE S == {k \in Nat : k <= n => at[n - k] # Raised /\ (k > 0 => IsRef(at[n - k]))}
<1>1. 0 \in S
  OBVIOUS
<1>2. ASSUME NEW k \in Nat, k \in S PROVE k + 1 \in S
  <2> SUFFICES ASSUME k + 1 <= n PROVE at[n - (k + 1)] # Raised /\ IsRef(at[n - (k + 1)])
    OBVIOUS
  <2>1. n - k \in 1..n /\ (n - k) - 1 = n - (k + 1) /\ at[n - k] # Raised
    BY <1>2
  <2>2. at[n - k] = Child(heap, at[n - (k + 1)], keys[n - k])
    BY <2>1 DEF Walk
  <2>3. IsRef(at[n - (k + 1)])
    BY <2>1, <2>2 DEF Child
  <2> QED BY <2>3 DEF IsRef, Raised
<1> HIDE DEF S
<1>3. \A k \in Nat : k \in S
  BY <1>1, <1>2, Induction
<1>4. ASSUME NEW k \in 0..n PROVE at[k] # Raised /\ (k < n => IsRef(at[k]))
  <2>1. n - k \in Nat /\ n - k <= n /\ n - (n - k) = k /\ (k < n => n - k > 0)
    OBVIOUS
  <2> QED BY <1>3, <2>1 DEF S
<1> QED BY <1>4

IsItem(heap, item) == item # Raised /\ (IsRef(item) => item.ref \in DOMAIN heap)

IsContainer(heap, container) ==
    \/ /\ DOMAIN container = {"dict"}
       /\ \A key \in DOMAIN container.dict : IsItem(heap, container.dict[key])
    \/ /\ DOMAIN container = {"list"}
       /\ IsList(container.list)
       /\ \A i \in 1..Len(container.list) : IsItem(heap, container.list[i])

WellFormed(heap) ==
    /\ heap = [r \in DOMAIN heap |-> heap[r]]
    /\ \A r \in DOMAIN heap : IsContainer(heap, heap[r])

\* The item that a container has under a key, or has somewhere.
Has(container, key, r) ==
    IF IsDict(container)
    THEN key \in DOMAIN container.dict /\ IsRef(container.dict[key]) /\ container.dict[key].ref = r
    ELSE /\ key \in Indices
         /\ \E i \in 1..Len(container.list) : /\ IsRef(container.list[i])
                                              /\ container.list[i].ref = r

PointsTo(heap, q, key, r) == q \in DOMAIN heap /\ Has(heap[q], key, r)

LEMMA ChildFacts ==
  ASSUME NEW heap, WellFormed(heap), NEW item, IsRef(item), item.ref \in DOMAIN heap,
         NEW key, Child(heap, item, key) # Raised
  PROVE  LET child == Child(heap, item, key)
         IN  /\ IsItem(heap, child)
             /\ IsRef(child) => PointsTo(heap, item.ref, key, child.ref)
<1> DEFINE container == heap[item.ref]
           child == Child(heap, item, key)
<1>1. IsContainer(heap, container)
  BY DEF WellFormed
<1>2. CASE IsDict(container)
  <2>1. key \in DOMAIN container.dict /\ child = container.dict[key]
    BY <1>2 DEF Child
  <2>2. IsItem(heap, child)
    BY <1>1, <1>2, <2>1 DEF IsContainer, IsDict
  <2> QED BY <1>2, <2>1, <2>2 DEF PointsTo, Has
<1>3. CASE ~IsDict(container)
  <2> DEFINE i == Position(container.list, key)
  <2>1. i # 0 /\ child = container.list[i]
    BY <1>3 DEF Child
  <2>2. i \in 1..Len(container.list) /\ key \in DOMAIN Numeral
    BY <2>1 DEF Position
  <2> HIDE DEF i
  <2>3. IsItem(heap, child)
    BY <1>1, <1>3, <2>1, <2>2 DEF IsContainer, IsDict
  <2> QED BY <1>3, <2>1, <2>2, <2>3 DEF PointsTo, Has, Indices
<1> QED BY <1>2, <1>3

LEMMA WalkFacts ==
  ASSUME NEW heap, WellFormed(heap), NEW root \in DOMAIN heap, NEW keys, NEW n \in Nat, NEW at,
         Walk(heap, root, keys, n, at), at[n] # Raised
  PROVE  /\ \A k \in 0..n : IsItem(heap, at[k])
         /\ \A k \in 1..n : /\ IsRef(at[k - 1])
                            /\ IsRef(at[k]) => PointsTo(heap, at[k - 1].ref, keys[k], at[k].ref)
<1>1. \A k \in 0..n : at[k] # Raised /\ (k < n => IsRef(at[k]))
  BY WalkInside
<1> DEFINE S == {k \in Nat : k <= n => IsItem(heap, at[k])}
<1>2. 0 \in S
  <2>1. at[0] = [ref |-> root] /\ at[0] # Raised
    BY <1>1 DEF Walk
  <2> QED BY <2>1 DEF IsItem
<1>3. ASSUME NEW k \in 1..n, IsItem(heap, at[k - 1])
      PROVE  /\ IsItem(heap, at[k])
             /\ IsRef(at[k - 1])
             /\ IsRef(at[k]) => PointsTo(heap, at[k - 1].ref, keys[k], at[k].ref)
  <2>1. k - 1 \in 0..n /\ k - 1 < n /\ k \in 0..n
    OBVIOUS
  <2>2. at[k] = Child(heap, at[k - 1], keys[k]) /\ at[k] # Raised /\ IsRef(at[k - 1])
    BY <1>1, <2>1 DEF Walk
  <2>3. at[k - 1].ref \in DOMAIN heap
    BY <1>3, <2>2 DEF IsItem
  <2> QED BY <2>2, <2>3, ChildFacts
<1>4. ASSUME NEW k \in Nat, k \in S PROVE k + 1 \in S
  <2> SUFFICES ASSUME k + 1 <= n PROVE IsItem(heap, at[k + 1])
    OBVIOUS
  <2>1. k + 1 \in 1..n /\ (k + 1) - 1 = k /\ IsItem(heap, at[k])
    BY <1>4
  <2> QED BY <1>3, <2>1
<1> HIDE DEF S
<1>5. \A k \in Nat : k \in S
  BY <1>2, <1>4, Induction
<1>6. \A k \in 0..n : IsItem(heap, at[k])
  BY <1>5 DEF S
<1>7. \A k \in 1..n : k - 1 \in 0..n
  OBVIOUS
<1> QED BY <1>3, <1>6, <1>7

\* A walk that passes no changed object is the same.
LEMMA WalkElsewhere ==
  ASSUME NEW heap, NEW more, NEW root, NEW keys, NEW n \in Nat, NEW at,
         Walk(heap, root, keys, n, at),
         \A k \in 1..n : Child(more, at[k - 1], keys[k]) = Child(heap, at[k - 1], keys[k])
  PROVE  Walk(more, root, keys, n, at)
  BY DEF Walk

-----------------------------------------------------------------------------
(* Where objects are at home.  A home is given once: an object that is     *)
(* taken out of its place is not put anywhere else.                        *)

AtHome(heap, home) ==
    \A q, key, r : PointsTo(heap, q, key, r) =>
        r \in DOMAIN home /\ home[r].in = q /\ Alike(home[r].key, key)

\* The first n keys lead to r, if everything is at home.
Leads(home, root, keys, n, r) ==
    \E x : /\ x[0] = root /\ x[n] = r
           /\ \A k \in 1..n : /\ x[k] \in DOMAIN home
                              /\ home[x[k]].in = x[k - 1]
                              /\ Alike(home[x[k]].key, keys[k])

LEMMA WalkLeads ==
  ASSUME NEW heap, WellFormed(heap), NEW root \in DOMAIN heap, NEW keys, NEW n \in Nat, NEW at,
         Walk(heap, root, keys, n, at), at[n] # Raised,
         NEW home, AtHome(heap, home), NEW m \in 0..n, IsRef(at[m])
  PROVE  Leads(home, root, keys, m, at[m].ref)
<1> DEFINE x == [k \in 0..m |-> at[k].ref]
<1>1. \A k \in 1..n : /\ IsRef(at[k - 1])
                      /\ IsRef(at[k]) => PointsTo(heap, at[k - 1].ref, keys[k], at[k].ref)
  BY WalkFacts
<1>2. ASSUME NEW k \in 1..m PROVE PointsTo(heap, x[k - 1], keys[k], x[k])
  <2>1. k \in 1..n /\ k \in 0..m /\ k - 1 \in 0..m /\ (k # m => k + 1 \in 1..n /\ (k + 1) - 1 = k)
    OBVIOUS
  <2>2. IsRef(at[k])
    BY <1>1, <2>1
  <2> QED BY <1>1, <2>1, <2>2
<1>3. x[0] = root /\ x[m] = at[m].ref
  BY DEF Walk
<1> HIDE DEF x
<1>4. \A k \in 1..m : /\ x[k] \in DOMAIN home
                      /\ home[x[k]].in = x[k - 1]
                      /\ Alike(home[x[k]].key, keys[k])
  BY <1>2 DEF AtHome
<1> QED BY <1>3, <1>4 DEF Leads

\* There is one way to an object.
LEMMA LeadsOneWay ==
  ASSUME NEW home, NEW root, root \notin DOMAIN home, NEW keys, NEW other,
         NEW m \in Nat, NEW n \in Nat, NEW r,
         Leads(home, root, keys, m, r), Leads(home, root, other, n, r)
  PROVE  m = n /\ \A k \in 1..n : Alike(keys[k], other[k])
<1> DEFINE IsWay(x, path, l) == /\ x[0] = root /\ x[l] = r
                                /\ \A k \in 1..l : /\ x[k] \in DOMAIN home
                                                   /\ home[x[k]].in = x[k - 1]
                                                   /\ Alike(home[x[k]].key, path[k])
<1>1. PICK x : IsWay(x, keys, m)
  BY DEF Leads
<1>2. PICK y : IsWay(y, other, n)
  BY DEF Leads
<1> DEFINE S == {k \in Nat : k <= m /\ k <= n => x[m - k] = y[n - k]}
<1>3. 0 \in S
  BY <1>1, <1>2
<1>4. ASSUME NEW k \in Nat, k \in S PROVE k + 1 \in S
  <2> SUFFICES ASSUME k + 1 <= m, k + 1 <= n PROVE x[m - (k + 1)] = y[n - (k + 1)]
    OBVIOUS
  <2>1. /\ m - k \in 1..m /\ (m - k) - 1 = m - (k + 1)
        /\ n - k \in 1..n /\ (n - k) - 1 = n - (k + 1)
        /\ x[m - k] = y[n - k]
    BY <1>4
  <2>2. home[x[m - k]].in = x[m - (k + 1)] /\ home[y[n - k]].in = y[n - (k + 1)]
    BY <1>1, <1>2, <2>1
  <2> QED BY <2>1, <2>2
<1> HIDE DEF S
<1>5. \A k \in Nat : k \in S
  BY <1>3, <1>4, Induction
<1>6. ~(m < n)
  <2> SUFFICES ASSUME m < n PROVE FALSE
    OBVIOUS
  <2>1. n - m \in 1..n /\ m <= m /\ m <= n /\ m - m = 0
    OBVIOUS
  <2>2. x[0] = y[n - m]
    BY <1>5, <2>1 DEF S
  <2> QED BY <1>1, <1>2, <2>1, <2>2
<1>7. ~(n < m)
  <2> SUFFICES ASSUME n < m PROVE FALSE
    OBVIOUS
  <2>1. m - n \in 1..m /\ n <= m /\ n <= n /\ n - n = 0
    OBVIOUS
  <2>2. x[m - n] = y[0]
    BY <1>5, <2>1 DEF S
  <2> QED BY <1>1, <1>2, <2>1, <2>2
<1>8. m = n
  BY <1>6, <1>7
<1>9. ASSUME NEW k \in 1..n PROVE Alike(keys[k], other[k])
  <2>1. n - k \in Nat /\ n - k <= n /\ n - (n - k) = k
    OBVIOUS
  <2>2. x[k] = y[k]
    BY <1>5, <1>8, <2>1 DEF S
  <2> QED BY <1>1, <1>2, <1>8, <2>2 DEF Alike
<1> QED BY <1>8, <1>9

\* More homes lead there as well.
LEMMA LeadsStill ==
  ASSUME NEW home, NEW more, \A r \in DOMAIN home : r \in DOMAIN more /\ more[r] = home[r],
         NEW root, NEW keys, NEW n, NEW r, Leads(home, root, keys, n, r)
  PROVE  Leads(more, root, keys, n, r)
  BY DEF Leads

-----------------------------------------------------------------------------
(* One operation.                                                          *)

LEMMA NumeralFacts == (\A key \in DOMAIN Numeral : Numeral[key] \in Int) /\ Numeral["-1"] = -1
                      /\ "-1" \in DOMAIN Numeral /\ "-" \notin DOMAIN Numeral
  BY DEF Numeral

LEMMA PartFacts ==
  ASSUME NEW s, IsList(s), NEW a \in 1..(Len(s) + 1), NEW b \in (a - 1)..Len(s)
  PROVE  /\ IsList(SubSeq(s, a, b)) /\ Len(SubSeq(s, a, b)) = b - a + 1
         /\ \A i \in 1..(b - a + 1) : SubSeq(s, a, b)[i] = s[a + i - 1]
<1> DEFINE part == SubSeq(s, a, b)
           n == b - a + 1
<1>1. Len(s) \in Nat /\ DOMAIN s = 1..Len(s)
  BY ListFacts
<1>2. n \in Nat /\ a \in Int /\ b \in Int
  BY <1>1
<1>3. part = [i \in 1..n |-> part[i]] /\ \A i \in 1..n : part[i] = s[a + i - 1]
  BY <1>1, <1>2 DEF IsList
<1> HIDE DEF part, n
<1>4. IsList(part) /\ Len(part) = n
  BY <1>2, <1>3, Tabulated
<1> QED BY <1>3, <1>4 DEF part, n

LEMMA RemovedFacts ==
  ASSUME NEW s, IsList(s), NEW i \in 1..Len(s)
  PROVE  /\ IsList(RemoveAt(s, i))
         /\ \A j \in 1..Len(RemoveAt(s, i)) : \E k \in 1..Len(s) : RemoveAt(s, i)[j] = s[k]
<1> DEFINE n == Len(s)
           front == SubSeq(s, 1, i - 1)
           back == SubSeq(s, i + 1, n)
<1>1. n \in Nat
  BY ListFacts
<1>2. /\ IsList(front) /\ Len(front) = i - 1
      /\ \A j \in 1..(i - 1) : front[j] = s[j]
  <2>1. /\ 1 \in 1..(n + 1) /\ i - 1 \in (1 - 1)..n /\ (i - 1) - 1 + 1 = i - 1
        /\ \A j \in 1..(i - 1) : 1 + j - 1 = j
    BY <1>1
  <2> HIDE DEF n
  <2>2. /\ IsList(front) /\ Len(front) = (i - 1) - 1 + 1
        /\ \A j \in 1..((i - 1) - 1 + 1) : front[j] = s[1 + j - 1]
    BY <2>1, PartFacts DEF n
  <2> HIDE DEF front
  <2> QED BY <2>1, <2>2
<1>3. /\ IsList(back) /\ Len(back) = n - i
      /\ \A j \in 1..(n - i) : back[j] = s[i + j]
  <2>1. /\ i + 1 \in 1..(n + 1) /\ n \in ((i + 1) - 1)..n /\ n - (i + 1) + 1 = n - i
        /\ \A j \in 1..(n - i) : (i + 1) + j - 1 = i + j
    BY <1>1
  <2>2. /\ IsList(back) /\ Len(back) = n - (i + 1) + 1
        /\ \A j \in 1..(n - (i + 1) + 1) : back[j] = s[(i + 1) + j - 1]
    BY <2>1, PartFacts
  <2> HIDE DEF back, n
  <2> QED BY <2>1, <2>2
<1> HIDE DEF front, back
<1>4. RemoveAt(s, i) = front \o back
  BY DEF RemoveAt, front, back
<1>5. /\ IsList(front \o back)
      /\ Len(front \o back) = Len(front) + Len(back)
      /\ \A j \in 1..Len(front) : (front \o back)[j] = front[j]
      /\ \A j \in 1..Len(back) : (front \o back)[Len(front) + j] = back[j]
  <2>1. IsList(front) /\ IsList(back)
    BY <1>2, <1>3
  <2> QED BY <2>1, Concatenated
<1>6. ASSUME NEW j \in 1..Len(front \o back) PROVE \E k \in 1..n : (front \o back)[j] = s[k]
  <2>1. CASE j <= i - 1
    <3>1. j \in 1..Len(front) /\ j \in 1..n
      BY <1>1, <1>2, <2>1
    <3> QED BY <1>2, <1>5, <3>1
  <2>2. CASE ~(j <= i - 1)
    <3>1. /\ j - (i - 1) \in 1..(n - i) /\ (i - 1) + (j - (i - 1)) = j
          /\ i + (j - (i - 1)) \in 1..n
      BY <1>1, <1>2, <1>3, <1>5, <2>2
    <3>2. (front \o back)[j] = back[j - (i - 1)]
      BY <1>2, <1>3, <1>5, <3>1
    <3> QED BY <1>3, <3>1, <3>2
  <2> QED BY <2>1, <2>2
<1> QED BY <1>4, <1>5, <1>6

\* What a key of a container leads to: _get_child.
Item(container, key) ==
    IF IsDict(container)
    THEN IF key \in DOMAIN container.dict THEN container.dict[key] ELSE Raised
    ELSE IF Position(container.list, key) = 0 THEN Raised
         ELSE container.list[Position(container.list, key)]

\* A container c becomes d: the value is written under the key, or, without
\* one, what is there is removed.
Wrote(heap, c, key, value, d) ==
    /\ IsContainer(heap, d) /\ (IsDict(d) <=> IsDict(c))
    /\ ~IsDict(c) => key \in Indices
    /\ \A k : IsDict(c) /\ k # key => Item(d, k) = Item(c, k)
    /\ \A k, r : Has(d, k, r) => Has(c, k, r) \/ (IsRef(value) /\ r = value.ref /\ Alike(key, k))
    /\ Item(d, key) = value \/ (key = "-" /\ Item(d, "-1") = value)

Removed(heap, c, key, d) ==
    /\ IsContainer(heap, d) /\ (IsDict(d) <=> IsDict(c))
    /\ ~IsDict(c) => key \in Indices
    /\ \A k : IsDict(c) /\ k # key => Item(d, k) = Item(c, k)
    /\ \A k, r : Has(d, k, r) => Has(c, k, r)
    /\ IsDict(c) => Item(d, key) = Raised

LEMMA SetDict ==
  ASSUME NEW heap, NEW c, IsContainer(heap, c), IsDict(c), NEW value, IsItem(heap, value),
         NEW key, NEW d,
         d = [dict |-> [k \in DOMAIN c.dict \cup {key} |-> IF k = key THEN value ELSE c.dict[k]]]
  PROVE  Wrote(heap, c, key, value, d)
<1> DEFINE f == [k \in DOMAIN c.dict \cup {key} |-> IF k = key THEN value ELSE c.dict[k]]
<1>1. /\ DOMAIN f = DOMAIN c.dict \cup {key} /\ f[key] = value
      /\ \A k \in DOMAIN c.dict : k # key => f[k] = c.dict[k]
  OBVIOUS
<1> HIDE DEF f
<1>2. d.dict = f /\ DOMAIN d = {"dict"} /\ IsDict(d)
  BY DEF f, IsDict
<1>3. \A k \in DOMAIN c.dict : IsItem(heap, c.dict[k])
  BY DEF IsContainer, IsDict
<1>4. IsContainer(heap, d)
  BY <1>1, <1>2, <1>3 DEF IsContainer
<1>5. \A k : k # key => Item(d, k) = Item(c, k)
  BY <1>1, <1>2 DEF Item
<1>6. Item(d, key) = value
  BY <1>1, <1>2 DEF Item
<1>7. \A k, r : Has(d, k, r) => Has(c, k, r) \/ (IsRef(value) /\ r = value.ref /\ Alike(key, k))
  BY <1>1, <1>2 DEF Has, Alike
<1> QED BY <1>2, <1>4, <1>5, <1>6, <1>7 DEF Wrote

LEMMA RemoveDict ==
  ASSUME NEW heap, NEW c, IsContainer(heap, c), IsDict(c), NEW key, NEW d,
         d = [dict |-> [k \in DOMAIN c.dict \ {key} |-> c.dict[k]]]
  PROVE  Removed(heap, c, key, d)
<1> DEFINE f == [k \in DOMAIN c.dict \ {key} |-> c.dict[k]]
<1>1. DOMAIN f = DOMAIN c.dict \ {key} /\ \A k \in DOMAIN f : f[k] = c.dict[k]
  OBVIOUS
<1> HIDE DEF f
<1>2. d.dict = f /\ DOMAIN d = {"dict"} /\ IsDict(d)
  BY DEF f, IsDict
<1>3. \A k \in DOMAIN c.dict : IsItem(heap, c.dict[k])
  BY DEF IsContainer, IsDict
<1>4. IsContainer(heap, d)
  BY <1>1, <1>2, <1>3 DEF IsContainer
<1>5. \A k : k # key => Item(d, k) = Item(c, k)
  BY <1>1, <1>2 DEF Item
<1>6. Item(d, key) = Raised
  BY <1>1, <1>2 DEF Item
<1>7. \A k, r : Has(d, k, r) => Has(c, k, r)
  BY <1>1, <1>2 DEF Has
<1> QED BY <1>2, <1>4, <1>5, <1>6, <1>7 DEF Removed

\* A list whose items are those of another and the value.
Holds(list, c, value) ==
    /\ IsList(list)
    /\ \A i \in 1..Len(list) : list[i] = value \/ \E j \in 1..Len(c.list) : list[i] = c.list[j]

Relisted(heap, c, key, value, d) ==
    /\ IsContainer(heap, d) /\ ~IsDict(d)
    /\ \A k, r : Has(d, k, r) => Has(c, k, r) \/ (IsRef(value) /\ r = value.ref /\ Alike(key, k))

LEMMA ListHas ==
  ASSUME NEW heap, NEW c, IsContainer(heap, c), ~IsDict(c), NEW value, IsItem(heap, value),
         NEW key \in Indices, NEW d, DOMAIN d = {"list"}, Holds(d.list, c, value)
  PROVE  Relisted(heap, c, key, value, d)
<1> DEFINE list == d.list
<1>1. ~IsDict(d)
  BY DEF IsDict
<1>2. \A i \in 1..Len(c.list) : IsItem(heap, c.list[i])
  BY DEF IsContainer, IsDict
<1>3. IsList(list)
      /\ \A i \in 1..Len(list) : list[i] = value \/ \E j \in 1..Len(c.list) : list[i] = c.list[j]
  BY DEF Holds
<1>4. IsContainer(heap, d)
  BY <1>2, <1>3 DEF IsContainer
<1>5. ASSUME NEW k, NEW r, Has(d, k, r)
      PROVE  Has(c, k, r) \/ (IsRef(value) /\ r = value.ref /\ Alike(key, k))
  <2>1. k \in Indices /\ \E i \in 1..Len(list) : IsRef(list[i]) /\ list[i].ref = r
    BY <1>1, <1>5 DEF Has
  <2>2. PICK i \in 1..Len(list) : IsRef(list[i]) /\ list[i].ref = r
    BY <2>1
  <2> QED BY <1>3, <2>1, <2>2 DEF Has, Alike
<1> QED BY <1>1, <1>4, <1>5 DEF Relisted

\* The value is at place p of the new list, the rest is from the old one.
Placed(list, c, value, p) ==
    /\ IsList(list) /\ p \in 1..Len(list) /\ list[p] = value
    /\ \A i \in 1..Len(list) : i # p => \E j \in 1..Len(c.list) : list[i] = c.list[j]

LEMMA AppendedTo ==
  ASSUME NEW c, NEW value, IsList(c.list), NEW p, p = Len(c.list) + 1
  PROVE  Placed(Append(c.list, value), c, value, p) /\ Len(Append(c.list, value)) = p
<1> DEFINE s == c.list
           items == Append(s, value)
           L == Len(s)
<1> HIDE DEF s
<1>1. IsList(s)
  BY DEF s
<1> HIDE DEF L
<1>2. L \in Nat
  BY <1>1, ListFacts DEF L
<1>3. /\ IsList(items) /\ Len(items) = L + 1 /\ items[L + 1] = value
      /\ \A i \in 1..L : items[i] = s[i]
  BY <1>1, Appended DEF L
<1> HIDE DEF items
<1>4. p = L + 1
  BY DEF L, s
<1>5. \A i \in 1..Len(items) : i # p => \E j \in 1..L : items[i] = s[j]
  <2>1. \A i \in 1..(L + 1) : i # p => i \in 1..L
    BY <1>2, <1>4
  <2> QED BY <1>3, <2>1
<1>6. p \in 1..Len(items)
  BY <1>2, <1>3, <1>4
<1>7. Placed(items, c, value, p)
  BY <1>3, <1>4, <1>5, <1>6 DEF Placed, L, s
<1> QED BY <1>3, <1>4, <1>7 DEF items, s

LEMMA PutAt ==
  ASSUME NEW c, NEW value, IsList(c.list), NEW p \in 1..Len(c.list)
  PROVE  /\ Placed([c.list EXCEPT ![p] = value], c, value, p)
         /\ Len([c.list EXCEPT ![p] = value]) = Len(c.list)
<1> DEFINE s == c.list
           items == [s EXCEPT ![p] = value]
           L == Len(s)
<1> HIDE DEF s
<1>1. IsList(s) /\ p \in 1..L
  BY DEF s
<1> HIDE DEF L
<1>2. L \in Nat /\ DOMAIN s = 1..L
  BY <1>1, ListFacts DEF L
<1>3. /\ items = [i \in 1..L |-> items[i]] /\ items[p] = value
      /\ \A i \in 1..L : i # p => items[i] = s[i]
  BY <1>1, <1>2
<1> HIDE DEF items
<1>4. IsList(items) /\ Len(items) = L
  BY <1>2, <1>3, Tabulated
<1>5. \A i \in 1..Len(items) : i # p => \E j \in 1..L : items[i] = s[j]
  BY <1>3, <1>4
<1>6. Placed(items, c, value, p)
  BY <1>1, <1>3, <1>4, <1>5 DEF Placed, L, s
<1> QED BY <1>4, <1>6 DEF items, s, L

LEMMA SetInList ==
  ASSUME NEW heap, NEW c, IsContainer(heap, c), ~IsDict(c), NEW value, IsItem(heap, value),
         NEW key \in Indices, NEW d, DOMAIN d = {"list"}, NEW p, Placed(d.list, c, value, p),
         \/ Position(d.list, key) = p
         \/ key = "-" /\ Position(d.list, "-1") = p
  PROVE  Wrote(heap, c, key, value, d)
<1>1. p # 0 /\ d.list[p] = value
  BY DEF Placed
<1>2. Holds(d.list, c, value)
  BY DEF Placed, Holds
<1>3. Relisted(heap, c, key, value, d)
  BY <1>2, ListHas
<1>4. ~IsDict(d)
  BY <1>3 DEF Relisted
<1>5. Item(d, key) = value \/ (key = "-" /\ Item(d, "-1") = value)
  BY <1>1, <1>4 DEF Item
<1> QED BY <1>3, <1>5 DEF Wrote, Relisted

LEMMA EndPosition ==
  ASSUME NEW list, Len(list) \in Nat, Len(list) # 0
  PROVE  /\ Position(list, "-1") = Len(list)
         /\ \A key \in DOMAIN Numeral : Numeral[key] = Len(list) - 1 => Position(list, key) = Len(list)
  BY NumeralFacts DEF Position

LEMMA SetChildFacts ==
  ASSUME NEW heap, NEW c, IsContainer(heap, c), NEW value, IsItem(heap, value), NEW key,
         NEW allowNew \in BOOLEAN, SetChild(c, key, value, allowNew) # Raised
  PROVE  Wrote(heap, c, key, value, SetChild(c, key, value, allowNew))
<1> DEFINE d == SetChild(c, key, value, allowNew)
           atEnd == key = "-" \/ (key \in DOMAIN Numeral /\ Numeral[key] = Len(c.list))
<1>1. CASE IsDict(c)
  <2>1. d = [dict |-> [k \in DOMAIN c.dict \cup {key} |-> IF k = key THEN value ELSE c.dict[k]]]
    BY <1>1 DEF SetChild
  <2> HIDE DEF d
  <2>2. Wrote(heap, c, key, value, d)
    BY <1>1, <2>1, SetDict
  <2> QED BY <2>2 DEF d
<1>2. ~IsDict(c) => IsList(c.list) /\ Len(c.list) \in Nat
  <2>1. ~IsDict(c) => IsList(c.list)
    BY DEF IsContainer, IsDict
  <2> QED BY <2>1, ListFacts
<1>3. CASE ~IsDict(c) /\ allowNew /\ atEnd
  <2>1. d = [list |-> Append(c.list, value)]
    BY <1>3 DEF SetChild
  <2>2. DOMAIN d = {"list"} /\ d.list = Append(c.list, value)
    BY <2>1
  <2> HIDE DEF d
  <2> DEFINE p == Len(c.list) + 1
  <2>3. p \in Nat /\ p # 0 /\ p - 1 = Len(c.list)
    BY <1>2, <1>3
  <2> HIDE DEF p
  <2>4. Placed(d.list, c, value, p) /\ Len(d.list) = p
    BY <1>2, <1>3, <2>2, AppendedTo DEF p
  <2>5. key \in Indices /\ (Position(d.list, key) = p \/ (key = "-" /\ Position(d.list, "-1") = p))
    <3> DEFINE items == d.list
    <3>1. Len(items) = p
      BY <2>4
    <3> HIDE DEF items
    <3>2. /\ Position(items, "-1") = p
          /\ \A k \in DOMAIN Numeral : Numeral[k] = p - 1 => Position(items, k) = p
      BY <2>3, <3>1, EndPosition
    <3>3. key = "-" \/ (key \in DOMAIN Numeral /\ Numeral[key] = p - 1)
      BY <1>3, <2>3
    <3> QED BY <3>2, <3>3 DEF Indices, items
  <2>6. Wrote(heap, c, key, value, d)
    BY <1>3, <2>2, <2>4, <2>5, SetInList
  <2> QED BY <2>6 DEF d
<1>4. CASE ~IsDict(c) /\ ~(allowNew /\ atEnd)
  <2> DEFINE p == Position(c.list, key)
  <2>1. p # 0 /\ d = [list |-> [c.list EXCEPT ![p] = value]]
    BY <1>4 DEF SetChild
  <2>2. DOMAIN d = {"list"} /\ d.list = [c.list EXCEPT ![p] = value]
    BY <2>1
  <2>3. p \in 1..Len(c.list) /\ key \in Indices
    BY <2>1 DEF Position, Indices
  <2> HIDE DEF d, p
  <2>4. Placed(d.list, c, value, p) /\ Len(d.list) = Len(c.list)
    BY <1>2, <1>4, <2>2, <2>3, PutAt
  <2>5. Position(d.list, key) = p
    BY <2>4 DEF Position, p
  <2>6. Wrote(heap, c, key, value, d)
    BY <1>4, <2>2, <2>3, <2>4, <2>5, SetInList
  <2> QED BY <2>6 DEF d
<1> QED BY <1>1, <1>3, <1>4

LEMMA RemoveChildFacts ==
  ASSUME NEW heap, NEW c, IsContainer(heap, c), NEW key, RemoveChild(c, key) # Raised
  PROVE  Removed(heap, c, key, RemoveChild(c, key))
<1> DEFINE d == RemoveChild(c, key)
<1>1. CASE IsDict(c)
  <2>1. d = [dict |-> [k \in DOMAIN c.dict \ {key} |-> c.dict[k]]]
    BY <1>1 DEF RemoveChild
  <2> HIDE DEF d
  <2>2. Removed(heap, c, key, d)
    BY <1>1, <2>1, RemoveDict
  <2> QED BY <2>2 DEF d
<1>2. CASE ~IsDict(c)
  <2> DEFINE p == Position(c.list, key)
             list == RemoveAt(c.list, p)
  <2>1. p # 0 /\ d = [list |-> list]
    BY <1>2 DEF RemoveChild
  <2>2. p \in 1..Len(c.list) /\ key \in Indices
    BY <2>1 DEF Position, Indices
  <2> HIDE DEF p, d
  <2>3. IsList(c.list)
    BY <1>2 DEF IsContainer, IsDict
  <2>4. /\ IsList(list)
        /\ \A i \in 1..Len(list) : \E j \in 1..Len(c.list) : list[i] = c.list[j]
    BY <2>2, <2>3, RemovedFacts
  <2> HIDE DEF list
  <2>5. IsItem(heap, << >>) /\ ~IsRef(<< >>)
    BY DEF IsItem, IsRef, Raised
  <2>6. Relisted(heap, c, key, << >>, d)
    <3>1. DOMAIN d = {"list"} /\ d.list = list
      BY <2>1
    <3>2. Holds(d.list, c, << >>)
      BY <2>4, <3>1 DEF Holds
    <3> QED BY <1>2, <2>2, <2>5, <3>1, <3>2, ListHas
  <2>7. Removed(heap, c, key, d)
    BY <1>2, <2>2, <2>5, <2>6 DEF Removed, Relisted
  <2> QED BY <2>7 DEF d
<1> QED BY <1>1, <1>2

\* What one operation that succeeds does to the objects.
IsStep(heap, root, operation, more, at) ==
    LET path == operation.path
        m == Len(path) - 1
        key == path[Len(path)]
        p == at[m].ref
        c == heap[p]
        d == more[p]
    IN  /\ m \in Nat /\ Walk(heap, root, path, m, at) /\ IsRef(at[m]) /\ p \in DOMAIN heap
        /\ more = [r \in DOMAIN heap |-> more[r]]
        /\ \A r \in DOMAIN heap : r # p => more[r] = heap[r]
        /\ \/ operation.op \in {"add", "replace"} /\ Wrote(heap, c, key, operation.value, d)
           \/ operation.op = "remove" /\ Removed(heap, c, key, d)

LEMMA OperationFacts ==
  ASSUME NEW heap, WellFormed(heap), NEW root \in DOMAIN heap, NEW operation,
         operation.op \in {"add", "replace", "remove"}, IsList(operation.path),
         operation.op # "remove" => IsItem(heap, operation.value),
         ApplyOperation(heap, root, operation).ok
  PROVE  \E at : IsStep(heap, root, operation, ApplyOperation(heap, root, operation).heap, at)
<1> DEFINE path == operation.path
           front == Front(path)
           m == Len(path) - 1
           key == Last(path)
           parent == Descend(heap, root, front)
           changed == Changed(heap, parent, key, operation)
           more == ApplyOperation(heap, root, operation).heap
<1>1. /\ path # << >> /\ IsRef(parent) /\ changed # Raised
      /\ more = [heap EXCEPT ![parent.ref] = changed]
  BY DEF ApplyOperation
<1>2. Len(path) \in Nat /\ Len(path) # 0 /\ key = path[Len(path)]
  BY <1>1, ListFacts DEF Last
<1>3. m \in Nat /\ Len(front) = m /\ \A i \in 1..m : front[i] = path[i]
  <2>1. /\ 1 \in 1..(Len(path) + 1) /\ m \in (1 - 1)..Len(path) /\ m - 1 + 1 = m
        /\ \A i \in 1..m : 1 + i - 1 = i
    BY <1>2
  <2>2. front = SubSeq(path, 1, m)
    BY DEF Front
  <2> HIDE DEF m
  <2>3. /\ Len(SubSeq(path, 1, m)) = m - 1 + 1
        /\ \A i \in 1..(m - 1 + 1) : SubSeq(path, 1, m)[i] = path[1 + i - 1]
    BY <2>1, PartFacts
  <2>4. m \in Nat
    BY <1>2 DEF m
  <2> HIDE DEF front
  <2> QED BY <2>1, <2>2, <2>3, <2>4
<1> HIDE DEF parent, front, changed, more, m, key
<1>4. PICK at : Walk(heap, root, front, m, at) /\ parent = at[m]
  BY <1>3, WalkSteps DEF parent
<1>5. Walk(heap, root, path, m, at)
  BY <1>3, <1>4 DEF Walk
<1>6. parent # Raised
  BY <1>1 DEF IsRef, Raised
<1>7. IsItem(heap, at[m])
  BY <1>3, <1>4, <1>5, <1>6, WalkFacts
<1>8. parent.ref \in DOMAIN heap
  BY <1>1, <1>4, <1>7 DEF IsItem
<1>9. /\ more = [r \in DOMAIN heap |-> more[r]] /\ more[parent.ref] = changed
      /\ \A r \in DOMAIN heap : r # parent.ref => more[r] = heap[r]
  BY <1>1, <1>8
<1>10. IsContainer(heap, heap[parent.ref])
  BY <1>8 DEF WellFormed
<1>11. \/ /\ operation.op \in {"add", "replace"}
          /\ Wrote(heap, heap[parent.ref], key, operation.value, changed)
       \/ operation.op = "remove" /\ Removed(heap, heap[parent.ref], key, changed)
  <2>1. CASE operation.op = "add"
    <3>1. changed = SetChild(heap[parent.ref], key, operation.value, TRUE)
      BY <2>1 DEF changed, Changed
    <3> QED BY <1>1, <1>10, <2>1, <3>1, SetChildFacts
  <2>2. CASE operation.op = "replace"
    <3>1. changed = SetChild(heap[parent.ref], key, operation.value, FALSE)
      BY <1>1, <2>2 DEF changed, Changed
    <3> QED BY <1>1, <1>10, <2>2, <3>1, SetChildFacts
  <2>3. CASE operation.op = "remove"
    <3>1. changed = RemoveChild(heap[parent.ref], key)
      BY <2>3 DEF changed, Changed
    <3> QED BY <1>1, <1>10, <2>3, <3>1, RemoveChildFacts
  <2> QED BY <2>1, <2>2, <2>3
<1>12. IsStep(heap, root, operation, more, at)
  BY <1>1, <1>2, <1>3, <1>4, <1>5, <1>8, <1>9, <1>11 DEF IsStep, m
<1> QED BY <1>12 DEF more

LEMMA SameParts ==
  ASSUME NEW s, IsList(s), NEW t, IsList(t), NEW n \in Nat, n <= Len(s), n <= Len(t),
         \A i \in 1..n : s[i] = t[i]
  PROVE  SubSeq(s, 1, n) = SubSeq(t, 1, n)
<1>1. 1 \in 1..(Len(s) + 1) /\ n \in (1 - 1)..Len(s) /\ n - 1 + 1 = n /\ \A i \in 1..n : 1 + i - 1 = i
  BY ListFacts
<1>2. 1 \in 1..(Len(t) + 1) /\ n \in (1 - 1)..Len(t)
  BY ListFacts
<1> DEFINE a == SubSeq(s, 1, n)
           b == SubSeq(t, 1, n)
<1>3. IsList(a) /\ Len(a) = n - 1 + 1 /\ \A i \in 1..(n - 1 + 1) : a[i] = s[1 + i - 1]
  BY <1>1, PartFacts
<1>4. IsList(b) /\ Len(b) = n - 1 + 1 /\ \A i \in 1..(n - 1 + 1) : b[i] = t[1 + i - 1]
  BY <1>1, <1>2, PartFacts
<1> HIDE DEF a, b
<1>5. a = [i \in 1..n |-> a[i]] /\ b = [i \in 1..n |-> b[i]]
  BY <1>1, <1>3, <1>4 DEF IsList
<1>6. \A i \in 1..n : a[i] = b[i]
  BY <1>1, <1>3, <1>4
<1>7. a = b
  BY <1>5, <1>6
<1> QED BY <1>7 DEF a, b

\* The names at the beginning of a path.
LEMMA NamedFacts ==
  ASSUME NEW path, IsList(path)
  PROVE  /\ IsList(Named(path)) /\ Len(Named(path)) <= Len(path)
         /\ \A i \in 1..Len(Named(path)) : Named(path)[i] = path[i] /\ path[i] \notin Indices
<1> DEFINE positions == {i \in DOMAIN path : path[i] \in DOMAIN Numeral \cup {"-"}}
<1>1. Len(path) \in Nat /\ DOMAIN path = 1..Len(path)
  BY ListFacts
<1>2. CASE positions = {}
  <2>1. Named(path) = path
    BY <1>2 DEF Named
  <2>2. \A i \in 1..Len(path) : path[i] \notin Indices
    BY <1>1, <1>2 DEF Indices
  <2> QED BY <1>1, <2>1, <2>2
<1>3. CASE positions # {}
  <2> DEFINE least == Min(positions)
  <2>1. positions \subseteq Nat
    BY <1>1
  <2>2. Named(path) = SubSeq(path, 1, least - 1)
    BY <1>3 DEF Named
  <2> HIDE DEF positions
  <2>3. least \in positions /\ \A x \in positions : least <= x
    BY <1>3, <2>1, LeastOf
  <2> HIDE DEF least
  <2>4. least \in 1..Len(path) /\ \A i \in 1..(least - 1) : path[i] \notin Indices
    <3>1. least \in 1..Len(path)
      BY <1>1, <2>3 DEF positions
    <3>2. \A i \in 1..(least - 1) : i \in 1..Len(path) /\ ~(least <= i)
      BY <1>1, <3>1
    <3> QED BY <1>1, <2>3, <3>1, <3>2 DEF positions, Indices
  <2>5. /\ 1 \in 1..(Len(path) + 1) /\ least - 1 \in (1 - 1)..Len(path)
        /\ (least - 1) - 1 + 1 = least - 1 /\ least - 1 <= Len(path)
        /\ \A i \in 1..(least - 1) : 1 + i - 1 = i
    BY <1>1, <2>4
  <2> DEFINE part == SubSeq(path, 1, least - 1)
  <2>6. /\ IsList(part) /\ Len(part) = (least - 1) - 1 + 1
        /\ \A i \in 1..((least - 1) - 1 + 1) : part[i] = path[1 + i - 1]
    BY <2>5, PartFacts
  <2> HIDE DEF part
  <2>7. Len(part) = least - 1 /\ \A i \in 1..(least - 1) : part[i] = path[i]
    BY <2>5, <2>6
  <2> QED BY <2>2, <2>4, <2>5, <2>6, <2>7 DEF part
<1> QED BY <1>2, <1>3

\* A path to the same place, or to inside it, begins with the same names.
LEMMA NamedAlike ==
  ASSUME NEW path, IsList(path), NEW other, IsList(other), Len(path) <= Len(other),
         \A i \in 1..Len(path) : Alike(path[i], other[i])
  PROVE  /\ IsPrefix(Named(path), other)
         /\ Len(path) < Len(other) => IsStrictPrefix(Named(path), other)
<1> DEFINE names == Named(path)
           n == Len(names)
<1>1. /\ IsList(names) /\ n <= Len(path)
      /\ \A i \in 1..n : names[i] = path[i] /\ path[i] \notin Indices
  BY NamedFacts
<1> HIDE DEF names
<1>2. n \in Nat /\ Len(path) \in Nat /\ Len(other) \in Nat
  BY <1>1, ListFacts
<1>3. n <= Len(other) /\ n <= Len(names) /\ \A i \in 1..n : i \in 1..Len(path)
  BY <1>1, <1>2
<1>4. \A i \in 1..n : names[i] = other[i]
  BY <1>1, <1>3 DEF Alike
<1> HIDE DEF n
<1>5. SubSeq(names, 1, n) = SubSeq(other, 1, n)
  BY <1>1, <1>2, <1>3, <1>4, SameParts
<1>6. IsPrefix(names, other)
  BY <1>3, <1>5 DEF IsPrefix, n
<1>7. Len(path) < Len(other) => names # other
  BY <1>1, <1>2 DEF n
<1> QED BY <1>6, <1>7 DEF IsStrictPrefix, names

\* What may be in a place that was not there before.
Puts(operation, at, q, key, r) ==
    LET path == operation.path
    IN  /\ operation.op \in {"add", "replace"} /\ IsRef(operation.value)
        /\ r = operation.value.ref /\ q = at[Len(path) - 1].ref /\ Alike(path[Len(path)], key)

LEMMA StepFacts ==
  ASSUME NEW heap, WellFormed(heap), NEW root, NEW operation, NEW more, NEW at,
         IsStep(heap, root, operation, more, at)
  PROVE  /\ WellFormed(more) /\ DOMAIN more = DOMAIN heap
         /\ \A q, key, r : PointsTo(more, q, key, r) =>
               PointsTo(heap, q, key, r) \/ Puts(operation, at, q, key, r)
<1> DEFINE path == operation.path
           last == path[Len(path)]
           p == at[Len(path) - 1].ref
<1>1. /\ p \in DOMAIN heap /\ more = [r \in DOMAIN heap |-> more[r]]
      /\ \A r \in DOMAIN heap : r # p => more[r] = heap[r]
      /\ \/ /\ operation.op \in {"add", "replace"}
            /\ Wrote(heap, heap[p], last, operation.value, more[p])
         \/ operation.op = "remove" /\ Removed(heap, heap[p], last, more[p])
  BY DEF IsStep
<1> HIDE DEF p, last
<1>2. DOMAIN more = DOMAIN heap
  BY <1>1
<1>3. IsContainer(heap, more[p])
  BY <1>1 DEF Wrote, Removed
<1>4. \A r \in DOMAIN heap : IsContainer(heap, more[r])
  BY <1>1, <1>3 DEF WellFormed
<1>5. \A r \in DOMAIN heap : IsContainer(more, more[r])
  BY <1>2, <1>4 DEF IsContainer, IsItem
<1>6. WellFormed(more)
  BY <1>1, <1>2, <1>5 DEF WellFormed
<1>7. ASSUME NEW q, NEW key, NEW r, PointsTo(more, q, key, r)
      PROVE  PointsTo(heap, q, key, r) \/ Puts(operation, at, q, key, r)
  <2>1. q \in DOMAIN heap /\ Has(more[q], key, r)
    BY <1>2, <1>7 DEF PointsTo
  <2>2. CASE q # p
    BY <1>1, <2>1, <2>2 DEF PointsTo
  <2>3. CASE q = p /\ operation.op = "remove"
    <3>1. Removed(heap, heap[p], last, more[p])
      BY <1>1, <2>3
    <3> QED BY <2>1, <2>3, <3>1 DEF PointsTo, Removed
  <2>4. CASE q = p /\ operation.op # "remove"
    <3>1. operation.op \in {"add", "replace"} /\ Wrote(heap, heap[p], last, operation.value, more[p])
      BY <1>1, <2>4
    <3>2. \/ Has(heap[p], key, r)
          \/ IsRef(operation.value) /\ r = operation.value.ref /\ Alike(last, key)
      BY <2>1, <2>4, <3>1 DEF Wrote
    <3> QED BY <2>1, <2>4, <3>1, <3>2 DEF PointsTo, Puts, p, last
  <2> QED BY <2>2, <2>3, <2>4
<1> QED BY <1>2, <1>6, <1>7

\* A walk that an operation may not lead elsewhere: one that does not pass
\* the changed object, or passes it by another name.
LEMMA KeptApart ==
  ASSUME NEW heap, WellFormed(heap), NEW root \in DOMAIN heap, NEW operation, NEW more, NEW to,
         IsStep(heap, root, operation, more, to), IsList(operation.path),
         NEW home, AtHome(heap, home), root \notin DOMAIN home,
         NEW path, IsList(path), NEW at, Walk(heap, root, path, Len(path), at),
         at[Len(path)] # Raised, ~IsPrefix(Named(operation.path), path)
  PROVE  Walk(more, root, path, Len(path), at)
<1> DEFINE n == Len(path)
           other == operation.path
           m == Len(other) - 1
           last == other[Len(other)]
           p == to[m].ref
<1>1. /\ m \in Nat /\ Walk(heap, root, other, m, to) /\ IsRef(to[m]) /\ p \in DOMAIN heap
      /\ \A r \in DOMAIN heap : r # p => more[r] = heap[r]
      /\ \/ Wrote(heap, heap[p], last, operation.value, more[p])
         \/ Removed(heap, heap[p], last, more[p])
  BY DEF IsStep
<1>2. n \in Nat /\ Len(other) \in Nat /\ Len(other) = m + 1
  BY ListFacts
<1> HIDE DEF m, n
<1>3. to[m] # Raised /\ m \in 0..m
  BY <1>1 DEF IsRef, Raised
<1>4. Leads(home, root, other, m, p)
  BY <1>1, <1>3, WalkLeads
<1> HIDE DEF p, last
<1>5. Walk(heap, root, path, n, at) /\ at[n] # Raised
  BY DEF n
<1>6. /\ \A k \in 0..n : IsItem(heap, at[k])
      /\ \A k \in 1..n : IsRef(at[k - 1])
  BY <1>2, <1>5, WalkFacts
<1>7. \A k \in 0..n : at[k] # Raised
  BY <1>6 DEF IsItem
<1>8. ASSUME NEW k \in 1..n PROVE Child(more, at[k - 1], path[k]) = Child(heap, at[k - 1], path[k])
  <2>1. k - 1 \in 0..n /\ k \in 0..n
    BY <1>2
  <2>2. IsRef(at[k - 1]) /\ at[k - 1].ref \in DOMAIN heap /\ Child(heap, at[k - 1], path[k]) # Raised
    BY <1>5, <1>6, <1>7, <2>1 DEF IsItem, Walk
  <2>3. CASE at[k - 1].ref # p
    BY <1>1, <2>2, <2>3 DEF Child
  <2>4. CASE at[k - 1].ref = p
    <3>1. Leads(home, root, path, k - 1, p)
      BY <1>2, <1>5, <2>1, <2>2, <2>4, WalkLeads
    <3>2. m = k - 1 /\ \A i \in 1..m : Alike(other[i], path[i])
      <4> DEFINE j == k - 1
      <4>1. j \in Nat /\ m \in Nat
        BY <1>1
      <4>2. Leads(home, root, path, j, p)
        BY <3>1
      <4> HIDE DEF j
      <4>3. m = j /\ \A i \in 1..j : Alike(other[i], path[i])
        BY <1>4, <4>1, <4>2, LeadsOneWay
      <4> QED BY <4>3 DEF j
    <3>3. ~Alike(last, path[k])
      <4> SUFFICES ASSUME Alike(last, path[k]) PROVE FALSE
        OBVIOUS
      <4>1. Len(other) = k /\ Len(other) <= Len(path)
        BY <1>2, <3>2 DEF n
      <4>2. \A i \in 1..Len(other) : i \in 1..m \/ i = k
        BY <1>1, <1>2, <3>2
      <4>3. \A i \in 1..Len(other) : Alike(other[i], path[i])
        BY <3>2, <4>1, <4>2 DEF last
      <4> QED BY <4>1, <4>3, NamedAlike
    <3>4. path[k] # last
      BY <3>3 DEF Alike
    <3>5. CASE IsDict(heap[p])
      <4>1. IsDict(more[p]) /\ Item(more[p], path[k]) = Item(heap[p], path[k])
        BY <1>1, <3>4, <3>5 DEF Wrote, Removed
      <4> QED BY <2>2, <2>4, <3>5, <4>1 DEF Child, Item
    <3>6. CASE ~IsDict(heap[p])
      <4>1. last \in Indices
        BY <1>1, <3>6 DEF Wrote, Removed
      <4>2. Position(heap[p].list, path[k]) # 0
        BY <2>2, <2>4, <3>6 DEF Child
      <4>3. path[k] \in Indices
        BY <4>2 DEF Position, Indices
      <4> QED BY <3>3, <4>1, <4>3 DEF Alike
    <3> QED BY <3>5, <3>6
  <2> QED BY <2>3, <2>4
<1>9. Walk(more, root, path, n, at)
  BY <1>2, <1>5, <1>8, WalkElsewhere
<1> QED BY <1>9 DEF n

-----------------------------------------------------------------------------
(* A patch.  While its operations are carried out no object is in two      *)
(* places, and the objects of its values are where operations put them.    *)

IsSet(operation) == IsRef(operation.value)

Orderly(proposal, genome, n, heap, home) ==
    LET operations == proposal.operations
        own == DOMAIN proposal.heap
    IN  /\ WellFormed(heap) /\ DOMAIN heap = own \cup DOMAIN genome.heap
        /\ AtHome(heap, home) /\ genome.root \notin DOMAIN home
        /\ \A i \in 1..Len(operations) :
              i > n /\ IsSet(operations[i]) => operations[i].value.ref \notin DOMAIN home
        /\ \A q, key, r : PointsTo(heap, q, key, r) /\ q \notin own /\ r \in own =>
              \E i \in 1..n : LET operation == operations[i]
                                  path == operation.path
                              IN  /\ i \in 1..Len(operations)
                                  /\ IsSet(operation) /\ operation.value.ref = r
                                  /\ Leads(home, genome.root, path, Len(path), r)

\* A genome and a proposal that have nothing in common.
ArePatchable(proposal, genome) ==
    /\ IsGenome(genome) /\ IsProposal(proposal)
    /\ DOMAIN proposal.heap \cap DOMAIN genome.heap = {}

LEMMA PatchFacts ==
  ASSUME NEW proposal, NEW genome, ArePatchable(proposal, genome)
  PROVE  LET operations == proposal.operations
             own == DOMAIN proposal.heap
         IN  /\ genome.root \in DOMAIN genome.heap /\ genome.root \notin own
             /\ AreTrees(genome.heap, {genome.root})
             /\ \E tops : AreTrees(proposal.heap, tops) /\ \A i \in 1..Len(operations) :
                             IsSet(operations[i]) => operations[i].value.ref \in tops
             /\ IsList(operations)
             /\ \A i \in 1..Len(operations) :
                   /\ operations[i].op \in {"add", "replace", "remove"}
                   /\ IsList(operations[i].path)
                   /\ operations[i].value # Raised
                   /\ IsSet(operations[i]) => operations[i].value.ref \in own
             /\ \A i, j \in 1..Len(operations) :
                   /\ IsSet(operations[i]) /\ IsSet(operations[j])
                   /\ operations[i].value.ref = operations[j].value.ref
                   => i = j
<1> DEFINE operations == proposal.operations
           setting == {i \in DOMAIN operations : IsRef(operations[i].value)}
           tops == {operations[i].value.ref : i \in setting}
           own == DOMAIN proposal.heap
<1>1. /\ IsList(operations)
      /\ \A operation \in ToSet(operations) :
            /\ operation.op \in {"add", "replace", "remove"}
            /\ IsList(operation.path)
            /\ operation.value # Raised
      /\ AreTrees(proposal.heap, tops)
      /\ \A i, j \in setting : operations[i].value.ref = operations[j].value.ref => i = j
  BY DEF ArePatchable, IsProposal, IsList
<1>2. DOMAIN operations = 1..Len(operations)
  BY <1>1, ListFacts
<1>3. \A i \in 1..Len(operations) : IsSet(operations[i]) => i \in setting
  BY <1>2 DEF IsSet
<1>4. \A i \in 1..Len(operations) : operations[i] \in ToSet(operations)
  BY <1>2 DEF ToSet
<1>5. \A i \in 1..Len(operations) : IsSet(operations[i]) => operations[i].value.ref \in tops
  BY <1>3
<1>6. AreTrees(genome.heap, {genome.root})
  BY DEF ArePatchable, IsGenome
<1> HIDE DEF setting, tops
<1>7. tops \subseteq own
  BY <1>1 DEF AreTrees
<1>8. genome.root \in DOMAIN genome.heap
  BY <1>6 DEF AreTrees
<1>9. genome.root \notin own
  BY <1>8 DEF ArePatchable
<1>10. \A i \in 1..Len(operations) :
          /\ operations[i].op \in {"add", "replace", "remove"}
          /\ IsList(operations[i].path)
          /\ operations[i].value # Raised
          /\ IsSet(operations[i]) => operations[i].value.ref \in own
  BY <1>1, <1>4, <1>5, <1>7
<1>11. \A i, j \in 1..Len(operations) :
          IsSet(operations[i]) /\ IsSet(operations[j])
          /\ operations[i].value.ref = operations[j].value.ref => i = j
  BY <1>1, <1>3
<1>12. \E t : AreTrees(proposal.heap, t) /\ \A i \in 1..Len(operations) :
                 IsSet(operations[i]) => operations[i].value.ref \in t
  BY <1>1, <1>5
<1> QED BY <1>1, <1>6, <1>8, <1>9, <1>10, <1>11, <1>12

LEMMA LeadsOneMore ==
  ASSUME NEW home, NEW more, \A r \in DOMAIN home : r \in DOMAIN more /\ more[r] = home[r],
         NEW root, NEW keys, NEW n \in Nat, n # 0, NEW q, NEW r,
         Leads(home, root, keys, n - 1, q),
         r \in DOMAIN more, more[r].in = q, Alike(more[r].key, keys[n])
  PROVE  Leads(more, root, keys, n, r)
<1>1. PICK x : /\ x[0] = root /\ x[n - 1] = q
               /\ \A k \in 1..(n - 1) : /\ x[k] \in DOMAIN home
                                        /\ home[x[k]].in = x[k - 1]
                                        /\ Alike(home[x[k]].key, keys[k])
  BY DEF Leads
<1> DEFINE y == [k \in 0..n |-> IF k = n THEN r ELSE x[k]]
<1>2. y[0] = root /\ y[n] = r
  BY <1>1
<1>3. ASSUME NEW k \in 1..n
      PROVE  /\ y[k] \in DOMAIN more
             /\ more[y[k]].in = y[k - 1]
             /\ Alike(more[y[k]].key, keys[k])
  <2>1. k - 1 \in 0..n /\ k - 1 # n /\ k \in 0..n
    OBVIOUS
  <2>2. CASE k = n
    BY <1>1, <2>1, <2>2
  <2>3. CASE k # n
    <3>1. k \in 1..(n - 1) /\ y[k] = x[k] /\ y[k - 1] = x[k - 1]
      BY <2>1, <2>3
    <3> HIDE DEF y
    <3> QED BY <1>1, <3>1
  <2> QED BY <2>2, <2>3
<1> HIDE DEF y
<1> QED BY <1>2, <1>3 DEF Leads

LEMMA OrderlyStep ==
  ASSUME NEW proposal, NEW genome, ArePatchable(proposal, genome),
         NEW n \in Nat, n + 1 \in 1..Len(proposal.operations),
         NEW heap, NEW home, Orderly(proposal, genome, n, heap, home), NEW more, NEW at,
         IsStep(heap, genome.root, proposal.operations[n + 1], more, at)
  PROVE  \E homes : Orderly(proposal, genome, n + 1, more, homes)
<1> DEFINE operations == proposal.operations
           own == DOMAIN proposal.heap
           root == genome.root
           operation == operations[n + 1]
           path == operation.path
           last == path[Len(path)]
           m == Len(path) - 1
           p == at[m].ref
           v == operation.value.ref
           puts == operation.op \in {"add", "replace"} /\ IsSet(operation)
           homes == IF puts THEN [r \in DOMAIN home \cup {v} |->
                                     IF r = v THEN [in |-> p, key |-> last] ELSE home[r]]
                    ELSE home
<1>1. /\ WellFormed(heap) /\ DOMAIN heap = own \cup DOMAIN genome.heap
      /\ AtHome(heap, home) /\ root \notin DOMAIN home
      /\ \A i \in 1..Len(operations) :
            i > n /\ IsSet(operations[i]) => operations[i].value.ref \notin DOMAIN home
  BY DEF Orderly
<1>2. \A q, key, r : PointsTo(heap, q, key, r) /\ q \notin own /\ r \in own =>
         \E i \in 1..n : LET o == operations[i]
                         IN  /\ i \in 1..Len(operations)
                             /\ IsSet(o) /\ o.value.ref = r
                             /\ Leads(home, root, o.path, Len(o.path), r)
  BY DEF Orderly
<1>3. /\ root \in DOMAIN genome.heap /\ root \notin own
      /\ IsList(operations)
      /\ \A i \in 1..Len(operations) : IsSet(operations[i]) => operations[i].value.ref \in own
      /\ \A i, j \in 1..Len(operations) :
            IsSet(operations[i]) /\ IsSet(operations[j])
            /\ operations[i].value.ref = operations[j].value.ref => i = j
  BY PatchFacts
<1>4. Len(operations) \in Nat /\ n + 1 > n
  BY <1>3, ListFacts
<1>5. IsSet(operation) => v \notin DOMAIN home /\ v \in own
  BY <1>1, <1>3, <1>4
<1>6. /\ m \in Nat /\ Walk(heap, root, path, m, at) /\ IsRef(at[m]) /\ p \in DOMAIN heap
  BY DEF IsStep
<1>7. Leads(home, root, path, m, p)
  <2>1. at[m] # Raised /\ m \in 0..m /\ root \in DOMAIN heap
    BY <1>1, <1>3, <1>6 DEF IsRef, Raised
  <2> HIDE DEF m, p
  <2>2. Leads(home, root, path, m, at[m].ref)
    BY <1>1, <1>6, <2>1, WalkLeads
  <2> QED BY <2>2 DEF p
<1>8. /\ WellFormed(more) /\ DOMAIN more = DOMAIN heap
      /\ \A q, key, r : PointsTo(more, q, key, r) =>
               PointsTo(heap, q, key, r) \/ Puts(operation, at, q, key, r)
  BY <1>1, StepFacts
<1>9. \A q, key, r : Puts(operation, at, q, key, r) => puts /\ r = v /\ q = p /\ Alike(last, key)
  BY DEF Puts, IsSet
<1> HIDE DEF m, p, last, v, path, operation, operations
<1>10. \A r \in DOMAIN home : r \in DOMAIN homes /\ homes[r] = home[r]
  <2>1. CASE puts
    BY <1>5, <2>1
  <2>2. CASE ~puts
    BY <2>2
  <2> QED BY <2>1, <2>2
<1>11. puts => v \in DOMAIN homes /\ homes[v].in = p /\ homes[v].key = last
  OBVIOUS
<1>12. \A r \in DOMAIN homes : r \in DOMAIN home \/ (IsSet(operation) /\ r = v)
  <2>1. CASE puts
    BY <2>1
  <2>2. CASE ~puts
    BY <2>2
  <2> QED BY <2>1, <2>2
<1> HIDE DEF homes
<1>13. AtHome(more, homes)
  <2> SUFFICES ASSUME NEW q, NEW key, NEW r, PointsTo(more, q, key, r)
               PROVE  r \in DOMAIN homes /\ homes[r].in = q /\ Alike(homes[r].key, key)
    BY DEF AtHome
  <2>1. CASE PointsTo(heap, q, key, r)
    <3>1. r \in DOMAIN home /\ home[r].in = q /\ Alike(home[r].key, key)
      BY <1>1, <2>1 DEF AtHome
    <3> QED BY <1>10, <3>1
  <2>2. CASE Puts(operation, at, q, key, r)
    BY <1>9, <1>11, <2>2
  <2> QED BY <1>8, <2>1, <2>2
<1>14. root \notin DOMAIN homes
  BY <1>1, <1>3, <1>5, <1>12
<1>15. ASSUME NEW i \in 1..Len(operations), i > n + 1, IsSet(operations[i])
       PROVE  operations[i].value.ref \notin DOMAIN homes
  <2>1. i > n /\ i # n + 1
    BY <1>4, <1>15
  <2>2. operations[i].value.ref \notin DOMAIN home
    BY <1>1, <1>15, <2>1 DEF operations
  <2>3. IsSet(operation) => operations[i].value.ref # v
    BY <1>3, <1>15, <2>1 DEF operation, v, operations
  <2> QED BY <1>12, <2>2, <2>3
<1>16. ASSUME NEW q, NEW key, NEW r, PointsTo(more, q, key, r), q \notin own, r \in own
       PROVE  \E i \in 1..(n + 1) : LET o == operations[i]
                                    IN  /\ i \in 1..Len(operations)
                                        /\ IsSet(o) /\ o.value.ref = r
                                        /\ Leads(homes, root, o.path, Len(o.path), r)
  <2>1. CASE PointsTo(heap, q, key, r)
    <3>1. PICK i \in 1..n : LET o == operations[i]
                            IN  /\ i \in 1..Len(operations)
                                /\ IsSet(o) /\ o.value.ref = r
                                /\ Leads(home, root, o.path, Len(o.path), r)
      BY <1>2, <1>16, <2>1 DEF operations
    <3>2. Leads(homes, root, operations[i].path, Len(operations[i].path), r)
      BY <1>10, <3>1, LeadsStill
    <3>3. i \in 1..(n + 1)
      OBVIOUS
    <3> QED BY <3>1, <3>2, <3>3
  <2>2. CASE Puts(operation, at, q, key, r)
    <3>1. puts /\ r = v
      BY <1>9, <2>2
    <3> DEFINE l == Len(path)
    <3>2. l \in Nat /\ l # 0 /\ l - 1 = m
      <4>1. IsList(path)
        BY PatchFacts DEF path, operation, operations
      <4> QED BY <1>6, <4>1, ListFacts DEF m
    <3> HIDE DEF l
    <3>3. Leads(home, root, path, l - 1, p) /\ Alike(homes[v].key, path[l])
      BY <1>7, <1>11, <3>1, <3>2 DEF Alike, last, l
    <3>4. Leads(homes, root, path, l, v)
      BY <1>10, <1>11, <3>1, <3>2, <3>3, LeadsOneMore
    <3>5. IsSet(operation) /\ operation.value.ref = r
      BY <3>1 DEF v
    <3>6. n + 1 \in 1..(n + 1)
      OBVIOUS
    <3> QED BY <3>1, <3>4, <3>5, <3>6 DEF operation, path, operations, l
  <2> QED BY <1>8, <1>16, <2>1, <2>2
<1>17. DOMAIN more = own \cup DOMAIN genome.heap
  BY <1>1, <1>8
<1>18. Orderly(proposal, genome, n + 1, more, homes)
  BY <1>8, <1>13, <1>14, <1>15, <1>16, <1>17 DEF Orderly, operations
<1> QED BY <1>18

AreKept(refs, heap, more) == \A r \in refs : more[r] = heap[r]

\* An operation that changes an object of the proposal's values follows one
\* that put it into the genome, on a path through the same place.
LEMMA KeptValues ==
  ASSUME NEW proposal, NEW genome, ArePatchable(proposal, genome),
         NEW n \in Nat, n + 1 \in 1..Len(proposal.operations),
         NEW heap, NEW home, Orderly(proposal, genome, n, heap, home), NEW more, NEW at,
         IsStep(heap, genome.root, proposal.operations[n + 1], more, at),
         ~Entangled(proposal.operations)
  PROVE  AreKept(DOMAIN proposal.heap, heap, more)
<1> DEFINE operations == proposal.operations
           own == DOMAIN proposal.heap
           root == genome.root
           path == operations[n + 1].path
           m == Len(path) - 1
           p == at[m].ref
<1>1. /\ WellFormed(heap) /\ DOMAIN heap = own \cup DOMAIN genome.heap
      /\ AtHome(heap, home) /\ root \notin DOMAIN home
  BY DEF Orderly
<1>2. \A q, key, r : PointsTo(heap, q, key, r) /\ q \notin own /\ r \in own =>
         \E i \in 1..n : LET o == operations[i]
                         IN  /\ i \in 1..Len(operations)
                             /\ IsSet(o) /\ o.value.ref = r
                             /\ Leads(home, root, o.path, Len(o.path), r)
  BY DEF Orderly
<1>3. /\ root \in DOMAIN heap /\ root \notin own /\ IsList(operations)
      /\ \A i \in 1..Len(operations) : IsList(operations[i].path)
  BY <1>1, PatchFacts
<1>4. /\ m \in Nat /\ Walk(heap, root, path, m, at) /\ IsRef(at[m])
      /\ \A r \in DOMAIN heap : r # p => more[r] = heap[r]
  BY DEF IsStep
<1>5. DOMAIN operations = 1..Len(operations)
  BY <1>3, ListFacts
<1>6. IsList(path) /\ Len(path) \in Nat /\ Len(path) = m + 1
  <2>1. IsList(path)
    BY <1>3
  <2> QED BY <2>1, ListFacts
<1> HIDE DEF m, p
<1>7. at[m] # Raised /\ \A k \in 1..m : k \in 0..m /\ k - 1 \in 0..m
  BY <1>4 DEF IsRef, Raised
<1>8. \A k \in 1..m : /\ IsRef(at[k - 1])
                      /\ IsRef(at[k]) => PointsTo(heap, at[k - 1].ref, path[k], at[k].ref)
  <2> HIDE DEF path, root
  <2> QED BY <1>1, <1>3, <1>4, <1>7, WalkFacts
<1> DEFINE S == {k \in Nat : k <= m => IsRef(at[k]) /\ at[k].ref \notin own}
<1>9. 0 \in S
  BY <1>3, <1>4 DEF Walk, IsRef
<1>10. ASSUME NEW k \in Nat, k \in S PROVE k + 1 \in S
  <2> SUFFICES ASSUME k + 1 <= m PROVE IsRef(at[k + 1]) /\ at[k + 1].ref \notin own
    OBVIOUS
  <2> DEFINE l == k + 1
  <2>1. /\ l \in 1..m /\ l - 1 = k /\ l \in 0..m /\ l \in Nat
        /\ (l # m => l + 1 \in 1..m /\ (l + 1) - 1 = l)
    BY <1>4
  <2>2. IsRef(at[k]) /\ at[k].ref \notin own
    BY <1>10, <1>4
  <2> HIDE DEF l
  <2>3. IsRef(at[l])
    BY <1>4, <1>8, <2>1
  <2>4. at[l].ref \notin own
    <3> SUFFICES ASSUME at[l].ref \in own PROVE FALSE
      OBVIOUS
    <3>1. PointsTo(heap, at[k].ref, path[l], at[l].ref)
      BY <1>8, <2>1, <2>3
    <3>2. PICK i \in 1..n : LET o == operations[i]
                            IN  /\ i \in 1..Len(operations)
                                /\ IsSet(o) /\ o.value.ref = at[l].ref
                                /\ Leads(home, root, o.path, Len(o.path), at[l].ref)
      BY <1>2, <2>2, <3>1
    <3> DEFINE other == operations[i].path
               j == Len(other)
    <3>3. IsList(other) /\ j \in Nat
      <4>1. IsList(other)
        BY <1>3, <3>2
      <4> QED BY <4>1, ListFacts
    <3>4. Leads(home, root, other, j, at[l].ref)
      BY <3>2
    <3>5. Leads(home, root, path, l, at[l].ref)
      <4> HIDE DEF path, root
      <4> QED BY <1>1, <1>3, <1>4, <1>7, <2>1, <2>3, WalkLeads
    <3> HIDE DEF j
    <3>6. j = l /\ \A x \in 1..l : Alike(other[x], path[x])
      <4> HIDE DEF other, path, root
      <4>1. root \notin DOMAIN home /\ j \in Nat /\ l \in Nat
        BY <1>1, <2>1, <3>3
      <4> DEFINE r == at[l].ref
      <4>2. Leads(home, root, other, j, r) /\ Leads(home, root, path, l, r)
        BY <3>4, <3>5
      <4> HIDE DEF r, S
      <4> QED BY <4>1, <4>2, LeadsOneWay
    <3>7. Len(other) < Len(path) /\ Len(other) <= Len(path)
      <4> HIDE DEF other, path, root
      <4>1. Len(other) = l /\ l \in 1..m /\ m \in Nat /\ Len(path) = m + 1
        BY <1>4, <1>6, <2>1, <3>6 DEF j
      <4> QED BY <4>1
    <3>8. \A x \in 1..Len(other) : Alike(other[x], path[x])
      BY <3>6 DEF j
    <3>9. IsStrictPrefix(Named(other), path)
      <4> HIDE DEF other, path
      <4> QED BY <1>6, <3>3, <3>7, <3>8, NamedAlike
    <3> HIDE DEF other, path
    <3> QED BY <1>5, <3>2, <3>9 DEF Entangled, IsSet, other, path
  <2> QED BY <2>3, <2>4 DEF l
<1> HIDE DEF S
<1>11. \A k \in Nat : k \in S
  BY <1>9, <1>10, Induction
<1>12. p \notin own
  BY <1>4, <1>11 DEF S, p
<1> QED BY <1>1, <1>4, <1>12 DEF AreKept

-----------------------------------------------------------------------------
(* Before the first operation.                                             *)

LEMMA TreeFacts ==
  ASSUME NEW heap, NEW tops, AreTrees(heap, tops)
  PROVE  /\ WellFormed(heap)
         /\ \A q, key, r : PointsTo(heap, q, key, r) => r \in DOMAIN heap \ tops
         /\ \A q, key, s, other, r : PointsTo(heap, q, key, r) /\ PointsTo(heap, s, other, r) =>
               q = s /\ Alike(key, other)
<1>1. /\ heap = [r \in DOMAIN heap |-> heap[r]]
      /\ \A r \in DOMAIN heap :
            /\ \/ DOMAIN heap[r] = {"dict"}
               \/ DOMAIN heap[r] = {"list"} /\ IsList(heap[r].list)
            /\ \A slot \in Slots(heap[r]) :
                  /\ Held(heap[r], slot) # Raised
                  /\ IsRef(Held(heap[r], slot)) => Held(heap[r], slot).ref \in DOMAIN heap \ tops
      /\ \A q, r \in DOMAIN heap : \A i \in Slots(heap[q]), j \in Slots(heap[r]) :
            /\ IsRef(Held(heap[q], i)) /\ IsRef(Held(heap[r], j))
            /\ Held(heap[q], i).ref = Held(heap[r], j).ref
            => q = r /\ i = j
  BY DEF AreTrees, IsList
<1>2. ASSUME NEW r \in DOMAIN heap PROVE IsContainer(heap, heap[r])
  <2>1. \A slot \in Slots(heap[r]) : IsItem(heap, Held(heap[r], slot))
    BY <1>1 DEF IsItem
  <2>2. CASE DOMAIN heap[r] = {"dict"}
    <3>1. Slots(heap[r]) = DOMAIN heap[r].dict
          /\ \A key \in DOMAIN heap[r].dict : Held(heap[r], key) = heap[r].dict[key]
      BY <2>2 DEF Slots, Held, IsDict
    <3> QED BY <2>1, <2>2, <3>1 DEF IsContainer
  <2>3. CASE DOMAIN heap[r] = {"list"} /\ IsList(heap[r].list)
    <3>1. Slots(heap[r]) = 1..Len(heap[r].list)
      BY <2>3, ListFacts DEF Slots, IsDict
    <3>2. \A i \in 1..Len(heap[r].list) : Held(heap[r], i) = heap[r].list[i]
      BY <2>3 DEF Held, IsDict
    <3> QED BY <2>1, <2>3, <3>1, <3>2 DEF IsContainer
  <2> QED BY <1>1, <2>2, <2>3
<1>3. ASSUME NEW q, NEW key, NEW r, PointsTo(heap, q, key, r)
      PROVE  /\ q \in DOMAIN heap
             /\ \E slot \in Slots(heap[q]) :
                   /\ IsRef(Held(heap[q], slot)) /\ Held(heap[q], slot).ref = r
                   /\ IF IsDict(heap[q]) THEN slot = key ELSE key \in Indices
  <2>1. q \in DOMAIN heap /\ Has(heap[q], key, r)
    BY <1>3 DEF PointsTo
  <2>2. CASE IsDict(heap[q])
    <3>1. key \in Slots(heap[q]) /\ Held(heap[q], key) = heap[q].dict[key]
      BY <2>1, <2>2 DEF Has, Slots, Held
    <3> QED BY <2>1, <2>2, <3>1 DEF Has
  <2>3. CASE ~IsDict(heap[q])
    <3>1. PICK i \in 1..Len(heap[q].list) : IsRef(heap[q].list[i]) /\ heap[q].list[i].ref = r
      BY <2>1, <2>3 DEF Has
    <3>2. IsList(heap[q].list)
      BY <1>1, <2>1, <2>3 DEF IsDict
    <3>3. i \in Slots(heap[q]) /\ Held(heap[q], i) = heap[q].list[i]
      BY <2>3, <3>2, ListFacts DEF Slots, Held
    <3>4. key \in Indices
      BY <2>1, <2>3 DEF Has
    <3> QED BY <2>1, <2>3, <3>1, <3>3, <3>4
  <2> QED BY <2>2, <2>3
<1>4. WellFormed(heap)
  BY <1>1, <1>2 DEF WellFormed
<1>5. ASSUME NEW q, NEW key, NEW r, PointsTo(heap, q, key, r) PROVE r \in DOMAIN heap \ tops
  BY <1>1, <1>3, <1>5
<1>6. ASSUME NEW q, NEW key, NEW s, NEW other, NEW r,
             PointsTo(heap, q, key, r), PointsTo(heap, s, other, r)
      PROVE  q = s /\ Alike(key, other)
  <2>1. PICK i \in Slots(heap[q]) : /\ q \in DOMAIN heap
                                    /\ IsRef(Held(heap[q], i)) /\ Held(heap[q], i).ref = r
                                    /\ IF IsDict(heap[q]) THEN i = key ELSE key \in Indices
    BY <1>3, <1>6
  <2>2. PICK j \in Slots(heap[s]) : /\ s \in DOMAIN heap
                                    /\ IsRef(Held(heap[s], j)) /\ Held(heap[s], j).ref = r
                                    /\ IF IsDict(heap[s]) THEN j = other ELSE other \in Indices
    BY <1>3, <1>6
  <2>3. q = s /\ i = j
    BY <1>1, <2>1, <2>2
  <2> QED BY <2>1, <2>2, <2>3 DEF Alike
<1> QED BY <1>4, <1>5, <1>6

LEMMA LargerHeap ==
  ASSUME NEW heap, NEW more, DOMAIN heap \subseteq DOMAIN more, NEW c, IsContainer(heap, c)
  PROVE  IsContainer(more, c)
<1>1. \A item : IsItem(heap, item) => IsItem(more, item)
  BY DEF IsItem
<1> QED BY <1>1 DEF IsContainer

LEMMA OrderlyStart ==
  ASSUME NEW proposal, NEW genome, ArePatchable(proposal, genome)
  PROVE  /\ \E home : Orderly(proposal, genome, 0, Objects(proposal, genome), home)
         /\ \A r \in DOMAIN proposal.heap : Objects(proposal, genome)[r] = proposal.heap[r]
         /\ \A r \in DOMAIN genome.heap : Objects(proposal, genome)[r] = genome.heap[r]
<1> DEFINE operations == proposal.operations
           new == proposal.heap
           old == genome.heap
           own == DOMAIN new
           heap == Objects(proposal, genome)
           held == {r \in DOMAIN heap : \E q, key : PointsTo(heap, q, key, r)}
           home == [r \in held |-> CHOOSE h : PointsTo(heap, h.in, h.key, r)]
<1>1. /\ AreTrees(old, {genome.root}) /\ genome.root \in DOMAIN old /\ genome.root \notin own
      /\ own \cap DOMAIN old = {}
  BY PatchFacts DEF ArePatchable
<1>2. PICK tops : AreTrees(new, tops) /\ \A i \in 1..Len(operations) :
                     IsSet(operations[i]) => operations[i].value.ref \in tops
  BY PatchFacts
<1>3. /\ heap = [r \in DOMAIN heap |-> heap[r]] /\ DOMAIN heap = own \cup DOMAIN old
      /\ \A r \in own : heap[r] = new[r]
      /\ \A r \in DOMAIN old : heap[r] = old[r]
  BY <1>1 DEF Objects
<1>4. /\ WellFormed(old)
      /\ \A q, key, r : PointsTo(old, q, key, r) => r \in DOMAIN old \ {genome.root}
      /\ \A q, key, s, other, r : PointsTo(old, q, key, r) /\ PointsTo(old, s, other, r) =>
               q = s /\ Alike(key, other)
  BY <1>1, TreeFacts
<1>5. /\ WellFormed(new)
      /\ \A q, key, r : PointsTo(new, q, key, r) => r \in DOMAIN new \ tops
      /\ \A q, key, s, other, r : PointsTo(new, q, key, r) /\ PointsTo(new, s, other, r) =>
               q = s /\ Alike(key, other)
  BY <1>2, TreeFacts
<1>6. tops \subseteq own
  BY <1>2 DEF AreTrees
<1> HIDE DEF heap
<1>7. WellFormed(heap)
  <2>1. ASSUME NEW r \in DOMAIN heap PROVE IsContainer(heap, heap[r])
    <3>1. CASE r \in own
      <4>1. IsContainer(new, new[r]) /\ DOMAIN new \subseteq DOMAIN heap
        BY <1>3, <1>5, <3>1 DEF WellFormed
      <4> HIDE DEF new
      <4>2. IsContainer(heap, new[r])
        BY <4>1, LargerHeap
      <4> QED BY <1>3, <3>1, <4>2
    <3>2. CASE r \in DOMAIN old
      <4>1. IsContainer(old, old[r]) /\ DOMAIN old \subseteq DOMAIN heap
        BY <1>3, <1>4, <3>2 DEF WellFormed
      <4> HIDE DEF old
      <4>2. IsContainer(heap, old[r])
        BY <4>1, LargerHeap
      <4> QED BY <1>3, <3>2, <4>2
    <3> QED BY <1>3, <3>1, <3>2
  <2> QED BY <1>3, <2>1 DEF WellFormed
<1>8. ASSUME NEW q, NEW key, NEW r, PointsTo(heap, q, key, r)
      PROVE  \/ q \in own /\ PointsTo(new, q, key, r)
             \/ q \in DOMAIN old /\ PointsTo(old, q, key, r)
  BY <1>3, <1>8 DEF PointsTo
<1> HIDE DEF new, old
<1>9. \A q, key, r : PointsTo(heap, q, key, r) =>
         /\ r \in DOMAIN heap /\ r # genome.root /\ r \notin tops
         /\ r \in own => q \in own
  BY <1>1, <1>3, <1>4, <1>5, <1>6, <1>8
<1>10. ASSUME NEW q, NEW key, NEW s, NEW other, NEW r,
              PointsTo(heap, q, key, r), PointsTo(heap, s, other, r)
       PROVE  q = s /\ Alike(key, other)
  <2>1. CASE PointsTo(new, q, key, r) /\ PointsTo(new, s, other, r)
    BY <1>5, <2>1
  <2>2. CASE PointsTo(old, q, key, r) /\ PointsTo(old, s, other, r)
    BY <1>4, <2>2
  <2>3. \/ PointsTo(new, q, key, r) /\ PointsTo(new, s, other, r)
        \/ PointsTo(old, q, key, r) /\ PointsTo(old, s, other, r)
    <3>1. PointsTo(new, q, key, r) \/ PointsTo(new, s, other, r) => r \in own
      BY <1>5
    <3>2. PointsTo(old, q, key, r) \/ PointsTo(old, s, other, r) => r \in DOMAIN old
      BY <1>4
    <3>3. PointsTo(new, q, key, r) \/ PointsTo(old, q, key, r)
      BY <1>8, <1>10
    <3>4. PointsTo(new, s, other, r) \/ PointsTo(old, s, other, r)
      BY <1>8, <1>10
    <3> QED BY <1>1, <3>1, <3>2, <3>3, <3>4
  <2> QED BY <2>1, <2>2, <2>3
<1>11. AtHome(heap, home)
  <2> SUFFICES ASSUME NEW q, NEW key, NEW r, PointsTo(heap, q, key, r)
               PROVE  r \in DOMAIN home /\ home[r].in = q /\ Alike(home[r].key, key)
    BY DEF AtHome
  <2>1. r \in held
    BY <1>9
  <2> DEFINE h == CHOOSE h : PointsTo(heap, h.in, h.key, r)
             w == [in |-> q, key |-> key]
  <2>2. PointsTo(heap, w.in, w.key, r)
    OBVIOUS
  <2> HIDE DEF w
  <2>3. PointsTo(heap, h.in, h.key, r)
    BY <2>2
  <2>4. home[r] = h
    BY <2>1
  <2> HIDE DEF h, home
  <2>5. h.in = q /\ Alike(h.key, key)
    BY <1>10, <2>3
  <2>6. r \in DOMAIN home
    BY <2>1 DEF home
  <2> QED BY <2>4, <2>5, <2>6
<1>12. \A r \in DOMAIN home : r # genome.root /\ r \notin tops
  BY <1>9
<1> HIDE DEF home
<1>13. Orderly(proposal, genome, 0, heap, home)
  <2>1. genome.root \notin DOMAIN home
    BY <1>12
  <2>2. \A i \in 1..Len(operations) : IsSet(operations[i]) => operations[i].value.ref \notin DOMAIN home
    BY <1>2, <1>12
  <2>3. \A q, key, r : ~(PointsTo(heap, q, key, r) /\ q \notin own /\ r \in own)
    BY <1>9
  <2> HIDE DEF operations
  <2>4. DOMAIN heap = own \cup DOMAIN genome.heap
    BY <1>3 DEF old
  <2> QED BY <1>7, <1>11, <2>1, <2>2, <2>3, <2>4 DEF Orderly, operations, new
<1> QED BY <1>3, <1>13 DEF heap, new, old

-----------------------------------------------------------------------------
(* What the last operation did.                                            *)

LEMMA WalkOneMore ==
  ASSUME NEW heap, NEW root, NEW keys, NEW m \in Nat, Len(keys) = m + 1, NEW at,
         Walk(heap, root, keys, m, at), IsRef(at[m])
  PROVE  Descend(heap, root, keys) = Item(heap[at[m].ref], keys[m + 1])
<1> DEFINE to == [k \in 0..(m + 1) |-> IF k = m + 1 THEN Item(heap[at[m].ref], keys[m + 1]) ELSE at[k]]
<1>1. to[0] = [ref |-> root] /\ to[m + 1] = Item(heap[at[m].ref], keys[m + 1])
  BY DEF Walk
<1>2. ASSUME NEW k \in 1..(m + 1) PROVE to[k] = Child(heap, to[k - 1], keys[k])
  <2>1. k - 1 \in 0..(m + 1) /\ k - 1 # m + 1 /\ k \in 0..(m + 1)
    OBVIOUS
  <2>2. to[k - 1] = at[k - 1]
    BY <2>1
  <2>3. CASE k = m + 1
    <3>1. to[k] = Item(heap[at[m].ref], keys[m + 1]) /\ k - 1 = m
      BY <2>1, <2>3
    <3>2. Child(heap, at[m], keys[k]) = Item(heap[at[m].ref], keys[k])
      BY DEF Child, Item
    <3> HIDE DEF to
    <3> QED BY <2>2, <2>3, <3>1, <3>2
  <2>4. CASE k # m + 1
    <3>1. to[k] = at[k] /\ k \in 1..m
      BY <2>1, <2>4
    <3> HIDE DEF to
    <3> QED BY <2>2, <3>1 DEF Walk
  <2> QED BY <2>3, <2>4
<1> HIDE DEF to
<1>3. Len(keys) \in Nat /\ Walk(heap, root, keys, Len(keys), to)
  BY <1>1, <1>2 DEF Walk
<1>4. Descend(heap, root, keys) = to[Len(keys)]
  BY <1>3, WalkEnds
<1> QED BY <1>1, <1>4

LEMMA FrontFacts ==
  ASSUME NEW path, IsList(path), NEW m \in Nat, Len(path) = m + 1
  PROVE  /\ IsList(Front(path)) /\ Len(Front(path)) = m
         /\ \A i \in 1..m : Front(path)[i] = path[i]
<1>1. /\ 1 \in 1..(Len(path) + 1) /\ m \in (1 - 1)..Len(path) /\ m - 1 + 1 = m
      /\ Len(path) - 1 = m /\ \A i \in 1..m : 1 + i - 1 = i
  OBVIOUS
<1> DEFINE front == SubSeq(path, 1, m)
<1>2. Front(path) = front
  BY <1>1 DEF Front
<1>3. /\ IsList(front) /\ Len(front) = m - 1 + 1
      /\ \A i \in 1..(m - 1 + 1) : front[i] = path[1 + i - 1]
  BY <1>1, PartFacts
<1> HIDE DEF front
<1> QED BY <1>1, <1>2, <1>3

LEMMA StepIsDone ==
  ASSUME NEW heap, WellFormed(heap), NEW genome, genome.root \in DOMAIN heap,
         NEW operation, NEW more, NEW at, IsStep(heap, genome.root, operation, more, at),
         IsList(operation.path),
         NEW home, AtHome(heap, home), genome.root \notin DOMAIN home,
         NEW child, child.root = genome.root, child.heap = more
  PROVE  IsDone(operation, child)
<1> DEFINE path == operation.path
           root == genome.root
           m == Len(path) - 1
           last == path[Len(path)]
           p == at[m].ref
<1>1. /\ m \in Nat /\ Walk(heap, root, path, m, at) /\ IsRef(at[m]) /\ p \in DOMAIN heap
      /\ \A r \in DOMAIN heap : r # p => more[r] = heap[r]
      /\ \/ operation.op \in {"add", "replace"} /\ Wrote(heap, heap[p], last, operation.value, more[p])
         \/ operation.op = "remove" /\ Removed(heap, heap[p], last, more[p])
  BY DEF IsStep
<1>2. Len(path) \in Nat /\ Len(path) = m + 1 /\ Last(path) = last /\ last = path[m + 1]
  BY <1>1, ListFacts DEF Last
<1>3. DOMAIN path = 1..Len(path)
  BY ListFacts
<1> HIDE DEF m, last, p, path, root
<1>4. at[m] # Raised /\ root \in DOMAIN heap /\ m \in 0..m /\ root \notin DOMAIN home
  BY <1>1 DEF IsRef, Raised, root
<1>5. Leads(home, root, path, m, p)
  BY <1>1, <1>4, WalkLeads DEF p
<1>6. ASSUME NEW k \in 1..m PROVE Child(more, at[k - 1], path[k]) = Child(heap, at[k - 1], path[k])
  <2> DEFINE j == k - 1
             r == at[j].ref
  <2>1. j \in Nat /\ j \in 0..m /\ j # m
    BY <1>1
  <2>2. IsRef(at[j]) /\ r \in DOMAIN heap
    <3>1. /\ \A i \in 0..m : IsItem(heap, at[i])
          /\ \A i \in 1..m : IsRef(at[i - 1])
      BY <1>1, <1>4, WalkFacts
    <3> QED BY <2>1, <3>1 DEF IsItem
  <2> HIDE DEF j
  <2>3. Leads(home, root, path, j, r)
    BY <1>1, <1>4, <2>1, <2>2, WalkLeads
  <2>4. r # p
    <3> SUFFICES ASSUME r = p PROVE FALSE
      OBVIOUS
    <3>1. Leads(home, root, path, j, p)
      BY <2>3
    <3>2. root \notin DOMAIN home /\ j \in Nat /\ m \in Nat
      BY <1>1, <1>4, <2>1
    <3> HIDE DEF r
    <3>3. j = m
      BY <1>5, <3>1, <3>2, LeadsOneWay
    <3> QED BY <2>1, <3>3
  <2>5. more[r] = heap[r]
    BY <1>1, <2>2, <2>4
  <2>6. Child(more, at[j], path[k]) = Child(heap, at[j], path[k])
    BY <2>2, <2>5 DEF Child
  <2> QED BY <2>6 DEF j
<1>7. Walk(more, root, path, m, at)
  BY <1>1, <1>6, WalkElsewhere
<1>8. Read(child, path) = Item(more[p], last)
  <2>1. Descend(more, root, path) = Item(more[at[m].ref], path[m + 1])
    BY <1>1, <1>2, <1>7, WalkOneMore
  <2> QED BY <1>2, <2>1 DEF Read, root, p
<1>9. Read(child, Append(Front(path), "-1")) = Item(more[p], "-1")
  <2> DEFINE front == Front(path)
             keys == Append(front, "-1")
  <2>1. IsList(front) /\ Len(front) = m /\ \A i \in 1..m : front[i] = path[i]
    BY <1>1, <1>2, FrontFacts DEF path
  <2> HIDE DEF front
  <2>2. Len(keys) = m + 1 /\ keys[m + 1] = "-1" /\ \A i \in 1..m : keys[i] = path[i]
    <3>1. /\ Len(keys) = Len(front) + 1 /\ keys[Len(front) + 1] = "-1"
          /\ \A i \in 1..Len(front) : keys[i] = front[i]
      BY <2>1, Appended
    <3> HIDE DEF keys
    <3> QED BY <2>1, <3>1
  <2> HIDE DEF keys
  <2>3. Walk(more, root, keys, m, at)
    BY <1>7, <2>2 DEF Walk
  <2>4. Descend(more, root, keys) = Item(more[at[m].ref], keys[m + 1])
    BY <1>1, <2>2, <2>3, WalkOneMore
  <2> QED BY <2>2, <2>4 DEF Read, root, p, keys, front
<1>10. ASSUME operation.op \in {"add", "replace"}
       PROVE  \/ Read(child, path) = operation.value
              \/ Last(path) = "-" /\ Read(child, Append(Front(path), "-1")) = operation.value
  <2>1. Wrote(heap, heap[p], last, operation.value, more[p])
    BY <1>1, <1>10
  <2>2. \/ Item(more[p], last) = operation.value
        \/ last = "-" /\ Item(more[p], "-1") = operation.value
    BY <2>1 DEF Wrote
  <2> QED BY <1>2, <1>8, <1>9, <2>2
<1>11. ASSUME operation.op = "remove", Named(path) = path PROVE Read(child, path) = Raised
  <2>1. last \notin Indices
    <3>1. \A i \in 1..Len(Named(path)) : path[i] \notin Indices
      BY NamedFacts DEF path
    <3>2. m + 1 \in 1..Len(path)
      BY <1>1, <1>2
    <3> QED BY <1>2, <1>11, <3>1, <3>2
  <2>2. Removed(heap, heap[p], last, more[p])
    BY <1>1, <1>11
  <2>3. Item(more[p], last) = Raised
    BY <2>1, <2>2 DEF Removed
  <2> QED BY <1>8, <2>3
<1> QED BY <1>10, <1>11 DEF IsDone, path

-----------------------------------------------------------------------------
(* The operations in turn.                                                 *)

IsPatching(proposal, genome, after) ==
    /\ after[0] = [ok |-> TRUE, heap |-> Objects(proposal, genome)]
    /\ \A n \in 1..Len(proposal.operations) :
          after[n] = IF ~after[n - 1].ok THEN after[n - 1]
                     ELSE ApplyOperation(after[n - 1].heap, genome.root, proposal.operations[n])

LEMMA PatchedSteps ==
  ASSUME NEW proposal, NEW genome, Len(proposal.operations) \in Nat
  PROVE  \E after : /\ IsPatching(proposal, genome, after)
                    /\ Patched(proposal, genome) = after[Len(proposal.operations)]
<1> DEFINE L == Len(proposal.operations)
           Start == [ok |-> TRUE, heap |-> Objects(proposal, genome)]
           After(before, n) == IF ~before.ok THEN before
                               ELSE ApplyOperation(before.heap, genome.root, proposal.operations[n])
           F(g, k) == [n \in 0..k |-> IF n = 0 THEN Start ELSE After(g[n - 1], n)]
           S == {k \in Nat : \E g : g = F(g, k)}
           after == CHOOSE g : g = F(g, L)
<1>1. Patched(proposal, genome) = after[L]
  BY DEF Patched
<1>2. \A g : IsPatching(proposal, genome, g) <=>
                g[0] = Start /\ \A n \in 1..L : g[n] = After(g[n - 1], n)
  BY DEF IsPatching
<1> HIDE DEF Start, After
<1>3. 0 \in S
  <2> DEFINE g == [n \in 0..0 |-> Start]
  <2>1. g = F(g, 0)
    OBVIOUS
  <2> HIDE DEF g
  <2> QED BY <2>1
<1>4. ASSUME NEW k \in Nat, k \in S PROVE k + 1 \in S
  <2>1. PICK g : g = F(g, k)
    BY <1>4
  <2> DEFINE h == [n \in 0..(k + 1) |-> IF n <= k THEN g[n] ELSE After(g[n - 1], n)]
  <2>2. \A n \in 0..(k + 1) : h[n] = IF n = 0 THEN Start ELSE After(h[n - 1], n)
    <3> SUFFICES ASSUME NEW n \in 0..(k + 1)
                 PROVE  h[n] = IF n = 0 THEN Start ELSE After(h[n - 1], n)
      OBVIOUS
    <3>1. CASE n <= k
      BY <2>1, <3>1
    <3>2. CASE n = k + 1
      BY <3>2
    <3> QED BY <3>1, <3>2
  <2>3. h = [n \in 0..(k + 1) |-> h[n]]
    OBVIOUS
  <2> HIDE DEF h
  <2>4. h = F(h, k + 1)
    BY <2>2, <2>3
  <2>5. k + 1 \in Nat
    OBVIOUS
  <2> HIDE DEF F
  <2> QED BY <2>4, <2>5
<1> HIDE DEF S
<1>5. L \in S
  BY <1>3, <1>4, Induction
<1> HIDE DEF after
<1>6. after = F(after, L)
  <2>1. \E g : g = F(g, L)
    BY <1>5 DEF S
  <2> HIDE DEF F
  <2> QED BY <2>1 DEF after
<1>7. L \in Nat
  OBVIOUS
<1> HIDE DEF L
<1>8. after[0] = Start /\ \A n \in 1..L : after[n] = After(after[n - 1], n)
  BY <1>6, <1>7
<1>9. IsPatching(proposal, genome, after)
  BY <1>2, <1>8
<1> QED BY <1>1, <1>9 DEF L

\* No operation is on the path's way or at its end.
Aside(proposal, path) ==
    \A i \in 1..Len(proposal.operations) : ~IsPrefix(Named(proposal.operations[i].path), path)

\* After n operations.
Intact(proposal, genome, n, heap) ==
    /\ \E home : Orderly(proposal, genome, n, heap, home)
    /\ ~Entangled(proposal.operations) =>
          \A r \in DOMAIN proposal.heap : heap[r] = proposal.heap[r]
    /\ \A path, at : /\ IsList(path) /\ Aside(proposal, path)
                     /\ Walk(genome.heap, genome.root, path, Len(path), at)
                     /\ at[Len(path)] # Raised
                     => Walk(heap, genome.root, path, Len(path), at)

LEMMA IntactStart ==
  ASSUME NEW proposal, NEW genome, ArePatchable(proposal, genome)
  PROVE  Intact(proposal, genome, 0, Objects(proposal, genome))
<1> DEFINE old == genome.heap
           heap == Objects(proposal, genome)
           root == genome.root
<1>1. /\ \E home : Orderly(proposal, genome, 0, heap, home)
      /\ \A r \in DOMAIN proposal.heap : heap[r] = proposal.heap[r]
      /\ \A r \in DOMAIN old : heap[r] = old[r]
  BY OrderlyStart
<1>2. WellFormed(old) /\ root \in DOMAIN old
  <2>1. root \in DOMAIN old /\ AreTrees(old, {root})
    BY PatchFacts
  <2> HIDE DEF old
  <2> QED BY <2>1, TreeFacts
<1> HIDE DEF old, heap, root
<1>3. ASSUME NEW path, NEW at, IsList(path), Walk(old, root, path, Len(path), at),
             at[Len(path)] # Raised
      PROVE  Walk(heap, root, path, Len(path), at)
  <2>1. Len(path) \in Nat
    BY <1>3, ListFacts
  <2> DEFINE n == Len(path)
  <2>2. n \in Nat /\ Walk(old, root, path, n, at) /\ at[n] # Raised
    BY <1>3, <2>1
  <2> HIDE DEF n
  <2>3. /\ \A k \in 0..n : IsItem(old, at[k])
        /\ \A k \in 1..n : IsRef(at[k - 1])
    BY <1>2, <2>2, WalkFacts
  <2>4. ASSUME NEW k \in 1..n PROVE Child(heap, at[k - 1], path[k]) = Child(old, at[k - 1], path[k])
    <3>1. k - 1 \in 0..n
      BY <2>2
    <3>2. IsRef(at[k - 1]) /\ at[k - 1].ref \in DOMAIN old
      BY <2>3, <3>1 DEF IsItem
    <3> QED BY <1>1, <3>2 DEF Child
  <2>5. Walk(heap, root, path, n, at)
    BY <2>2, <2>4, WalkElsewhere
  <2> QED BY <2>5 DEF n
<1> QED BY <1>1, <1>3 DEF Intact, old, heap, root

LEMMA IntactStep ==
  ASSUME NEW proposal, NEW genome, ArePatchable(proposal, genome),
         NEW n \in Nat, n + 1 \in 1..Len(proposal.operations),
         NEW heap, Intact(proposal, genome, n, heap), NEW more, NEW at,
         IsStep(heap, genome.root, proposal.operations[n + 1], more, at)
  PROVE  Intact(proposal, genome, n + 1, more)
<1> DEFINE root == genome.root
           operation == proposal.operations[n + 1]
<1>1. PICK home : Orderly(proposal, genome, n, heap, home)
  BY DEF Intact
<1>2. \E homes : Orderly(proposal, genome, n + 1, more, homes)
  BY <1>1, OrderlyStep
<1>3. ~Entangled(proposal.operations) => \A r \in DOMAIN proposal.heap : more[r] = proposal.heap[r]
  <2> SUFFICES ASSUME ~Entangled(proposal.operations)
               PROVE  \A r \in DOMAIN proposal.heap : more[r] = proposal.heap[r]
    OBVIOUS
  <2>1. AreKept(DOMAIN proposal.heap, heap, more)
    BY <1>1, KeptValues
  <2> QED BY <2>1 DEF Intact, AreKept
<1>4. /\ WellFormed(heap) /\ root \in DOMAIN heap /\ AtHome(heap, home) /\ root \notin DOMAIN home
      /\ IsList(operation.path)
  BY <1>1, PatchFacts DEF Orderly
<1>5. IsStep(heap, root, operation, more, at)
  OBVIOUS
<1>6. ASSUME NEW path, NEW to, IsList(path), Aside(proposal, path),
             Walk(genome.heap, root, path, Len(path), to), to[Len(path)] # Raised
      PROVE  Walk(more, root, path, Len(path), to)
  <2>1. Walk(heap, root, path, Len(path), to)
    BY <1>6 DEF Intact
  <2>2. ~IsPrefix(Named(operation.path), path)
    BY <1>6 DEF Aside
  <2> HIDE DEF root, operation
  <2> QED BY <1>4, <1>5, <1>6, <2>1, <2>2, KeptApart
<1> QED BY <1>2, <1>3, <1>6 DEF Intact

LEMMA OrderlyLater ==
  ASSUME NEW proposal, NEW genome, NEW n \in Nat, NEW heap, NEW home,
         Len(proposal.operations) \in Nat, Orderly(proposal, genome, n, heap, home)
  PROVE  Orderly(proposal, genome, n + 1, heap, home)
<1>1. \A i \in 1..Len(proposal.operations) : i > n + 1 => i > n
  OBVIOUS
<1>2. \A i \in 1..n : i \in 1..(n + 1)
  OBVIOUS
<1> QED BY <1>1, <1>2 DEF Orderly

\* An operation that fails changes nothing, one that succeeds is done.
LEMMA OperationIsIntact ==
  ASSUME NEW proposal, NEW genome, ArePatchable(proposal, genome),
         NEW n \in Nat, n + 1 \in 1..Len(proposal.operations),
         NEW heap, Intact(proposal, genome, n, heap)
  PROVE  LET operation == proposal.operations[n + 1]
             applied == ApplyOperation(heap, genome.root, operation)
         IN  /\ Intact(proposal, genome, n + 1, applied.heap)
             /\ applied.ok => \A child : child.root = genome.root /\ child.heap = applied.heap =>
                                 IsDone(operation, child)
<1> DEFINE operation == proposal.operations[n + 1]
           root == genome.root
           applied == ApplyOperation(heap, root, operation)
<1>1. PICK home : Orderly(proposal, genome, n, heap, home)
  BY DEF Intact
<1>2. /\ WellFormed(heap) /\ root \in DOMAIN heap /\ AtHome(heap, home) /\ root \notin DOMAIN home
      /\ DOMAIN proposal.heap \subseteq DOMAIN heap
  BY <1>1, PatchFacts DEF Orderly
<1>3. /\ operation.op \in {"add", "replace", "remove"} /\ IsList(operation.path)
      /\ operation.value # Raised
      /\ IsSet(operation) => operation.value.ref \in DOMAIN proposal.heap
  BY PatchFacts
<1>4. IsItem(heap, operation.value)
  BY <1>2, <1>3 DEF IsItem, IsSet
<1>5. CASE applied.ok
  <2>1. \E at : IsStep(heap, root, operation, applied.heap, at)
    <3> HIDE DEF root, operation
    <3> QED BY <1>2, <1>3, <1>4, <1>5, OperationFacts DEF applied
  <2> HIDE DEF applied
  <2>2. PICK at : IsStep(heap, root, operation, applied.heap, at)
    BY <2>1
  <2>3. Intact(proposal, genome, n + 1, applied.heap)
    BY <2>2, IntactStep
  <2>4. ASSUME NEW child, child.root = root, child.heap = applied.heap
        PROVE  IsDone(operation, child)
    <3> HIDE DEF operation
    <3> QED BY <1>2, <1>3, <2>2, <2>4, StepIsDone
  <2> QED BY <2>3, <2>4 DEF applied
<1>6. CASE ~applied.ok
  <2>1. applied.heap = heap
    BY <1>6 DEF ApplyOperation
  <2>2. Orderly(proposal, genome, n + 1, heap, home)
    <3>1. IsList(proposal.operations)
      BY PatchFacts
    <3>2. Len(proposal.operations) \in Nat
      BY <3>1, ListFacts
    <3> QED BY <1>1, <3>2, OrderlyLater
  <2>3. Intact(proposal, genome, n + 1, heap)
    BY <2>2 DEF Intact
  <2> QED BY <1>6, <2>1, <2>3
<1> QED BY <1>5, <1>6

LEMMA PatchingIsIntact ==
  ASSUME NEW proposal, NEW genome, ArePatchable(proposal, genome), NEW after,
         IsPatching(proposal, genome, after)
  PROVE  \A n \in 0..Len(proposal.operations) : Intact(proposal, genome, n, after[n].heap)
<1> DEFINE L == Len(proposal.operations)
           S == {n \in Nat : n <= L => Intact(proposal, genome, n, after[n].heap)}
<1>1. L \in Nat
  <2>1. IsList(proposal.operations)
    BY PatchFacts
  <2> QED BY <2>1, ListFacts
<1>2. 0 \in S
  <2>1. after[0].heap = Objects(proposal, genome)
    BY DEF IsPatching
  <2> QED BY <2>1, IntactStart
<1>3. ASSUME NEW n \in Nat, n \in S PROVE n + 1 \in S
  <2> SUFFICES ASSUME n + 1 <= L PROVE Intact(proposal, genome, n + 1, after[n + 1].heap)
    OBVIOUS
  <2>1. n + 1 \in 1..L /\ (n + 1) - 1 = n /\ Intact(proposal, genome, n, after[n].heap)
    BY <1>1, <1>3
  <2>2. after[n + 1] = IF ~after[n].ok THEN after[n]
                       ELSE ApplyOperation(after[n].heap, genome.root, proposal.operations[n + 1])
    BY <2>1 DEF IsPatching
  <2>3. CASE after[n].ok
    BY <2>1, <2>2, <2>3, OperationIsIntact
  <2>4. CASE ~after[n].ok
    <3>1. PICK home : Orderly(proposal, genome, n, after[n].heap, home)
      BY <2>1 DEF Intact
    <3>2. Orderly(proposal, genome, n + 1, after[n].heap, home)
      BY <1>1, <3>1, OrderlyLater
    <3> QED BY <2>1, <2>2, <2>4, <3>2 DEF Intact
  <2> QED BY <2>3, <2>4
<1> HIDE DEF S
<1>4. \A n \in Nat : n \in S
  BY <1>2, <1>3, Induction
<1> QED BY <1>1, <1>4 DEF S

\* The proposal and the genome, as far as PatchesAllOrNothing looks at them.
IsWholePatch(proposal, genome, application) ==
    LET operations == proposal.operations
    IN  /\ application.proposal.operations = operations
        /\ ~application.applied => application.genome = genome /\ application.child = NoGenome
        /\ application.applied =>
              /\ application.child # NoGenome
              /\ operations # << >> => IsDone(Last(operations), application.genome)
              /\ \A path \in NamedPaths(genome) :
                    Aside(proposal, path) => Read(application.genome, path) = Read(genome, path)
        /\ ~Entangled(operations) => application.proposal = proposal

LEMMA PatchIsWhole ==
  ASSUME NEW proposal, NEW genome, ArePatchable(proposal, genome)
  PROVE  IsWholePatch(proposal, genome, Application(proposal, genome))
<1> DEFINE operations == proposal.operations
           L == Len(operations)
           patched == Patched(proposal, genome)
           child == [genome EXCEPT !.heap = patched.heap]
           application == Application(proposal, genome)
           root == genome.root
<1>1. IsList(operations) /\ L \in Nat /\ DOMAIN operations = 1..L /\ (operations = << >> <=> L = 0)
  <2>1. IsList(operations)
    BY PatchFacts
  <2> QED BY <2>1, ListFacts
<1>2. PICK after : IsPatching(proposal, genome, after) /\ patched = after[L]
  BY <1>1, PatchedSteps
<1>3. \A n \in 0..L : Intact(proposal, genome, n, after[n].heap)
  BY <1>2, PatchingIsIntact
<1>4. Intact(proposal, genome, L, patched.heap)
  BY <1>1, <1>2, <1>3
<1> HIDE DEF patched
<1>5. /\ application.applied = patched.ok
      /\ application.genome = IF patched.ok THEN child ELSE genome
      /\ application.child = IF patched.ok THEN <<proposal, patched.heap>> ELSE << >>
      /\ application.proposal = Left(proposal, patched.heap)
  BY DEF Application, ChildGenomeId, NoGenome, patched
<1> HIDE DEF application
<1>6. child.root = root /\ child.heap = patched.heap
  BY DEF ArePatchable, IsGenome
<1> HIDE DEF child
<1>7. ~application.applied => application.genome = genome /\ application.child = NoGenome
  BY <1>5 DEF NoGenome
<1>8. application.applied => application.child # NoGenome
  BY <1>5 DEF NoGenome
<1>9. ASSUME application.applied, operations # << >> PROVE IsDone(Last(operations), child)
  <2> DEFINE n == L - 1
  <2>1. n \in Nat /\ n + 1 = L /\ n \in 0..L /\ L \in 1..L
    BY <1>1, <1>9
  <2> HIDE DEF n
  <2>2. after[L] = IF ~after[n].ok THEN after[n]
                   ELSE ApplyOperation(after[n].heap, root, operations[L])
    BY <1>2, <2>1 DEF IsPatching, n
  <2>3. after[n].ok /\ after[L] = ApplyOperation(after[n].heap, root, operations[n + 1])
    BY <1>2, <1>5, <1>9, <2>1, <2>2
  <2>4. Intact(proposal, genome, n, after[n].heap) /\ n + 1 \in 1..L
    BY <1>3, <2>1
  <2>5. IsDone(operations[n + 1], child)
    BY <1>2, <1>5, <1>6, <1>9, <2>1, <2>3, <2>4, OperationIsIntact
  <2> QED BY <2>1, <2>5 DEF Last
<1>10. ASSUME NEW path \in NamedPaths(genome), Aside(proposal, path)
       PROVE  Read(child, path) = Read(genome, path)
  <2>1. IsList(path) /\ Read(genome, path) # Raised
    <3>1. \E n \in 1..3 : \E keys : path \in [1..n -> keys]
      BY DEF NamedPaths
    <3>2. PICK n \in Nat : path = [i \in 1..n |-> path[i]]
      BY <3>1
    <3>3. IsList(path)
      BY <3>2, Tabulated
    <3>4. Read(genome, path) # Raised
      BY DEF NamedPaths
    <3> QED BY <3>3, <3>4
  <2>2. Len(path) \in Nat
    BY <2>1, ListFacts
  <2>3. PICK at : /\ Walk(genome.heap, root, path, Len(path), at)
                  /\ Descend(genome.heap, root, path) = at[Len(path)]
    BY <2>2, WalkSteps
  <2>4. at[Len(path)] # Raised
    BY <2>1, <2>3 DEF Read
  <2>5. Walk(patched.heap, root, path, Len(path), at)
    BY <1>4, <1>10, <2>1, <2>3, <2>4 DEF Intact
  <2>6. Descend(patched.heap, root, path) = at[Len(path)]
    BY <2>2, <2>5, WalkEnds
  <2> QED BY <1>6, <2>3, <2>6 DEF Read
<1>11. application.proposal.operations = operations
  BY <1>5 DEF Left, ArePatchable, IsProposal
<1>12. ~Entangled(operations) => application.proposal = proposal
  <2> SUFFICES ASSUME ~Entangled(operations) PROVE application.proposal = proposal
    OBVIOUS
  <2>1. \A r \in DOMAIN proposal.heap : patched.heap[r] = proposal.heap[r]
    BY <1>4 DEF Intact
  <2>2. proposal.heap = [r \in DOMAIN proposal.heap |-> proposal.heap[r]]
    <3>1. \E tops : AreTrees(proposal.heap, tops)
      BY PatchFacts
    <3> QED BY <3>1 DEF AreTrees
  <2>3. [r \in DOMAIN proposal.heap |-> patched.heap[r]] = proposal.heap
    BY <2>1, <2>2
  <2>4. proposal = [operations |-> operations, heap |-> proposal.heap]
    BY DEF ArePatchable, IsProposal
  <2>5. Left(proposal, patched.heap) = [proposal EXCEPT !.heap = proposal.heap]
    BY <2>3 DEF Left
  <2>6. [proposal EXCEPT !.heap = proposal.heap] = proposal
    BY <2>4
  <2> QED BY <1>5, <2>5, <2>6
<1>13. application.applied => application.genome = child
  BY <1>5
<1> HIDE DEF operations
<1>14. IsWholePatch(proposal, genome, application)
  BY <1>7, <1>8, <1>9, <1>10, <1>11, <1>12, <1>13 DEF IsWholePatch, operations
<1> QED BY <1>14 DEF application

-----------------------------------------------------------------------------
(* Proposals and applications in a run.                                    *)

\* Proposals can be applied to the run's genome, and applications are of the
\* recorded proposal.
SoundPatch(r, out, s, p) ==
    /\ s.type = "mutation_proposal" => ArePatchable(p.proposal, r.content.genome)
    /\ s.type = "mutation_application" =>
          /\ s.parents[1] \in DOMAIN out
          /\ IsWholePatch(out[s.parents[1]].proposal, r.content.genome, p.application)
          /\ p.proposal = p.application.proposal

PatchInv ==
    /\ FlowInv
    /\ \A s \in DOMAIN output : SoundPatch(run, output, s, output[s])
    /\ \A d \in drafts : SoundPatch(run, output, d.stage, d.payload)

\* One operation that writes a text.
LEMMA BaselinePatch ==
  ASSUME NEW genome, IsGenome(genome), NEW path, IsList(path), NEW value,
         ~IsRef(value), value # Raised
  PROVE  ArePatchable([operations |-> <<[op |-> "replace", path |-> path, value |-> value]>>,
                       heap |-> << >>], genome)
<1> DEFINE operation == [op |-> "replace", path |-> path, value |-> value]
           operations == <<operation>>
           proposal == [operations |-> operations, heap |-> << >>]
           setting == {i \in DOMAIN operations : IsRef(operations[i].value)}
<1>1. operation.op = "replace" /\ operation.path = path /\ operation.value = value
  OBVIOUS
<1> HIDE DEF operation
<1>2. /\ IsList(operations) /\ Len(operations) = 1 /\ operations[1] = operation
      /\ ToSet(operations) = {operation}
  BY Singleton
<1> HIDE DEF operations
<1>3. DOMAIN operations = 1..1
  BY <1>2, ListFacts
<1>4. setting = {}
  BY <1>1, <1>2, <1>3
<1>5. proposal.operations = operations /\ proposal.heap = << >>
      /\ proposal = [operations |-> proposal.operations, heap |-> proposal.heap]
  OBVIOUS
<1> HIDE DEF setting, proposal
<1>6. DOMAIN << >> = {} /\ << >> = [r \in DOMAIN << >> |-> << >>[r]]
  OBVIOUS
<1>7. AreTrees(<< >>, {operations[i].value.ref : i \in setting})
  BY <1>4, <1>6 DEF AreTrees
<1>8. \A o \in ToSet(operations) : /\ o.op \in {"add", "replace", "remove"}
                                   /\ o.path \in Seq(ToSet(o.path))
                                   /\ o.value # Raised
  BY <1>1, <1>2 DEF IsList
<1>9. IsProposal(proposal)
  BY <1>2, <1>4, <1>5, <1>7, <1>8 DEF IsProposal, IsList, setting
<1>10. ArePatchable(proposal, genome)
  BY <1>5, <1>6, <1>9 DEF ArePatchable
<1> QED BY <1>10 DEF proposal, operations, operation

LEMMA ProposalIsPatchable ==
  ASSUME PlanInv, NEW s \in ToSet(rows), s.type = "mutation_proposal", run.content # NoContent,
         ~Unsupported(s)
  PROVE  ArePatchable(ProposalPayload(s).proposal, run.content.genome)
<1> DEFINE genome == run.content.genome
           authored == run.content.authored
<1>1. run \in Runs /\ IsActive(run, s.index[1])
  BY RowsJudge DEF IsJudging
<1>2. /\ IsGenome(genome) /\ IsList(authored)
      /\ \A proposal \in ToSet(authored) : /\ IsProposal(proposal)
                                           /\ DOMAIN proposal.heap \cap DOMAIN genome.heap = {}
  BY <1>1, ContentAssumption DEF IsList
<1>3. IsList(Config(s).path)
  BY <1>1, ContentAssumption DEF IsActive, Config, IsList
<1>4. CASE Config(s).implementation = DefaultOperator
  <2> DEFINE value == [persona |-> Descend(genome.heap, genome.root, PersonaPath),
                       focus |-> WeakestPoints(Parent(s).aggregate, Config(s).focus)]
             path == Config(s).path
  <2>1. ~IsRef(value) /\ value # Raised
    BY DEF IsRef, Raised
  <2>2. ProposalPayload(s).proposal =
           [operations |-> <<[op |-> "replace", path |-> path, value |-> value]>>, heap |-> << >>]
    BY <1>4 DEF ProposalPayload, BaselineProposal
  <2> HIDE DEF value, path
  <2>3. IsList(path)
    BY <1>3 DEF path
  <2> QED BY <1>2, <2>1, <2>2, <2>3, BaselinePatch
<1>5. CASE Config(s).implementation # DefaultOperator
  <2>1. ProposalPayload(s).proposal = authored[1]
    BY <1>5 DEF ProposalPayload
  <2>2. authored # << >>
    BY <1>5 DEF Unsupported
  <2> HIDE DEF authored
  <2>3. authored[1] \in ToSet(authored)
    BY <1>2, <2>2, ListFacts DEF ToSet
  <2> QED BY <1>2, <2>1, <2>3 DEF ArePatchable
<1> QED BY <1>4, <1>5

LEMMA ApplicationParent ==
  ASSUME PlanInv, NEW s \in ToSet(rows), s.type = "mutation_application"
  PROVE  1 \in DOMAIN s.parents /\ s.parents[1].type = "mutation_proposal"
<1>1. ParentTypes(s) = <<"mutation_proposal">>
  <2>1. PICK i \in DOMAIN rows : s = rows[i]
    BY DEF ToSet
  <2>2. HasItsParents(run, s)
    BY <2>1 DEF PlanInv, StageOK
  <2> QED BY <2>2 DEF HasItsParents
<1>2. DOMAIN <<"mutation_proposal">> = 1..1 /\ <<"mutation_proposal">>[1] = "mutation_proposal"
  OBVIOUS
<1>3. 1 \in DOMAIN ParentTypes(s) /\ ParentTypes(s)[1] = "mutation_proposal"
  BY <1>1, <1>2
<1> QED BY <1>3 DEF ParentTypes

LEMMA ApplicationIsWhole ==
  ASSUME PatchInv, NEW s \in ToSet(rows), s.type = "mutation_application",
         ToSet(s.parents) \subseteq DOMAIN output
  PROVE  /\ s.parents[1] \in DOMAIN output
         /\ IsWholePatch(output[s.parents[1]].proposal, run.content.genome,
                         ApplicationPayload(s).application)
         /\ ApplicationPayload(s).proposal = ApplicationPayload(s).application.proposal
<1> DEFINE p == s.parents[1]
<1>2. 1 \in DOMAIN s.parents /\ p.type = "mutation_proposal"
  BY ApplicationParent DEF PatchInv, FlowInv
<1>3. p \in DOMAIN output
  BY <1>2 DEF ToSet
<1> HIDE DEF p
<1>4. ArePatchable(output[p].proposal, run.content.genome)
  BY <1>2, <1>3 DEF PatchInv, SoundPatch
<1> DEFINE application == Application(output[p].proposal, run.content.genome)
<1>5. /\ ApplicationPayload(s).application = application
      /\ ApplicationPayload(s).proposal = application.proposal
  BY DEF ApplicationPayload, Parent, p
<1>6. IsWholePatch(output[p].proposal, run.content.genome, application)
  BY <1>4, PatchIsWhole
<1> HIDE DEF application
<1> QED BY <1>3, <1>5, <1>6 DEF p

LEMMA PayloadPatches ==
  ASSUME PatchInv, NEW s \in ToSet(rows), run.content # NoContent, ~Unsupported(s),
         ToSet(s.parents) \subseteq DOMAIN output, NEW attempt
  PROVE  SoundPatch(run, output, s, Payload(s, attempt))
<1>1. CASE s.type = "mutation_proposal"
  <2>1. Payload(s, attempt) = ProposalPayload(s)
    BY <1>1 DEF Payload
  <2> QED BY <1>1, <2>1, ProposalIsPatchable DEF SoundPatch, PatchInv, FlowInv
<1>2. CASE s.type = "mutation_application"
  <2>1. Payload(s, attempt) = ApplicationPayload(s)
    BY <1>2 DEF Payload
  <2> QED BY <1>2, <2>1, ApplicationIsWhole DEF SoundPatch
<1>3. CASE s.type \notin {"mutation_proposal", "mutation_application"}
  BY <1>3 DEF SoundPatch
<1> QED BY <1>1, <1>2, <1>3

LEMMA PatchInvInit == FlowInit => PatchInv
<1>1. DOMAIN << >> = {}
  OBVIOUS
<1> QED BY <1>1, FlowInvInit DEF FlowInit, PatchInv

LEMMA AttemptKeepsPatches ==
  ASSUME PatchInv, FlowInv', NEW s \in ToSet(rows), Attempt(s), UNCHANGED vars
  PROVE  PatchInv'
<1>1. run' = run /\ output' = output
  BY DEF vars, Attempt
<1>2. PICK attempt : drafts' \subseteq drafts \cup {[stage |-> s, attempt |-> attempt,
                                                     payload |-> Payload(s, attempt)]}
  BY DEF Attempt
<1>3. SoundPatch(run, output, s, Payload(s, attempt))
  <2>1. run.content # NoContent /\ ~Unsupported(s) /\ ToSet(s.parents) \subseteq DOMAIN output
    BY DEF Attempt, Claimable
  <2> QED BY <2>1, PayloadPatches
<1>4. ASSUME NEW d \in drafts' PROVE SoundPatch(run, output, d.stage, d.payload)
  <2>1. CASE d \in drafts
    BY <2>1 DEF PatchInv
  <2>2. CASE d = [stage |-> s, attempt |-> attempt, payload |-> Payload(s, attempt)]
    <3>1. d.stage = s /\ d.payload = Payload(s, attempt)
      BY <2>2
    <3> QED BY <1>3, <3>1
  <2> QED BY <1>2, <2>1, <2>2
<1> QED BY <1>1, <1>4 DEF PatchInv

LEMMA CompleteKeepsPatches ==
  ASSUME PatchInv, FlowInv', NEW d \in drafts, Complete(d), UNCHANGED vars
  PROVE  PatchInv'
<1>1. run' = run /\ output' = With(output, d) /\ drafts' \subseteq drafts
  BY DEF vars, Complete
<1>2. /\ DOMAIN output' = DOMAIN output \cup {d.stage}
      /\ output'[d.stage] = d.payload
      /\ \A s \in DOMAIN output : output'[s] = output[s]
  BY <1>1, Recorded DEF Complete, Extends
<1>3. ASSUME NEW s, NEW p, SoundPatch(run, output, s, p) PROVE SoundPatch(run, output', s, p)
  BY <1>2, <1>3 DEF SoundPatch
<1>4. ASSUME NEW s \in DOMAIN output' PROVE SoundPatch(run, output', s, output'[s])
  BY <1>2, <1>3 DEF PatchInv
<1>5. \A e \in drafts' : SoundPatch(run, output', e.stage, e.payload)
  BY <1>1, <1>3 DEF PatchInv
<1> QED BY <1>1, <1>4, <1>5 DEF PatchInv

LEMMA PatchInvNext == PatchInv /\ [FlowNext]_<<vars, flowVars>> => PatchInv'
<1> SUFFICES ASSUME PatchInv, [FlowNext]_<<vars, flowVars>> PROVE PatchInv'
  OBVIOUS
<1>1. FlowInv'
  BY FlowInvNext DEF PatchInv
<1>2. CASE [Next]_vars /\ UNCHANGED flowVars
  <2>1. run' = run
    BY <1>2 DEF Next, Reject, PlanMissingStages, AddNext, vars
  <2> QED BY <1>1, <1>2, <2>1 DEF PatchInv, flowVars
<1>3. ASSUME NEW s \in ToSet(rows), Attempt(s), UNCHANGED vars PROVE PatchInv'
  BY <1>1, <1>3, AttemptKeepsPatches
<1>4. ASSUME NEW s \in ToSet(rows), FailTerminally(s), UNCHANGED vars PROVE PatchInv'
  BY <1>1, <1>4 DEF PatchInv, FailTerminally, vars
<1>5. ASSUME NEW d \in drafts, Complete(d), UNCHANGED vars PROVE PatchInv'
  BY <1>1, <1>5, CompleteKeepsPatches
<1> QED BY <1>2, <1>3, <1>4, <1>5 DEF FlowNext

\* Whatever is proposed, for whatever genome, however deep: a patch is applied
\* as a whole or not at all, touches nothing that its operations do not
\* name, and its proposal is recorded as it was made unless one operation
\* reaches into what another one wrote.
THEOREM PatchesAreWhole == FlowSpec => []PatchesAllOrNothing
<1>1. ASSUME PatchInv PROVE PatchesAllOrNothing
  <2> SUFFICES ASSUME NEW s \in Succeeded("mutation_application")
               PROVE  LET application == output[s].application
                          operations == output[s].proposal.operations
                          parent == run.content.genome
                          apart(path, operation) == /\ ~IsPrefix(Named(operation.path), path)
                                                    /\ ~IsPrefix(path, Named(operation.path))
                      IN  /\ ~application.applied => application.genome = parent
                                                     /\ application.child = NoGenome
                          /\ application.applied =>
                                /\ application.child # NoGenome
                                /\ operations # << >> =>
                                      IsDone(Last(operations), application.genome)
                                /\ \A path \in NamedPaths(parent) :
                                      (\A i \in DOMAIN operations : apart(path, operations[i]))
                                      => Read(application.genome, path) = Read(parent, path)
                          /\ ~Entangled(operations) =>
                                output[s].proposal = output[s.parents[1]].proposal
    BY DEF PatchesAllOrNothing
  <2> DEFINE proposal == output[s.parents[1]].proposal
             application == output[s].application
             operations == output[s].proposal.operations
             parent == run.content.genome
  <2>1. s \in DOMAIN output /\ s.type = "mutation_application"
    BY DEF Succeeded
  <2>2. /\ s.parents[1] \in DOMAIN output
        /\ IsWholePatch(proposal, parent, application)
        /\ output[s].proposal = application.proposal
    BY <1>1, <2>1 DEF PatchInv, SoundPatch
  <2>3. operations = proposal.operations
    BY <2>2 DEF IsWholePatch
  <2>4. DOMAIN proposal.operations = 1..Len(proposal.operations)
    <3>1. s.parents[1].type = "mutation_proposal"
      BY <1>1, <2>1, ApplicationParent DEF PatchInv, FlowInv
    <3>2. ArePatchable(proposal, parent)
      BY <1>1, <2>2, <3>1 DEF PatchInv, SoundPatch
    <3> HIDE DEF proposal, parent
    <3>3. IsList(proposal.operations)
      BY <3>2, PatchFacts
    <3> QED BY <3>3, ListFacts
  <2> HIDE DEF proposal, application, operations, parent
  <2>5. ASSUME NEW path,
               \A i \in DOMAIN operations : ~IsPrefix(Named(operations[i].path), path)
        PROVE  Aside(proposal, path)
    BY <2>3, <2>4, <2>5 DEF Aside
  <2>6. ~application.applied => application.genome = parent /\ application.child = NoGenome
    BY <2>2 DEF IsWholePatch
  <2>7. application.applied =>
           /\ application.child # NoGenome
           /\ operations # << >> => IsDone(Last(operations), application.genome)
           /\ \A path \in NamedPaths(parent) :
                 Aside(proposal, path) => Read(application.genome, path) = Read(parent, path)
    BY <2>2, <2>3 DEF IsWholePatch
  <2>8. ~Entangled(operations) => output[s].proposal = proposal
    BY <2>2, <2>3 DEF IsWholePatch
  <2> QED BY <2>5, <2>6, <2>7, <2>8 DEF proposal, application, operations, parent
<1> QED BY <1>1, PatchInvInit, PatchInvNext, PTL DEF FlowSpec
=============================================================================
