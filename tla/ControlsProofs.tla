--------------------------- MODULE ControlsProofs ----------------------------
(***************************************************************************)
(* Proofs about Controls, for any profiles, requests and order of the      *)
(* controls in a request.                                                  *)
(***************************************************************************)
EXTENDS Controls, FiniteSetTheorems, WellFoundedInduction, TLAPS

-----------------------------------------------------------------------------
(* Compiling the controls of a request.                                    *)

RequestTyped == \A c \in DOMAIN request : request[c].examples \in Seq(ExampleKinds)

\* Nothing is compiled before the builder starts.
NothingYet ==
    phase \in {"planning", "rejected"} =>
        /\ effective = {} /\ dropped = {} /\ messages = << >>
        /\ todo = {}

\* Where a message comes from.
Sent(c) ==
    /\ Allowed(c)
    /\ \/ c \in effective
       \/ c = "message_examples" /\ ~WellFormed(request[c])

\* Halfway through a request: the controls that are done are effective or
\* dropped, and only those that are allowed have left anything behind.
CompileInv ==
    /\ phase \in {"planning", "rejected", "compiling", "raised", "built"}
    /\ RequestTyped
    /\ NothingYet
    /\ todo \subseteq DOMAIN request
    /\ phase = "built" => todo = {}
    /\ phase \in {"compiling", "built"} => effective \cup dropped = DOMAIN request \ todo
    /\ effective \cap dropped = {}
    /\ \A c \in effective : Allowed(c)
    /\ DOMAIN body = BodyFields
    /\ \A f \in BodyFields : body[f] \subseteq effective
    /\ messages \in Seq(DOMAIN request)
    /\ \A c \in ToSet(messages) : Sent(c)

\* The number of examples used is a number.
LEMMA ExamplesUsedType ==
  ASSUME NEW value, value.examples \in Seq(ExampleKinds)
  PROVE  ExamplesUsed(value) \in Nat
<1> DEFINE used == {i \in DOMAIN value.examples : \A j \in 1..i : value.examples[j] = "ok"}
<1>1. IsFiniteSet(DOMAIN value.examples)
  <2>1. DOMAIN value.examples = 1..Len(value.examples) /\ Len(value.examples) \in Nat
    OBVIOUS
  <2> QED BY <2>1, FS_Interval
<1>2. IsFiniteSet(used)
  BY <1>1, FS_Subset
<1> QED BY <1>2, FS_CardinalityType DEF ExamplesUsed

\* A control's messages are its own, and a control that has any is compiled,
\* or is a list of examples with a malformed one.
LEMMA MessagesAreItsOwn ==
  ASSUME NEW name, NEW value, value.examples \in Seq(ExampleKinds)
  PROVE  /\ MessagesOf(name, value) \in Seq({name})
         /\ MessagesOf(name, value) # << >> =>
               \/ Compiled(name, value)
               \/ name = "message_examples" /\ ~WellFormed(value)
<1>1. CASE name \in {"persona_text", "plain_output_instructions"} /\ value.form # "empty"
  <2>1. MessagesOf(name, value) = <<name>>
    BY <1>1 DEF MessagesOf
  <2>2. <<name>> \in Seq({name})
    OBVIOUS
  <2>3. Compiled(name, value)
    BY <1>1 DEF Compiled
  <2> QED BY <2>1, <2>2, <2>3
<1>2. CASE name = "message_examples" /\ value.form = "usable"
  <2>1. MessagesOf(name, value) = [i \in 1..ExamplesUsed(value) |-> name]
    BY <1>2 DEF MessagesOf
  <2>2. MessagesOf(name, value) \in Seq({name})
    BY <2>1, ExamplesUsedType
  <2> QED BY <1>2, <2>2 DEF Compiled
<1>3. CASE /\ ~(name \in {"persona_text", "plain_output_instructions"}
                /\ value.form # "empty")
           /\ ~(name = "message_examples" /\ value.form = "usable")
  BY <1>3 DEF MessagesOf
<1> QED BY <1>1, <1>2, <1>3

\* A control that sets a field is compiled.
LEMMA FieldsAreCompiled ==
  ASSUME NEW name, NEW value, FieldsOf(name, value) # {}
  PROVE  Compiled(name, value)
  BY DEF FieldsOf, Compiled

\* What a list of messages comes from when another is appended.
LEMMA SourcesAppended ==
  ASSUME NEW S, NEW s \in Seq(S), NEW t \in Seq(S)
  PROVE  /\ s \o t \in Seq(S)
         /\ ToSet(s \o t) = ToSet(s) \cup ToSet(t)
<1>1. s \o t \in Seq(S) /\ Len(s \o t) = Len(s) + Len(t)
  OBVIOUS
<1>2. \A i \in 1..Len(s) : (s \o t)[i] = s[i]
  OBVIOUS
<1>3. \A i \in 1..Len(t) : (s \o t)[Len(s) + i] = t[i]
  OBVIOUS
<1>4. \A i \in 1..Len(s \o t) : i \in 1..Len(s) \/ i - Len(s) \in 1..Len(t)
  BY <1>1
<1>5. ToSet(s \o t) \subseteq ToSet(s) \cup ToSet(t)
  <2> SUFFICES ASSUME NEW i \in 1..Len(s \o t)
               PROVE  (s \o t)[i] \in ToSet(s) \cup ToSet(t)
    BY <1>1 DEF ToSet
  <2>1. CASE i \in 1..Len(s)
    BY <1>2, <2>1 DEF ToSet
  <2>2. CASE i - Len(s) \in 1..Len(t)
    <3>1. (s \o t)[i] = t[i - Len(s)]
      BY <1>3, <2>2
    <3> QED BY <2>2, <3>1 DEF ToSet
  <2> QED BY <1>4, <2>1, <2>2
<1>6. ToSet(s) \cup ToSet(t) \subseteq ToSet(s \o t)
  <2>1. ASSUME NEW i \in 1..Len(s) PROVE s[i] \in ToSet(s \o t)
    BY <1>1, <1>2 DEF ToSet
  <2>2. ASSUME NEW i \in 1..Len(t) PROVE t[i] \in ToSet(s \o t)
    <3>1. Len(s) + i \in 1..Len(s \o t)
      BY <1>1
    <3> QED BY <1>1, <1>3, <3>1 DEF ToSet
  <2>3. DOMAIN s = 1..Len(s) /\ DOMAIN t = 1..Len(t)
    OBVIOUS
  <2>4. ToSet(s) \subseteq ToSet(s \o t) /\ ToSet(t) \subseteq ToSet(s \o t)
    BY <2>1, <2>2, <2>3, Zenon DEF ToSet
  <2> QED BY <2>4
<1> QED BY <1>1, <1>5, <1>6

LEMMA InitCompile == Init => CompileInv
<1> SUFFICES ASSUME Init PROVE CompileInv
  OBVIOUS
<1>1. RequestTyped
  BY ControlsAssumption DEF Init, RequestTyped
<1>2. ToSet(messages) = {}
  BY DEF Init, ToSet
<1> QED BY <1>1, <1>2 DEF Init, CompileInv, NothingYet

\* Compiling a control: if it is not allowed it is dropped and nothing else
\* happens, otherwise it is effective or dropped, and what it sends is its
\* own.
LEMMA CompileKeeps ==
  ASSUME CompileInv, NEW name \in DOMAIN request, CompileControl(name)
  PROVE  CompileInv'
<1> DEFINE value == request[name]
<1>0. /\ phase = "compiling" /\ phase' = phase /\ name \in todo /\ todo' = todo \ {name}
      /\ UNCHANGED <<profile, request>>
  BY DEF CompileControl
<1>1. \A c : Allowed(c)' <=> Allowed(c)
  BY <1>0 DEF Allowed
<1>2. RequestTyped' /\ NothingYet'
  BY <1>0 DEF CompileInv, RequestTyped, NothingYet
<1>3. value.examples \in Seq(ExampleKinds)
  BY DEF CompileInv, RequestTyped
<1>4. name \notin effective /\ name \notin dropped
  BY <1>0 DEF CompileInv
<1>5. CASE ~Allowed(name)
  <2>1. dropped' = dropped \cup {name} /\ UNCHANGED <<effective, messages, body>>
    BY <1>5 DEF CompileControl
  <2>2. \A c : Sent(c) => Sent(c)'
    BY <1>0, <1>1, <2>1 DEF Sent, WellFormed
  <2> QED BY <1>0, <1>1, <1>2, <1>4, <2>1, <2>2 DEF CompileInv
<1>6. CASE Allowed(name)
  <2>1. /\ IF Compiled(name, value)
           THEN effective' = effective \cup {name} /\ dropped' = dropped
           ELSE dropped' = dropped \cup {name} /\ effective' = effective
        /\ messages' = messages \o MessagesOf(name, value)
        /\ body' = [f \in BodyFields |->
                       IF f \in FieldsOf(name, value) THEN {name} ELSE body[f]]
    BY <1>6 DEF CompileControl
  <2>2. \A c : Sent(c) => Sent(c)'
    BY <1>0, <1>1, <2>1 DEF Sent, WellFormed
  <2>3. MessagesOf(name, value) \in Seq({name})
    BY <1>3, MessagesAreItsOwn
  <2>4. MessagesOf(name, value) \in Seq(DOMAIN request)
    BY <2>3
  <2>5. messages' \in Seq(DOMAIN request)
        /\ ToSet(messages') = ToSet(messages) \cup ToSet(MessagesOf(name, value))
    BY <2>1, <2>4, SourcesAppended DEF CompileInv
  <2>6. \A c \in ToSet(MessagesOf(name, value)) : Sent(c)'
    <3> SUFFICES ASSUME NEW c \in ToSet(MessagesOf(name, value)) PROVE Sent(c)'
      OBVIOUS
    <3>1. c = name /\ MessagesOf(name, value) # << >>
      BY <2>3 DEF ToSet
    <3>2. \/ Compiled(name, value)
          \/ name = "message_examples" /\ ~WellFormed(value)
      BY <1>3, <3>1, MessagesAreItsOwn
    <3> QED BY <1>0, <1>1, <1>6, <2>1, <3>1, <3>2 DEF Sent, WellFormed
  <2>7. \A c \in ToSet(messages') : Sent(c)'
    BY <2>2, <2>5, <2>6 DEF CompileInv
  <2>8. \A f \in BodyFields : body'[f] \subseteq effective'
    BY <2>1, FieldsAreCompiled DEF CompileInv
  <2>9. \A c \in effective' : Allowed(c)'
    BY <1>1, <1>6, <2>1 DEF CompileInv
  <2> HIDE DEF value
  <2>10. /\ effective' \cup dropped' = DOMAIN request' \ todo'
         /\ effective' \cap dropped' = {}
    BY <1>0, <1>4, <2>1 DEF CompileInv
  <2>11. /\ todo' \subseteq DOMAIN request'
         /\ DOMAIN body' = BodyFields
         /\ messages' \in Seq(DOMAIN request')
    BY <1>0, <2>1, <2>5 DEF CompileInv
  <2> QED BY <1>0, <1>2, <2>7, <2>8, <2>9, <2>10, <2>11 DEF CompileInv
<1> QED BY <1>5, <1>6

LEMMA NextCompile == CompileInv /\ [Next]_vars => CompileInv'
<1> SUFFICES ASSUME CompileInv, [Next]_vars PROVE CompileInv'
  OBVIOUS
<1>1. ASSUME request' = request, effective' = effective, profile' = profile
      PROVE  /\ RequestTyped'
             /\ \A c : Sent(c)' <=> Sent(c)
             /\ \A c : Allowed(c)' <=> Allowed(c)
  BY <1>1 DEF CompileInv, RequestTyped, Sent, Allowed, WellFormed
<1>2. CASE Reject
  <2>1. /\ phase = "planning" /\ phase' = "rejected"
        /\ UNCHANGED <<profile, request, todo, effective, dropped, messages, body>>
    BY <1>2 DEF Reject
  <2> QED BY <1>1, <2>1 DEF CompileInv, NothingYet
<1>3. CASE StartBuilder
  <2>1. /\ phase = "planning" /\ phase' = "compiling" /\ todo' = DOMAIN request
        /\ UNCHANGED <<request, effective, dropped, messages, body>>
    BY <1>3 DEF StartBuilder
  <2>2. effective = {} /\ dropped = {} /\ ToSet(messages) = {}
    BY <2>1 DEF CompileInv, NothingYet, ToSet
  <2>3. RequestTyped' /\ NothingYet'
    BY <2>1 DEF CompileInv, RequestTyped, NothingYet
  <2> QED BY <2>1, <2>2, <2>3 DEF CompileInv
<1>4. CASE \E name \in DOMAIN request : CompileControl(name) \/ CompileRaises(name)
  <2>1. CASE \E name \in DOMAIN request : CompileControl(name)
    BY <2>1, CompileKeeps
  <2>2. CASE \E name \in DOMAIN request : CompileRaises(name)
    <3>1. /\ phase = "compiling" /\ phase' = "raised"
          /\ UNCHANGED <<profile, request, todo, effective, dropped, messages, body>>
      BY <2>2 DEF CompileRaises
    <3> QED BY <1>1, <3>1 DEF CompileInv, NothingYet
  <2> QED BY <1>4, <2>1, <2>2
<1>5. CASE Build
  <2>1. /\ phase = "compiling" /\ phase' = "built" /\ todo = {}
        /\ UNCHANGED <<profile, request, todo, effective, dropped, messages, body>>
    BY <1>5 DEF Build
  <2> QED BY <1>1, <2>1 DEF CompileInv, NothingYet
<1>6. CASE UNCHANGED vars
  BY <1>1, <1>6 DEF vars, CompileInv, NothingYet
<1> QED BY <1>2, <1>3, <1>4, <1>5, <1>6 DEF Next

LEMMA CompileInvariant == ControlsSpec => []CompileInv
  BY InitCompile, NextCompile, PTL DEF ControlsSpec

\* What the resolved profile bars is dropped and leaves no trace, whatever
\* else is requested and in whatever order it is compiled.
THEOREM BarredControlsAreInert == ControlsSpec => []DeniedIsInert
<1>1. CompileInv => DeniedIsInert
  BY DEF CompileInv, DeniedIsInert, Allowed, Sent
<1> QED BY <1>1, CompileInvariant, PTL

\* The builder's records account for every control and for all that is sent.
THEOREM RecordsAreComplete == ControlsSpec => []RecordsTellAll
<1>1. CompileInv => RecordsTellAll
  BY DEF CompileInv, RecordsTellAll, Sent
<1> QED BY <1>1, CompileInvariant, PTL

-----------------------------------------------------------------------------
(* Resolving a profile.  Induction is over a set of numbers, since nothing *)
(* here can be proved for an arbitrary operator: it rests on the           *)
(* well-foundedness of the natural numbers.                                *)

LEMMA NatOrder == IsWellFoundedOn({p \in Nat \X Nat : p[1] < p[2]}, Nat)
  BY NatLessThanWellFounded, Zenon DEF OpToRel

LEMMA LeastNumber ==
  ASSUME NEW T, T \subseteq Nat, T # {}
  PROVE  \E x \in T : \A y \in T : ~(y < x)
<1> DEFINE R == {p \in Nat \X Nat : p[1] < p[2]}
<1>1. PICK x \in T : \A y \in T : ~(<<y, x>> \in R)
  BY NatOrder, WFMin, Zenon
<1> QED BY <1>1

LEMMA Induction ==
  ASSUME NEW S, 0 \in S, \A n \in Nat : n \in S => n + 1 \in S
  PROVE  \A n \in Nat : n \in S
<1> DEFINE T == Nat \ S
<1> SUFFICES ASSUME T # {} PROVE FALSE
  OBVIOUS
<1>1. PICK x \in T : \A y \in T : ~(y < x)
  BY LeastNumber, Zenon
<1>2. x # 0 /\ x - 1 \in Nat /\ x - 1 < x
  BY <1>1
<1> QED BY <1>1, <1>2

IsList(s) == \E X : s \in Seq(X) /\ s # << >>

\* One step of Chain.
OneUp(configured, ids) ==
    LET above == Extended(configured, Last(ids))
    IN  IF above = NoProfile THEN ids ELSE Append(ids, above)

\* The chain of profiles is a list, with the run's profile in front.
LEMMA ChainIsList ==
  ASSUME NEW configured, NEW id, IsFiniteSet(DOMAIN configured)
  PROVE  IsList(Chain(configured, id))
<1> DEFINE K == Cardinality(DOMAIN configured)
           F(g, k) == [n \in 0..k |-> IF n = 0 THEN <<id>> ELSE OneUp(configured, g[n - 1])]
           up == CHOOSE g : g = F(g, K)
           X == {id} \cup {Extended(configured, x) : x \in DOMAIN configured}
<1>1. K \in Nat
  BY FS_CardinalityType
<1>2. \A ids \in Seq(X) : ids # << >> => /\ OneUp(configured, ids) \in Seq(X)
                                         /\ OneUp(configured, ids) # << >>
  <2> SUFFICES ASSUME NEW ids \in Seq(X), ids # << >>
               PROVE  /\ OneUp(configured, ids) \in Seq(X)
                      /\ OneUp(configured, ids) # << >>
    OBVIOUS
  <2>1. Extended(configured, Last(ids)) = NoProfile
        \/ Extended(configured, Last(ids)) \in X
    BY DEF Extended
  <2> HIDE DEF X
  <2> QED BY <2>1 DEF OneUp
<1> DEFINE S == {k \in Nat : \E g : g = F(g, k)}
<1>3. 0 \in S
  <2> DEFINE g == [n \in 0..0 |-> <<id>>]
  <2>1. g = F(g, 0)
    OBVIOUS
  <2> HIDE DEF g
  <2> QED BY <2>1
<1>4. ASSUME NEW k \in Nat, k \in S PROVE k + 1 \in S
  <2>1. PICK g : g = F(g, k)
    BY <1>4
  <2> DEFINE h == [n \in 0..(k + 1) |-> IF n <= k THEN g[n] ELSE OneUp(configured, g[k])]
  <2>2. \A n \in 0..(k + 1) :
           h[n] = IF n = 0 THEN <<id>> ELSE OneUp(configured, h[n - 1])
    <3> SUFFICES ASSUME NEW n \in 0..(k + 1)
                 PROVE  h[n] = IF n = 0 THEN <<id>> ELSE OneUp(configured, h[n - 1])
      OBVIOUS
    <3>1. CASE n <= k
      BY <2>1, <3>1
    <3>2. CASE n = k + 1
      BY <3>2
    <3> QED BY <3>1, <3>2
  <2>3. h = [n \in 0..(k + 1) |-> h[n]]
    OBVIOUS
  <2> HIDE DEF h
  <2>4. h = F(h, k + 1)
    BY <2>2, <2>3
  <2>5. k + 1 \in Nat
    OBVIOUS
  <2> HIDE DEF F
  <2> QED BY <2>4, <2>5
<1> HIDE DEF S
<1>5. K \in S
  BY <1>1, <1>3, <1>4, Induction
<1>6. \E g : g = F(g, K)
  BY <1>5 DEF S
<1> HIDE DEF K, X
<1>7. up = F(up, K)
  BY <1>6
<1>8. Chain(configured, id) = up[K]
  BY DEF Chain, OneUp, K
<1> DEFINE Good == {k \in Nat : k <= K => up[k] \in Seq(X) /\ up[k] # << >>}
<1> HIDE DEF up
<1>9. 0 \in Good
  <2>1. up[0] = <<id>>
    BY <1>1, <1>7
  <2>2. <<id>> \in Seq(X) /\ <<id>> # << >>
    BY DEF X
  <2>3. up[0] \in Seq(X) /\ up[0] # << >>
    BY <2>1, <2>2
  <2> QED BY <2>3
<1>10. ASSUME NEW k \in Nat, k \in Good PROVE k + 1 \in Good
  <2> SUFFICES ASSUME k + 1 <= K
               PROVE  up[k + 1] \in Seq(X) /\ up[k + 1] # << >>
    OBVIOUS
  <2>1. up[k + 1] = OneUp(configured, up[k])
    BY <1>1, <1>7
  <2> QED BY <1>1, <1>2, <1>10, <2>1
<1> HIDE DEF Good
<1>11. K \in Good
  BY <1>1, <1>9, <1>10, Induction
<1> QED BY <1>1, <1>8, <1>11 DEF Good, IsList

\* Resolve follows its recursion, from the end of the chain to its front.
LEMMA ResolveFromTheEnd ==
  ASSUME NEW ids, IsList(ids)
  PROVE  \E from : /\ Resolve(ids) = from[1]
                   /\ \A i \in 1..Len(ids) :
                         from[i] = IF i = Len(ids) THEN Unextended(profiles[ids[i]])
                                   ELSE Extend(profiles[ids[i]], from[i + 1])
<1> DEFINE L == Len(ids)
           F(g, k) == [i \in (L - k)..L |->
                          IF i = L THEN Unextended(profiles[ids[i]])
                          ELSE Extend(profiles[ids[i]], g[i + 1])]
           S == {k \in Nat : \E g : g = F(g, k)}
           from == CHOOSE g : g = [i \in 1..L |->
                                      IF i = L THEN Unextended(profiles[ids[i]])
                                      ELSE Extend(profiles[ids[i]], g[i + 1])]
<1>1. L \in Nat /\ L >= 1
  BY DEF IsList
<1> HIDE DEF L
<1>2. 0 \in S
  <2> DEFINE g == [i \in (L - 0)..L |-> Unextended(profiles[ids[i]])]
  <2>1. g = F(g, 0)
    BY <1>1
  <2> HIDE DEF g
  <2> QED BY <2>1
<1>3. ASSUME NEW k \in Nat, k \in S PROVE k + 1 \in S
  <2>1. PICK g : g = F(g, k)
    BY <1>3
  <2> DEFINE h == [i \in (L - (k + 1))..L |->
                      IF i >= L - k THEN g[i] ELSE Extend(profiles[ids[i]], g[i + 1])]
  <2>2. \A i \in (L - (k + 1))..L :
           h[i] = IF i = L THEN Unextended(profiles[ids[i]])
                  ELSE Extend(profiles[ids[i]], h[i + 1])
    <3> SUFFICES ASSUME NEW i \in (L - (k + 1))..L
                 PROVE  h[i] = IF i = L THEN Unextended(profiles[ids[i]])
                               ELSE Extend(profiles[ids[i]], h[i + 1])
      OBVIOUS
    <3>1. CASE i >= L - k
      BY <1>1, <2>1, <3>1
    <3>2. CASE i = L - (k + 1)
      BY <1>1, <3>2
    <3> QED BY <1>1, <3>1, <3>2
  <2>3. h = [i \in (L - (k + 1))..L |-> h[i]]
    OBVIOUS
  <2> HIDE DEF h
  <2>4. h = F(h, k + 1)
    BY <2>2, <2>3
  <2>5. k + 1 \in Nat
    OBVIOUS
  <2> HIDE DEF F
  <2> QED BY <2>4, <2>5
<1> HIDE DEF S
<1>4. L - 1 \in S
  BY <1>1, <1>2, <1>3, Induction
<1>5. \E g : g = F(g, L - 1)
  BY <1>4 DEF S
<1>6. L - (L - 1) = 1
  BY <1>1
<1>7. from = [i \in 1..L |-> IF i = L THEN Unextended(profiles[ids[i]])
                             ELSE Extend(profiles[ids[i]], from[i + 1])]
  BY <1>5, <1>6
<1>8. Resolve(ids) = from[1]
  BY DEF Resolve, L
<1> HIDE DEF from
<1>9. \A i \in 1..L : from[i] = IF i = L THEN Unextended(profiles[ids[i]])
                                ELSE Extend(profiles[ids[i]], from[i + 1])
  BY <1>7
<1> QED BY <1>8, <1>9 DEF L

\* What the profiles from a position of the chain on come to.
Decides(p, ids, i) ==
    /\ \A c : c \in p.allowed \cup p.denied
                 <=> \E k \in i..Len(ids) : Mentions(ids[k], c)
    /\ \A k \in i..Len(ids) : \A c :
          /\ Mentions(ids[k], c)
          /\ \A j \in i..(k - 1) : ~Mentions(ids[j], c)
          => (c \in p.denied <=> c \in profiles[ids[k]].denied)

\* A profile put in front decides what it mentions and leaves the rest alone.
LEMMA ExtendDecides ==
  ASSUME NEW ids, NEW p, NEW i \in Nat, Len(ids) \in Nat, i < Len(ids),
         Decides(p, ids, i + 1)
  PROVE  Decides(Extend(profiles[ids[i]], p), ids, i)
<1> DEFINE child == profiles[ids[i]]
           q == Extend(child, p)
<1>1. /\ q.denied = (p.denied \ child.allowed) \cup child.denied
      /\ q.allowed = (p.allowed \cup child.allowed) \ q.denied
  BY DEF Extend
<1>2. \A c : Mentions(ids[i], c) <=> c \in child.allowed \cup child.denied
  BY DEF Mentions
<1> HIDE DEF q, child
<1>3. \A c : c \in q.allowed \cup q.denied
                <=> Mentions(ids[i], c) \/ c \in p.allowed \cup p.denied
  BY <1>1, <1>2
<1>4. \A c : c \in q.allowed \cup q.denied
                <=> \E k \in i..Len(ids) : Mentions(ids[k], c)
  <2>1. \A k : k \in i..Len(ids) <=> k = i \/ k \in (i + 1)..Len(ids)
    OBVIOUS
  <2> QED BY <1>3, <2>1 DEF Decides
<1>5. ASSUME NEW k \in i..Len(ids), NEW c, Mentions(ids[k], c),
             \A j \in i..(k - 1) : ~Mentions(ids[j], c)
      PROVE  c \in q.denied <=> c \in profiles[ids[k]].denied
  <2>1. CASE k = i
    BY <1>1, <1>2, <1>5, <2>1 DEF child
  <2>2. CASE k # i
    <3>1. k \in (i + 1)..Len(ids) /\ i \in i..(k - 1)
      BY <2>2
    <3>2. c \notin child.allowed /\ c \notin child.denied
      BY <1>2, <1>5, <3>1
    <3>3. \A j \in (i + 1)..(k - 1) : ~Mentions(ids[j], c)
      BY <1>5
    <3>4. c \in p.denied <=> c \in profiles[ids[k]].denied
      BY <1>5, <3>1, <3>3 DEF Decides
    <3> QED BY <1>1, <3>2, <3>4
  <2> QED BY <2>1, <2>2
<1> QED BY <1>4, <1>5 DEF Decides, q, child

LEMMA ResolveDecides ==
  ASSUME NEW ids, IsList(ids)
  PROVE  Decides(Resolve(ids), ids, 1)
<1> DEFINE L == Len(ids)
<1>1. L \in Nat /\ L >= 1
  BY DEF IsList
<1>2. PICK from : /\ Resolve(ids) = from[1]
                  /\ \A i \in 1..L :
                        from[i] = IF i = L THEN Unextended(profiles[ids[i]])
                                  ELSE Extend(profiles[ids[i]], from[i + 1])
  BY ResolveFromTheEnd
<1> DEFINE S == {k \in Nat : k < L => Decides(from[L - k], ids, L - k)}
<1>3. 0 \in S
  <2>1. from[L] = Unextended(profiles[ids[L]])
    BY <1>1, <1>2
  <2>2. from[L].allowed = profiles[ids[L]].allowed /\ from[L].denied = profiles[ids[L]].denied
    BY <2>1 DEF Unextended
  <2>3. \A k : k \in L..L <=> k = L
    BY <1>1
  <2>4. Decides(from[L], ids, L)
    BY <2>2, <2>3 DEF Decides, Mentions
  <2> HIDE DEF L
  <2> QED BY <1>1, <2>4
<1>4. ASSUME NEW k \in Nat, k \in S PROVE k + 1 \in S
  <2> SUFFICES ASSUME k + 1 < L PROVE Decides(from[L - (k + 1)], ids, L - (k + 1))
    OBVIOUS
  <2> DEFINE i == L - (k + 1)
  <2>1. i \in 1..L /\ i \in Nat /\ i < L /\ i # L /\ L - k = i + 1
    BY <1>1
  <2> HIDE DEF i, L
  <2>2. from[i] = Extend(profiles[ids[i]], from[i + 1])
    BY <1>2, <2>1
  <2>3. Decides(from[i + 1], ids, i + 1)
    BY <1>1, <1>4, <2>1
  <2>4. Decides(Extend(profiles[ids[i]], from[i + 1]), ids, i)
    BY <1>1, <2>1, <2>3, ExtendDecides DEF L
  <2> QED BY <2>2, <2>4 DEF i
<1> HIDE DEF S
<1>5. L - 1 \in S
  BY <1>1, <1>3, <1>4, Induction
<1>6. L - (L - 1) = 1 /\ L - 1 < L
  BY <1>1
<1> QED BY <1>2, <1>5, <1>6 DEF S

\* From here on the profile is the chain resolved.
ResolvedInv ==
    /\ IsList(chain)
    /\ phase \in {"compiling", "built"} => profile = Resolve(chain)

LEMMA ResolvedInvariant == ControlsSpec => []ResolvedInv
<1>1. Init => ResolvedInv
  BY ControlsAssumption, ChainIsList DEF Init, ResolvedInv
<1>2. ResolvedInv /\ [Next]_vars => ResolvedInv'
  <2> SUFFICES ASSUME ResolvedInv, [Next]_vars PROVE ResolvedInv'
    OBVIOUS
  <2>1. UNCHANGED <<profiles, chain>>
    BY DEF Next, Reject, StartBuilder, CompileControl, CompileRaises, Build, vars
  <2>2. IsList(chain)' /\ Resolve(chain)' = Resolve(chain)
    BY <2>1 DEF ResolvedInv, IsList, Resolve
  <2>3. \/ phase' \notin {"compiling", "built"}
        \/ profile' = Resolve(chain)
        \/ phase \in {"compiling", "built"} /\ profile' = profile
    BY DEF Next, Reject, StartBuilder, CompileControl, CompileRaises, Build, vars
  <2> QED BY <2>2, <2>3 DEF ResolvedInv
<1> QED BY <1>1, <1>2, PTL DEF ControlsSpec

LEMMA NearestDecides == ResolvedInv => NearestMentionDecides
<1> SUFFICES ASSUME ResolvedInv, phase \in {"compiling", "built"}
             PROVE  NearestMentionDecides
  BY DEF NearestMentionDecides
<1> DEFINE all == UNION {profiles[id].allowed \cup profiles[id].denied : id \in ToSet(chain)}
           IsNearest(i, c) == /\ Mentions(chain[i], c)
                              /\ \A j \in 1..(i - 1) : ~Mentions(chain[j], c)
           nearest(c) == CHOOSE i \in DOMAIN chain : IsNearest(i, c)
<1>1. DOMAIN chain = 1..Len(chain) /\ Len(chain) \in Nat
  BY DEF ResolvedInv, IsList
<1>2. Decides(profile, chain, 1)
  BY ResolveDecides DEF ResolvedInv
<1>3. \A c : c \in all <=> \E k \in 1..Len(chain) : Mentions(chain[k], c)
  BY <1>1 DEF ToSet, Mentions
<1>4. profile.allowed \cup profile.denied = all
  BY <1>2, <1>3 DEF Decides
<1>5. ASSUME NEW c \in all
      PROVE  nearest(c) \in 1..Len(chain) /\ IsNearest(nearest(c), c)
  <2> DEFINE T == {k \in 1..Len(chain) : Mentions(chain[k], c)}
  <2>1. T \subseteq Nat /\ T # {}
    <3> HIDE DEF all
    <3> QED BY <1>1, <1>3
  <2>2. PICK k \in T : \A j \in T : ~(j < k)
    BY <2>1, LeastNumber, Zenon
  <2>3. k \in DOMAIN chain /\ IsNearest(k, c)
    BY <1>1, <2>2
  <2> HIDE DEF IsNearest
  <2> QED BY <1>1, <2>3
<1>6. \A c \in all : c \in profile.denied <=> c \in profiles[chain[nearest(c)]].denied
  <2> SUFFICES ASSUME NEW c \in all
               PROVE  c \in profile.denied <=> c \in profiles[chain[nearest(c)]].denied
    OBVIOUS
  <2> HIDE DEF nearest
  <2> QED BY <1>2, <1>5 DEF Decides
<1>7. profile.denied = {c \in all : c \in profiles[chain[nearest(c)]].denied}
  <2> HIDE DEF nearest, all
  <2> QED BY <1>4, <1>6
<1>8. profile.allowed \ profile.denied = all \ profile.denied
  BY <1>4
<1> QED BY <1>7, <1>8, Zenon DEF NearestMentionDecides

\* The nearest profile that mentions a control decides, for chains of any
\* length.
THEOREM NearestProfileDecides == ControlsSpec => []NearestMentionDecides
  BY NearestDecides, ResolvedInvariant, PTL
=============================================================================
