---------------------------- MODULE RunPlanProofs ----------------------------
(***************************************************************************)
(* Proofs about RunPlan, for every configuration: runs of any number of    *)
(* scenarios, agents, rollouts, turns, assessments and mutations.          *)
(*                                                                         *)
(* The loops of the planner are recursive functions, so induction is over  *)
(* a set of numbers: nothing here can be proved for an arbitrary operator. *)
(***************************************************************************)
EXTENDS RunPlan, WellFoundedInduction, FiniteSetTheorems, TLAPS

LEMMA NatOrder == IsWellFoundedOn({p \in Nat \X Nat : p[1] < p[2]}, Nat)
  BY NatLessThanWellFounded, Zenon DEF OpToRel

LEMMA Induction ==
  ASSUME NEW S, 0 \in S, \A n \in Nat : n \in S => n + 1 \in S
  PROVE  \A n \in Nat : n \in S
<1> DEFINE R == {p \in Nat \X Nat : p[1] < p[2]}
           T == Nat \ S
<1> SUFFICES ASSUME T # {} PROVE FALSE
  OBVIOUS
<1>1. PICK x \in T : \A y \in T : ~(<<y, x>> \in R)
  BY NatOrder, WFMin, Zenon
<1>2. \A y \in T : ~(y < x)
  BY <1>1
<1>3. x # 0 /\ x - 1 \in Nat /\ x - 1 < x
  BY <1>1
<1> QED BY <1>1, <1>2, <1>3

-----------------------------------------------------------------------------
(* Lists and loops.                                                        *)

IsList(s) == s \in Seq(ToSet(s))

LEMMA ListOf == ASSUME NEW X, NEW s \in Seq(X) PROVE IsList(s)
<1>1. DOMAIN s = 1..Len(s) /\ Len(s) \in Nat
  OBVIOUS
<1>2. s \in [1..Len(s) -> ToSet(s)]
  BY <1>1 DEF ToSet
<1> QED BY <1>1, <1>2 DEF IsList

LEMMA Tabulated ==
  ASSUME NEW n \in Nat, NEW f, f = [i \in 1..n |-> f[i]]
  PROVE  IsList(f) /\ Len(f) = n
<1>1. f \in [1..n -> ToSet(f)]
  BY DEF ToSet
<1> QED BY <1>1 DEF IsList

LEMMA ListFacts ==
  ASSUME NEW s, IsList(s)
  PROVE  /\ Len(s) \in Nat
         /\ DOMAIN s = 1..Len(s)
         /\ s = << >> <=> Len(s) = 0
         /\ ToSet(s) = {s[i] : i \in 1..Len(s)}
  BY DEF IsList, ToSet

LEMMA Concatenated ==
  ASSUME NEW s, NEW t, IsList(s), IsList(t)
  PROVE  /\ IsList(s \o t)
         /\ Len(s \o t) = Len(s) + Len(t)
         /\ \A i \in 1..Len(s) : (s \o t)[i] = s[i]
         /\ \A i \in 1..Len(t) : (s \o t)[Len(s) + i] = t[i]
         /\ \A i \in (Len(s) + 1)..Len(s \o t) :
               i - Len(s) \in 1..Len(t) /\ (s \o t)[i] = t[i - Len(s)]
         /\ ToSet(s \o t) = ToSet(s) \cup ToSet(t)
<1> DEFINE X == ToSet(s) \cup ToSet(t)
<1>1. s \in Seq(X) /\ t \in Seq(X)
  BY DEF IsList
<1> HIDE DEF X
<1>2. /\ s \o t \in Seq(X)
      /\ Len(s) \in Nat /\ Len(t) \in Nat
      /\ Len(s \o t) = Len(s) + Len(t)
      /\ \A i \in 1..Len(s) : (s \o t)[i] = s[i]
      /\ \A i \in 1..Len(t) : (s \o t)[Len(s) + i] = t[i]
  BY <1>1
<1>3. \A i \in (Len(s) + 1)..Len(s \o t) :
         i - Len(s) \in 1..Len(t) /\ (s \o t)[i] = t[i - Len(s)]
  <2> SUFFICES ASSUME NEW i \in (Len(s) + 1)..Len(s \o t)
               PROVE  i - Len(s) \in 1..Len(t) /\ (s \o t)[i] = t[i - Len(s)]
    OBVIOUS
  <2>1. i - Len(s) \in 1..Len(t) /\ Len(s) + (i - Len(s)) = i
    BY <1>2
  <2> QED BY <1>2, <2>1
<1>4. IsList(s \o t)
  BY <1>2, ListOf
<1>5. ToSet(s \o t) \subseteq ToSet(s) \cup ToSet(t)
  <2> DEFINE u == s \o t
  <2>0. ToSet(u) = {u[i] : i \in 1..Len(u)}
    BY <1>4, ListFacts, Zenon
  <2> SUFFICES ASSUME NEW i \in 1..Len(s \o t)
               PROVE  (s \o t)[i] \in ToSet(s) \cup ToSet(t)
    BY <2>0, Zenon
  <2>1. CASE i \in 1..Len(s)
    BY <1>2, <2>1, ListFacts
  <2>2. CASE i \in (Len(s) + 1)..Len(s \o t)
    BY <1>3, <2>2, ListFacts
  <2> QED BY <1>2, <2>1, <2>2
<1>6. ToSet(s) \subseteq ToSet(s \o t)
  <2> SUFFICES ASSUME NEW i \in 1..Len(s) PROVE s[i] \in ToSet(s \o t)
    BY ListFacts
  <2>1. i \in 1..Len(s \o t)
    BY <1>2
  <2> QED BY <1>2, <1>4, <2>1, ListFacts
<1>7. ToSet(t) \subseteq ToSet(s \o t)
  <2> SUFFICES ASSUME NEW i \in 1..Len(t) PROVE t[i] \in ToSet(s \o t)
    BY ListFacts
  <2>1. Len(s) + i \in 1..Len(s \o t)
    BY <1>2
  <2> QED BY <1>2, <1>4, <2>1, ListFacts
<1> QED BY <1>2, <1>3, <1>4, <1>5, <1>6, <1>7

LEMMA Singleton == ASSUME NEW x PROVE /\ IsList(<<x>>) /\ Len(<<x>>) = 1
                                      /\ <<x>>[1] = x /\ ToSet(<<x>>) = {x}
<1>1. <<x>> \in Seq({x}) /\ Len(<<x>>) = 1 /\ <<x>>[1] = x
  OBVIOUS
<1>2. IsList(<<x>>)
  BY <1>1, ListOf
<1> QED BY <1>1, <1>2, ListFacts

LEMMA Nothing == IsList(<< >>) /\ Len(<< >>) = 0 /\ ToSet(<< >>) = {}
<1>1. << >> \in Seq({}) /\ Len(<< >>) = 0 /\ DOMAIN << >> = {}
  OBVIOUS
<1>2. IsList(<< >>)
  BY <1>1, ListOf
<1>3. ToSet(<< >>) = {}
  BY <1>1 DEF ToSet
<1> QED BY <1>1, <1>2, <1>3

\* Adding an item leaves the others where they are.
LEMMA Appended ==
  ASSUME NEW s, NEW x, IsList(s)
  PROVE  /\ IsList(Append(s, x))
         /\ Len(Append(s, x)) = Len(s) + 1
         /\ \A i \in 1..Len(s) : Append(s, x)[i] = s[i]
         /\ Append(s, x)[Len(s) + 1] = x
         /\ ToSet(Append(s, x)) = ToSet(s) \cup {x}
<1> DEFINE t == Append(s, x)
           X == ToSet(s) \cup {x}
<1>1. s \in Seq(X)
  BY DEF IsList, ToSet
<1>2. /\ t \in Seq(X) /\ Len(t) = Len(s) + 1
      /\ \A i \in 1..Len(s) : t[i] = s[i]
      /\ t[Len(s) + 1] = x
  BY <1>1
<1>3. IsList(t)
  BY <1>2, ListOf
<1> HIDE DEF t
<1>4. ToSet(t) = ToSet(s) \cup {x}
  BY <1>2, <1>3, ListFacts
<1> QED BY <1>2, <1>3, <1>4 DEF t

Joined(s, t) == s \o t

\* FlattenSeq appends one list after the other.
LEMMA FlattenSteps ==
  ASSUME NEW seqs, IsList(seqs), seqs # << >>
  PROVE  \E flat : /\ FlattenSeq(seqs) = flat[Len(seqs)]
                   /\ flat[1] = seqs[1]
                   /\ \A i \in 2..Len(seqs) : flat[i] = flat[i - 1] \o seqs[i]
<1> DEFINE L == Len(seqs)
           F(g, k) == [i \in 1..k |-> IF i = 1 THEN seqs[i] ELSE Joined(g[i - 1], seqs[i])]
           S == {k \in Nat : \E g : g = F(g, k)}
           flat == CHOOSE g : g = F(g, L)
<1>1. L \in Nat /\ L >= 1
  BY ListFacts
<1>2. 0 \in S
  <2> DEFINE g == [i \in 1..0 |-> seqs[i]]
  <2>1. g = F(g, 0)
    OBVIOUS
  <2> HIDE DEF g
  <2> QED BY <2>1
<1>3. ASSUME NEW k \in Nat, k \in S PROVE k + 1 \in S
  <2>1. PICK g : g = F(g, k)
    BY <1>3
  <2> DEFINE h == [i \in 1..(k + 1) |->
                      IF i <= k THEN g[i]
                      ELSE IF i = 1 THEN seqs[i] ELSE Joined(g[i - 1], seqs[i])]
  <2>2. \A i \in 1..(k + 1) : h[i] = IF i = 1 THEN seqs[i] ELSE Joined(h[i - 1], seqs[i])
    <3> SUFFICES ASSUME NEW i \in 1..(k + 1)
                 PROVE  h[i] = IF i = 1 THEN seqs[i] ELSE Joined(h[i - 1], seqs[i])
      OBVIOUS
    <3>1. CASE i <= k
      BY <2>1, <3>1
    <3>2. CASE i = k + 1
      BY <3>2
    <3> QED BY <3>1, <3>2
  <2>3. h = [i \in 1..(k + 1) |-> h[i]]
    OBVIOUS
  <2> HIDE DEF h
  <2>4. h = F(h, k + 1)
    BY <2>2, <2>3
  <2>5. k + 1 \in Nat
    OBVIOUS
  <2> HIDE DEF F
  <2> QED BY <2>4, <2>5
<1> HIDE DEF S
<1>4. L \in S
  BY <1>1, <1>2, <1>3, Induction
<1> HIDE DEF L
<1>5. \E g : g = F(g, L)
  BY <1>4 DEF S
<1>6. flat = F(flat, L)
  BY <1>5
<1>7. FlattenSeq(seqs) = flat[L]
  BY <1>1 DEF FlattenSeq, Joined, L
<1> HIDE DEF flat
<1>8. flat[1] = seqs[1] /\ \A i \in 2..L : flat[i] = Joined(flat[i - 1], seqs[i])
  BY <1>1, <1>6
<1> QED BY <1>7, <1>8 DEF L, Joined

\* Nothing is lost between the lists.
LEMMA FlattenNonempty ==
  ASSUME NEW seqs, IsList(seqs), seqs # << >>,
         \A i \in 1..Len(seqs) : IsList(seqs[i]), seqs[1] # << >>
  PROVE  IsList(FlattenSeq(seqs)) /\ FlattenSeq(seqs) # << >>
<1> DEFINE L == Len(seqs)
<1>1. L \in Nat /\ L >= 1
  BY ListFacts
<1>2. PICK flat : /\ FlattenSeq(seqs) = flat[L]
                  /\ flat[1] = seqs[1]
                  /\ \A i \in 2..L : flat[i] = flat[i - 1] \o seqs[i]
  BY FlattenSteps
<1> HIDE DEF L
<1> DEFINE S == {k \in Nat : k < L => IsList(flat[k + 1]) /\ Len(flat[k + 1]) > 0}
<1>3. 0 \in S
  <2>1. IsList(flat[1]) /\ Len(flat[1]) > 0
    BY <1>1, <1>2, ListFacts DEF L
  <2> QED BY <2>1
<1>4. ASSUME NEW k \in Nat, k \in S PROVE k + 1 \in S
  <2> SUFFICES ASSUME k + 1 < L PROVE IsList(flat[k + 2]) /\ Len(flat[k + 2]) > 0
    OBVIOUS
  <2>1. k + 2 \in 2..L /\ k + 2 \in 1..L /\ (k + 2) - 1 = k + 1 /\ k < L
    BY <1>1
  <2>2. IsList(flat[k + 1]) /\ Len(flat[k + 1]) > 0
    BY <1>4, <2>1
  <2>3. IsList(seqs[k + 2]) /\ Len(seqs[k + 2]) \in Nat
    BY <2>1, ListFacts DEF L
  <2>4. flat[k + 2] = Joined(flat[k + 1], seqs[k + 2])
    BY <1>2, <2>1 DEF Joined
  <2>5. /\ IsList(Joined(flat[k + 1], seqs[k + 2]))
        /\ Len(Joined(flat[k + 1], seqs[k + 2])) = Len(flat[k + 1]) + Len(seqs[k + 2])
    BY <2>2, <2>3, Concatenated DEF Joined
  <2>6. Len(flat[k + 1]) \in Nat
    BY <2>2, ListFacts
  <2>7. Len(flat[k + 1]) + Len(seqs[k + 2]) > 0
    <3>1. \A a \in Nat, b \in Nat : a > 0 => a + b > 0
      OBVIOUS
    <3> QED BY <2>2, <2>3, <2>6, <3>1, Zenon
  <2>8. Len(Joined(flat[k + 1], seqs[k + 2])) > 0
    BY <2>5, <2>7, Zenon
  <2> QED BY <2>4, <2>5, <2>8, Zenon
<1> HIDE DEF S
<1>5. L - 1 \in S
  BY <1>1, <1>3, <1>4, Induction
<1>6. IsList(flat[L]) /\ Len(flat[L]) > 0
  BY <1>1, <1>5 DEF S
<1> QED BY <1>2, <1>6, ListFacts

\* A loop yields what its passes yield.
LEMMA LoopMembers ==
  ASSUME NEW n \in Nat, NEW f, f = [i \in 1..n |-> f[i]], \A i \in 1..n : IsList(f[i])
  PROVE  /\ IsList(FlattenSeq(f))
         /\ \A x : x \in ToSet(FlattenSeq(f)) <=> \E i \in 1..n : x \in ToSet(f[i])
<1>1. IsList(f) /\ Len(f) = n
  BY Tabulated
<1>2. CASE n = 0
  <2>1. f = << >>
    BY <1>1, <1>2, ListFacts
  <2>2. FlattenSeq(f) = << >>
    BY <1>1, <1>2, <2>1 DEF FlattenSeq
  <2> QED BY <1>2, <2>2, Nothing
<1>3. CASE n # 0
  <2>1. f # << >> /\ n >= 1
    BY <1>1, <1>3, ListFacts
  <2>2. PICK flat : /\ FlattenSeq(f) = flat[n]
                    /\ flat[1] = f[1]
                    /\ \A i \in 2..n : flat[i] = flat[i - 1] \o f[i]
    BY <1>1, <2>1, FlattenSteps
  <2> DEFINE Upto(k) == /\ IsList(flat[k])
                        /\ \A x : x \in ToSet(flat[k]) <=> \E i \in 1..k : x \in ToSet(f[i])
             S == {k \in Nat : k < n => Upto(k + 1)}
  <2>3. 0 \in S
    <3>1. Upto(1)
      BY <2>1, <2>2
    <3> QED BY <3>1
  <2>4. ASSUME NEW k \in Nat, k \in S PROVE k + 1 \in S
    <3> SUFFICES ASSUME k + 1 < n PROVE Upto(k + 2)
      OBVIOUS
    <3>1. k + 2 \in 2..n /\ k + 2 \in 1..n /\ (k + 2) - 1 = k + 1 /\ k < n
      OBVIOUS
    <3>2. Upto(k + 1) /\ IsList(f[k + 2])
      BY <2>4, <3>1
    <3>3. flat[k + 2] = Joined(flat[k + 1], f[k + 2])
      BY <2>2, <3>1 DEF Joined
    <3>4. /\ IsList(flat[k + 2])
          /\ ToSet(flat[k + 2]) = ToSet(flat[k + 1]) \cup ToSet(f[k + 2])
      <4>1. IsList(flat[k + 1]) /\ IsList(f[k + 2])
        BY <3>2
      <4>2. /\ IsList(Joined(flat[k + 1], f[k + 2]))
            /\ ToSet(Joined(flat[k + 1], f[k + 2])) = ToSet(flat[k + 1]) \cup ToSet(f[k + 2])
        <5> DEFINE s == flat[k + 1]
                   u == f[k + 2]
        <5>1. IsList(s) /\ IsList(u)
          BY <4>1
        <5> HIDE DEF s, u
        <5>2. IsList(Joined(s, u)) /\ ToSet(Joined(s, u)) = ToSet(s) \cup ToSet(u)
          BY <5>1, Concatenated, Zenon DEF Joined
        <5> QED BY <5>2 DEF s, u
      <4> QED BY <3>3, <4>2, Zenon
    <3>5. \A i : i \in 1..(k + 2) <=> i \in 1..(k + 1) \/ i = k + 2
      OBVIOUS
    <3> QED BY <3>2, <3>4, <3>5
  <2> HIDE DEF S, Upto
  <2>5. n - 1 \in S
    BY <2>1, <2>3, <2>4, Induction
  <2>6. Upto(n)
    BY <2>1, <2>5 DEF S
  <2> QED BY <2>2, <2>6 DEF Upto
<1> QED BY <1>2, <1>3

-----------------------------------------------------------------------------
(* Lists of stages in the order of their dependencies.                     *)

StageOK(r, s) ==
    /\ HasItsParents(r, s)
    /\ \A k \in DOMAIN s.parents : s.parents[k].sample = s.sample

Parents(s) == ToSet(s.parents)

\* Each stage of a block is as its handler expects it and comes after its
\* parents, save those that are there already.
Block(r, there, s) ==
    /\ IsList(s)
    /\ \A i \in 1..Len(s) : StageOK(r, s[i])
    /\ \A i \in 1..Len(s) : \A p \in Parents(s[i]) :
          p \in there \/ \E j \in 1..(i - 1) : s[j] = p

LEMMA BlockLater ==
  ASSUME NEW r, NEW A, NEW B, NEW s, Block(r, A, s), A \subseteq B
  PROVE  Block(r, B, s)
  BY DEF Block

LEMMA EmptyBlock == ASSUME NEW r, NEW A PROVE Block(r, A, << >>)
  BY Nothing DEF Block

LEMMA OneStage ==
  ASSUME NEW r, NEW A, NEW x, StageOK(r, x), Parents(x) \subseteq A
  PROVE  Block(r, A, <<x>>)
  BY Singleton DEF Block

LEMMA TwoStages ==
  ASSUME NEW r, NEW A, NEW x, NEW y, StageOK(r, x), StageOK(r, y),
         Parents(x) \subseteq A, Parents(y) \subseteq A \cup {x}
  PROVE  Block(r, A, <<x, y>>) /\ ToSet(<<x, y>>) = {x, y}
<1>1. <<x, y>> \in Seq({x, y}) /\ Len(<<x, y>>) = 2 /\ <<x, y>>[1] = x /\ <<x, y>>[2] = y
  OBVIOUS
<1>2. IsList(<<x, y>>)
  BY <1>1, ListOf
<1>3. \A i \in 1..2 : i = 1 \/ i = 2
  OBVIOUS
<1>4. ToSet(<<x, y>>) = {x, y}
  BY <1>1, <1>2, <1>3, ListFacts
<1>5. 1 \in 1..(2 - 1)
  OBVIOUS
<1> QED BY <1>1, <1>2, <1>3, <1>4, <1>5 DEF Block

LEMMA JoinBlocks ==
  ASSUME NEW r, NEW A, NEW s, NEW t, Block(r, A, s), Block(r, A \cup ToSet(s), t)
  PROVE  Block(r, A, s \o t)
<1> DEFINE u == s \o t
<1>1. IsList(s) /\ IsList(t) /\ Len(s) \in Nat /\ Len(t) \in Nat
  BY ListFacts DEF Block
<1>2. /\ IsList(u) /\ Len(u) = Len(s) + Len(t)
      /\ \A i \in 1..Len(s) : u[i] = s[i]
      /\ \A i \in 1..Len(t) : u[Len(s) + i] = t[i]
      /\ \A i \in (Len(s) + 1)..Len(u) : i - Len(s) \in 1..Len(t) /\ u[i] = t[i - Len(s)]
  BY <1>1, Concatenated
<1> HIDE DEF u
<1> SUFFICES ASSUME NEW i \in 1..Len(u)
             PROVE  /\ StageOK(r, u[i])
                    /\ \A p \in Parents(u[i]) : p \in A \/ \E j \in 1..(i - 1) : u[j] = p
  BY <1>2 DEF Block, u
<1>3. CASE i \in 1..Len(s)
  <2>1. u[i] = s[i] /\ \A j \in 1..(i - 1) : u[j] = s[j]
    BY <1>1, <1>2, <1>3
  <2> QED BY <1>3, <2>1 DEF Block
<1>4. CASE i \in (Len(s) + 1)..Len(u)
  <2> DEFINE k == i - Len(s)
  <2>1. k \in 1..Len(t) /\ u[i] = t[k]
    BY <1>2, <1>4
  <2>2. StageOK(r, u[i])
    BY <2>1 DEF Block
  <2> SUFFICES ASSUME NEW p \in Parents(t[k])
               PROVE  p \in A \/ \E j \in 1..(i - 1) : u[j] = p
    BY <2>1, <2>2
  <2>3. CASE p \in ToSet(s)
    <3>1. PICK j \in 1..Len(s) : s[j] = p
      BY <1>1, <2>3, ListFacts
    <3>2. j \in 1..(i - 1) /\ u[j] = p
      BY <1>1, <1>2, <1>4, <3>1
    <3> QED BY <3>2
  <2>4. CASE \E j \in 1..(k - 1) : t[j] = p
    <3>1. PICK j \in 1..(k - 1) : t[j] = p
      BY <2>4
    <3>2. j \in 1..Len(t) /\ Len(s) + j \in 1..(i - 1)
      BY <1>1, <2>1
    <3>3. u[Len(s) + j] = p
      BY <1>2, <3>1, <3>2
    <3> QED BY <3>2, <3>3
  <2> QED BY <2>1, <2>3, <2>4 DEF Block
<1> QED BY <1>1, <1>2, <1>3, <1>4

\* A loop whose passes plan blocks plans a block.
LEMMA FlattenBlocks ==
  ASSUME NEW r, NEW A, NEW seqs, IsList(seqs),
         \A i \in 1..Len(seqs) : Block(r, A, seqs[i])
  PROVE  Block(r, A, FlattenSeq(seqs))
<1> DEFINE L == Len(seqs)
<1>1. CASE seqs = << >>
  <2>1. FlattenSeq(seqs) = << >>
    BY <1>1 DEF FlattenSeq
  <2> QED BY <2>1, EmptyBlock
<1>2. CASE seqs # << >>
  <2>1. L \in Nat /\ L >= 1
    BY <1>2, ListFacts
  <2>2. PICK flat : /\ FlattenSeq(seqs) = flat[L]
                    /\ flat[1] = seqs[1]
                    /\ \A i \in 2..L : flat[i] = flat[i - 1] \o seqs[i]
    BY <1>2, FlattenSteps
  <2> HIDE DEF L
  <2> DEFINE S == {k \in Nat : k < L => Block(r, A, flat[k + 1])}
  <2>3. 0 \in S
    <3>1. Block(r, A, flat[1])
      BY <2>1, <2>2 DEF L
    <3> QED BY <3>1
  <2>4. ASSUME NEW k \in Nat, k \in S PROVE k + 1 \in S
    <3> SUFFICES ASSUME k + 1 < L PROVE Block(r, A, flat[k + 2])
      OBVIOUS
    <3>1. k + 2 \in 2..L /\ k + 2 \in 1..L /\ (k + 2) - 1 = k + 1 /\ k < L
      BY <2>1
    <3>2. Block(r, A, flat[k + 1]) /\ Block(r, A, seqs[k + 2])
      BY <2>4, <3>1 DEF L
    <3>3. Block(r, A \cup ToSet(flat[k + 1]), seqs[k + 2])
      BY <3>2, BlockLater
    <3>4. flat[k + 2] = Joined(flat[k + 1], seqs[k + 2])
      BY <2>2, <3>1 DEF Joined
    <3>5. Block(r, A, Joined(flat[k + 1], seqs[k + 2]))
      BY <3>2, <3>3, JoinBlocks DEF Joined
    <3> QED BY <3>4, <3>5
  <2> HIDE DEF S
  <2>5. L - 1 \in S
    BY <2>1, <2>3, <2>4, Induction
  <2> QED BY <2>1, <2>2, <2>5 DEF S
<1> QED BY <1>1, <1>2

-----------------------------------------------------------------------------
(* Counting.                                                               *)

LEMMA DistinctItems ==
  ASSUME NEW s, IsList(s), \A i, j \in 1..Len(s) : s[i] = s[j] => i = j
  PROVE  IsFiniteSet(ToSet(s)) /\ Cardinality(ToSet(s)) = Len(s)
<1> DEFINE n == Len(s)
           f == [i \in 1..n |-> s[i]]
<1>1. n \in Nat /\ ToSet(s) = {s[i] : i \in 1..n}
  BY ListFacts
<1>2. f \in Bijection(1..n, ToSet(s))
  BY <1>1 DEF Bijection, Injection, Surjection, IsInjective
<1>3. ExistsBijection(1..n, ToSet(s))
  BY <1>2 DEF ExistsBijection
<1>4. Cardinality(ToSet(s)) = n
  BY <1>1, <1>3, FS_CountingElements
<1>5. IsFiniteSet(ToSet(s))
  BY <1>1, <1>3, FS_NatBijection
<1> QED BY <1>4, <1>5

LEMMA ListIsFinite == ASSUME NEW s, IsList(s) PROVE IsFiniteSet(ToSet(s))
<1> DEFINE n == Len(s)
           f == [i \in 1..n |-> s[i]]
<1>1. n \in Nat /\ ToSet(s) = {s[i] : i \in 1..n}
  BY ListFacts
<1>2. f \in Surjection(1..n, ToSet(s))
  BY <1>1 DEF Surjection
<1>3. ExistsSurjection(1..n, ToSet(s))
  BY <1>2 DEF ExistsSurjection
<1> QED BY <1>1, <1>3, FS_NatSurjection

LEMMA DisjointUnion ==
  ASSUME NEW S, NEW T, IsFiniteSet(S), IsFiniteSet(T), S \cap T = {}
  PROVE  IsFiniteSet(S \cup T) /\ Cardinality(S \cup T) = Cardinality(S) + Cardinality(T)
<1>1. Cardinality(S) \in Nat /\ Cardinality(T) \in Nat
  BY FS_CardinalityType
<1> QED BY <1>1, FS_Union, FS_EmptySet

LEMMA OneMore ==
  ASSUME NEW S, NEW x, IsFiniteSet(S), x \notin S
  PROVE  IsFiniteSet(S \cup {x}) /\ Cardinality(S \cup {x}) = Cardinality(S) + 1
  BY FS_AddElement

-----------------------------------------------------------------------------
(* The loops of the planner.                                               *)

LEMMA DictKeysSteps ==
  ASSUME NEW list, IsList(list)
  PROVE  \E keys : /\ DictKeys(list) = keys[Len(list)]
                   /\ keys[0] = << >>
                   /\ \A n \in 1..Len(list) : keys[n] = WithKey(keys[n - 1], list[n])
<1> DEFINE L == Len(list)
           F(g, k) == [n \in 0..k |-> IF n = 0 THEN << >> ELSE WithKey(g[n - 1], list[n])]
           S == {k \in Nat : \E g : g = F(g, k)}
           keys == CHOOSE g : g = F(g, L)
<1>1. L \in Nat
  BY ListFacts
<1>2. 0 \in S
  <2> DEFINE g == [n \in 0..0 |-> << >>]
  <2>1. g = F(g, 0)
    OBVIOUS
  <2> HIDE DEF g
  <2> QED BY <2>1
<1>3. ASSUME NEW k \in Nat, k \in S PROVE k + 1 \in S
  <2>1. PICK g : g = F(g, k)
    BY <1>3
  <2> DEFINE h == [n \in 0..(k + 1) |-> IF n <= k THEN g[n] ELSE WithKey(g[n - 1], list[n])]
  <2>2. \A n \in 0..(k + 1) : h[n] = IF n = 0 THEN << >> ELSE WithKey(h[n - 1], list[n])
    <3> SUFFICES ASSUME NEW n \in 0..(k + 1)
                 PROVE  h[n] = IF n = 0 THEN << >> ELSE WithKey(h[n - 1], list[n])
      OBVIOUS
    <3>1. CASE n <= k
      BY <2>1, <3>1
    <3>2. CASE n = k + 1
      BY <3>2
    <3> QED BY <3>1, <3>2
  <2>3. h = [n \in 0..(k + 1) |-> h[n]]
    OBVIOUS
  <2> HIDE DEF h
  <2>4. h = F(h, k + 1)
    BY <2>2, <2>3
  <2>5. k + 1 \in Nat
    OBVIOUS
  <2> HIDE DEF F
  <2> QED BY <2>4, <2>5
<1> HIDE DEF S
<1>4. L \in S
  BY <1>1, <1>2, <1>3, Induction
<1> HIDE DEF L
<1>5. keys = F(keys, L)
  BY <1>4 DEF S
<1>6. DictKeys(list) = keys[L]
  BY DEF DictKeys, L
<1> HIDE DEF keys
<1>7. keys[0] = << >> /\ \A n \in 1..L : keys[n] = WithKey(keys[n - 1], list[n])
  BY <1>1, <1>5
<1> QED BY <1>6, <1>7 DEF L

LEMMA WithKeyList ==
  ASSUME NEW keys, NEW x, IsList(keys)
  PROVE  IsList(WithKey(keys, x)) /\ WithKey(keys, x) # << >>
<1>1. CASE x \in ToSet(keys)
  <2>1. WithKey(keys, x) = keys /\ keys # << >>
    BY <1>1, Nothing DEF WithKey
  <2> QED BY <2>1
<1>2. CASE x \notin ToSet(keys)
  <2> DEFINE X == ToSet(keys) \cup {x}
  <2>1. keys \in Seq(X) /\ x \in X
    BY DEF IsList
  <2> HIDE DEF X
  <2>2. Append(keys, x) \in Seq(X) /\ Len(Append(keys, x)) = Len(keys) + 1
    BY <2>1
  <2>3. Append(keys, x) # << >>
    <3>1. Len(keys) + 1 # Len(<< >>)
      BY <2>1
    <3> QED BY <2>2, <3>1, Zenon
  <2>4. WithKey(keys, x) = Append(keys, x)
    BY <1>2 DEF WithKey
  <2> QED BY <2>2, <2>3, <2>4, ListOf
<1> QED BY <1>1, <1>2

LEMMA DictKeysList ==
  ASSUME NEW list, IsList(list)
  PROVE  IsList(DictKeys(list)) /\ (list # << >> => DictKeys(list) # << >>)
<1> DEFINE L == Len(list)
<1>1. L \in Nat /\ (list # << >> => L > 0)
  BY ListFacts
<1>2. PICK keys : /\ DictKeys(list) = keys[L]
                  /\ keys[0] = << >>
                  /\ \A n \in 1..L : keys[n] = WithKey(keys[n - 1], list[n])
  BY DictKeysSteps
<1> HIDE DEF L
<1> DEFINE S == {k \in Nat : k <= L => IsList(keys[k]) /\ (k > 0 => keys[k] # << >>)}
<1>3. 0 \in S
  BY <1>2, Nothing
<1>4. ASSUME NEW k \in Nat, k \in S PROVE k + 1 \in S
  <2> SUFFICES ASSUME k + 1 <= L
               PROVE  IsList(keys[k + 1]) /\ keys[k + 1] # << >>
    OBVIOUS
  <2>1. k + 1 \in 1..L /\ (k + 1) - 1 = k /\ k <= L
    BY <1>1
  <2>2. keys[k + 1] = WithKey(keys[k], list[k + 1])
    BY <1>2, <2>1
  <2>3. IsList(keys[k])
    BY <1>4, <2>1
  <2> QED BY <2>2, <2>3, WithKeyList
<1> HIDE DEF S
<1>5. L \in S
  BY <1>1, <1>3, <1>4, Induction
<1> QED BY <1>1, <1>2, <1>5 DEF S

\* Every entry of the list is a key, and nothing else.
LEMMA DictKeysMembers ==
  ASSUME NEW list, IsList(list)
  PROVE  ToSet(DictKeys(list)) = ToSet(list)
<1> DEFINE L == Len(list)
<1>1. L \in Nat
  BY ListFacts
<1>2. PICK keys : /\ DictKeys(list) = keys[L]
                  /\ keys[0] = << >>
                  /\ \A n \in 1..L : keys[n] = WithKey(keys[n - 1], list[n])
  BY DictKeysSteps
<1> HIDE DEF L
<1> DEFINE S == {k \in Nat : k <= L => /\ IsList(keys[k])
                                       /\ ToSet(keys[k]) = {list[i] : i \in 1..k}}
<1>3. 0 \in S
  <2>1. {list[i] : i \in 1..0} = {}
    OBVIOUS
  <2> QED BY <1>2, <2>1, Nothing
<1>4. ASSUME NEW k \in Nat, k \in S PROVE k + 1 \in S
  <2> SUFFICES ASSUME k + 1 <= L
               PROVE  /\ IsList(keys[k + 1])
                      /\ ToSet(keys[k + 1]) = {list[i] : i \in 1..(k + 1)}
    OBVIOUS
  <2>1. k + 1 \in 1..L /\ (k + 1) - 1 = k /\ k <= L
    BY <1>1
  <2> DEFINE keysUpTo == keys[k]
             x == list[k + 1]
  <2>2. keys[k + 1] = WithKey(keysUpTo, x)
    BY <1>2, <2>1
  <2>3. IsList(keysUpTo) /\ ToSet(keysUpTo) = {list[i] : i \in 1..k}
    BY <1>4, <2>1
  <2>4. {list[i] : i \in 1..(k + 1)} = {list[i] : i \in 1..k} \cup {x}
    <3>1. \A i : i \in 1..(k + 1) <=> i \in 1..k \/ i = k + 1
      OBVIOUS
    <3> QED BY <3>1
  <2> HIDE DEF keysUpTo, x
  <2>5. ToSet(WithKey(keysUpTo, x)) = ToSet(keysUpTo) \cup {x}
    BY <2>3, Appended DEF WithKey
  <2>6. IsList(WithKey(keysUpTo, x))
    BY <2>3, WithKeyList
  <2> QED BY <2>2, <2>3, <2>4, <2>5, <2>6
<1> HIDE DEF S
<1>5. L \in S
  BY <1>1, <1>3, <1>4, Induction
<1>6. ToSet(list) = {list[i] : i \in 1..L}
  BY ListFacts DEF L
<1> QED BY <1>1, <1>2, <1>5, <1>6 DEF S

LEMMA ConversationSteps ==
  ASSUME NEW r, NEW sample, Turns[sample.scenario] \in Nat
  PROVE  \E first : /\ Conversation(r, sample) = first[Turns[sample.scenario]]
                    /\ first[0] = << >>
                    /\ \A n \in 1..Turns[sample.scenario] :
                          first[n] = WithTurn(r, sample, n - 1, first[n - 1])
<1> DEFINE L == Turns[sample.scenario]
           F(g, k) == [n \in 0..k |->
                          IF n = 0 THEN << >> ELSE WithTurn(r, sample, n - 1, g[n - 1])]
           S == {k \in Nat : \E g : g = F(g, k)}
           first == CHOOSE g : g = F(g, L)
<1>2. 0 \in S
  <2> DEFINE g == [n \in 0..0 |-> << >>]
  <2>1. g = F(g, 0)
    OBVIOUS
  <2> HIDE DEF g
  <2> QED BY <2>1
<1>3. ASSUME NEW k \in Nat, k \in S PROVE k + 1 \in S
  <2>1. PICK g : g = F(g, k)
    BY <1>3
  <2> DEFINE h == [n \in 0..(k + 1) |->
                      IF n <= k THEN g[n] ELSE WithTurn(r, sample, n - 1, g[n - 1])]
  <2>2. \A n \in 0..(k + 1) :
           h[n] = IF n = 0 THEN << >> ELSE WithTurn(r, sample, n - 1, h[n - 1])
    <3> SUFFICES ASSUME NEW n \in 0..(k + 1)
                 PROVE  h[n] = IF n = 0 THEN << >>
                               ELSE WithTurn(r, sample, n - 1, h[n - 1])
      OBVIOUS
    <3>1. CASE n <= k
      BY <2>1, <3>1
    <3>2. CASE n = k + 1
      BY <3>2
    <3> QED BY <3>1, <3>2
  <2>3. h = [n \in 0..(k + 1) |-> h[n]]
    OBVIOUS
  <2> HIDE DEF h
  <2>4. h = F(h, k + 1)
    BY <2>2, <2>3
  <2>5. k + 1 \in Nat
    OBVIOUS
  <2> HIDE DEF F
  <2> QED BY <2>4, <2>5
<1> HIDE DEF S
<1>4. L \in S
  BY <1>2, <1>3, Induction
<1>5. Conversation(r, sample) = first[L]
  BY DEF Conversation
<1>6. L \in Nat
  OBVIOUS
<1> HIDE DEF L
<1>7. first = F(first, L)
  BY <1>4 DEF S
<1> HIDE DEF first
<1>8. first[0] = << >> /\ \A n \in 1..L : first[n] = WithTurn(r, sample, n - 1, first[n - 1])
  BY <1>6, <1>7
<1> QED BY <1>5, <1>8 DEF L

-----------------------------------------------------------------------------
(* The stages of one sample.                                               *)

\* A turn of a conversation.
IsTurn(s, type, sample, i) == s.type = type /\ s.sample = sample /\ s.index = <<i>>

\* The first n turns: the actor's and the theater's in turn.
IsConversation(r, sample, n, c) ==
    /\ Block(r, {}, c)
    /\ Len(c) = 2 * n
    /\ \A i \in 1..n : /\ IsTurn(c[2 * i - 1], "actor_turn", sample, i - 1)
                       /\ IsTurn(c[2 * i], "theater_turn", sample, i - 1)

LEMMA ActorTurnOK ==
  ASSUME NEW r, NEW sample, NEW i \in Nat, NEW c, IsConversation(r, sample, i, c)
  PROVE  LET turn == ActorTurn(r, sample, i, c)
         IN  /\ StageOK(r, turn)
             /\ IsTurn(turn, "actor_turn", sample, i)
             /\ Parents(turn) \subseteq ToSet(c)
<1> DEFINE turn == ActorTurn(r, sample, i, c)
<1>1. /\ turn.type = "actor_turn" /\ turn.sample = sample /\ turn.index = <<i>>
      /\ turn.parents = IF c = << >> THEN << >> ELSE <<Last(c)>>
  BY DEF ActorTurn, Call, Spec
<1>2. IsList(c) /\ Len(c) = 2 * i
  BY DEF IsConversation, Block
<1>3. c = << >> <=> i = 0
  BY <1>2, ListFacts
<1> HIDE DEF turn
<1>4. CASE i = 0
  <2>1. turn.parents = << >>
    BY <1>1, <1>3, <1>4
  <2>2. turn.index[1] = 0
    BY <1>1, <1>4
  <2>3. DOMAIN turn.parents = {} /\ Parents(turn) = {}
    BY <2>1, Nothing DEF Parents
  <2>4. HasItsParents(r, turn)
    BY <1>1, <2>1, <2>2 DEF HasItsParents
  <2> QED BY <1>1, <2>3, <2>4 DEF StageOK, IsTurn, turn
<1>5. CASE i # 0
  <2>1. turn.parents = <<Last(c)>>
    BY <1>1, <1>3, <1>5
  <2>2. Last(c) = c[2 * i] /\ IsTurn(Last(c), "theater_turn", sample, i - 1)
    BY <1>2, <1>5 DEF IsConversation, Last
  <2>3. ParentTypes(turn) = <<"theater_turn">>
    BY <2>1, <2>2 DEF ParentTypes, IsTurn
  <2>4. turn.index[1] = i /\ turn.parents[1] = Last(c) /\ Last(c).index[1] = i - 1
    BY <1>1, <2>1, <2>2 DEF IsTurn
  <2>5. HasItsParents(r, turn)
    BY <1>1, <1>5, <2>3, <2>4 DEF HasItsParents
  <2>6. \A k \in DOMAIN turn.parents : turn.parents[k].sample = turn.sample
    BY <1>1, <2>1, <2>2 DEF IsTurn
  <2>7. Parents(turn) = {Last(c)}
    BY <2>1, Singleton DEF Parents
  <2>8. Last(c) \in ToSet(c)
    BY <1>2, <1>5, <2>2, ListFacts
  <2> QED BY <1>1, <2>5, <2>6, <2>7, <2>8 DEF StageOK, IsTurn, turn
<1> QED BY <1>4, <1>5

LEMMA TheaterTurnOK ==
  ASSUME NEW r, NEW sample, NEW i, NEW actorTurn,
         IsTurn(actorTurn, "actor_turn", sample, i)
  PROVE  LET turn == TheaterTurn(r, sample, i, actorTurn)
         IN  /\ StageOK(r, turn)
             /\ IsTurn(turn, "theater_turn", sample, i)
             /\ Parents(turn) = {actorTurn}
<1> DEFINE turn == TheaterTurn(r, sample, i, actorTurn)
<1>1. /\ turn.type = "theater_turn" /\ turn.sample = sample /\ turn.index = <<i>>
      /\ turn.parents = <<actorTurn>>
  BY DEF TheaterTurn, Call, Spec
<1> HIDE DEF turn
<1>2. Parents(turn) = {actorTurn}
  BY <1>1, Singleton DEF Parents
<1>3. ParentTypes(turn) = <<"actor_turn">> /\ turn.parents[1] = actorTurn
  BY <1>1 DEF ParentTypes, IsTurn
<1>4. HasItsParents(r, turn)
  BY <1>1, <1>3 DEF HasItsParents, IsTurn
<1>5. \A k \in DOMAIN turn.parents : turn.parents[k].sample = turn.sample
  BY <1>1 DEF IsTurn
<1> QED BY <1>1, <1>2, <1>4, <1>5 DEF StageOK, IsTurn, turn

LEMMA WithTurnOK ==
  ASSUME NEW r, NEW sample, NEW i \in Nat, NEW c, IsConversation(r, sample, i, c)
  PROVE  IsConversation(r, sample, i + 1, WithTurn(r, sample, i, c))
<1> DEFINE a == ActorTurn(r, sample, i, c)
           t == TheaterTurn(r, sample, i, a)
<1>1. /\ StageOK(r, a) /\ IsTurn(a, "actor_turn", sample, i)
      /\ Parents(a) \subseteq ToSet(c)
  BY ActorTurnOK
<1> HIDE DEF a
<1>2. /\ StageOK(r, t) /\ IsTurn(t, "theater_turn", sample, i)
      /\ Parents(t) = {a}
  BY <1>1, TheaterTurnOK
<1>3. WithTurn(r, sample, i, c) = Joined(c, <<a, t>>)
  BY DEF WithTurn, Joined, a
<1> HIDE DEF t
<1>4. Block(r, ToSet(c), <<a, t>>)
  BY <1>1, <1>2, TwoStages
<1>5. Block(r, {}, Joined(c, <<a, t>>))
  <2>1. Block(r, {} \cup ToSet(c), <<a, t>>)
    BY <1>4
  <2> QED BY <2>1, JoinBlocks DEF IsConversation, Joined
<1>6. /\ IsList(c) /\ Len(c) = 2 * i
      /\ IsList(<<a, t>>) /\ Len(<<a, t>>) = 2 /\ <<a, t>>[1] = a /\ <<a, t>>[2] = t
  BY <1>4 DEF IsConversation, Block
<1> DEFINE d == Joined(c, <<a, t>>)
<1>7. /\ Len(d) = Len(c) + 2
      /\ \A j \in 1..Len(c) : d[j] = c[j]
      /\ d[Len(c) + 1] = a /\ d[Len(c) + 2] = t
  <2>1. \A j \in 1..2 : d[Len(c) + j] = <<a, t>>[j]
    BY <1>6, Concatenated DEF Joined
  <2>2. Len(d) = Len(c) + 2 /\ \A j \in 1..Len(c) : d[j] = c[j]
    BY <1>6, Concatenated DEF Joined
  <2> HIDE DEF d
  <2>3. 1 \in 1..2 /\ 2 \in 1..2
    OBVIOUS
  <2> QED BY <1>6, <2>1, <2>2, <2>3, Zenon
<1> HIDE DEF d
<1>8. Len(d) = 2 * (i + 1) /\ d[2 * i + 1] = a /\ d[2 * i + 2] = t
  <2>1. 2 * (i + 1) = 2 * i + 2
    OBVIOUS
  <2> QED BY <1>6, <1>7, <2>1, Zenon
<1>9. ASSUME NEW j \in 1..(i + 1)
       PROVE  /\ IsTurn(d[2 * j - 1], "actor_turn", sample, j - 1)
              /\ IsTurn(d[2 * j], "theater_turn", sample, j - 1)
  <2>1. CASE j \in 1..i
    <3>1. 2 * j - 1 \in 1..Len(c) /\ 2 * j \in 1..Len(c)
      BY <1>6, <2>1
    <3>2. d[2 * j - 1] = c[2 * j - 1] /\ d[2 * j] = c[2 * j]
      BY <1>7, <3>1
    <3> QED BY <2>1, <3>2 DEF IsConversation
  <2>2. CASE j = i + 1
    <3>1. 2 * j - 1 = 2 * i + 1 /\ 2 * j = 2 * i + 2 /\ j - 1 = i
      BY <2>2
    <3> QED BY <1>1, <1>2, <1>8, <3>1
  <2> QED BY <2>1, <2>2
<1> QED BY <1>3, <1>5, <1>8, <1>9 DEF IsConversation, d

LEMMA ConversationOK ==
  ASSUME NEW r, NEW sample, Turns[sample.scenario] \in Nat
  PROVE  IsConversation(r, sample, Turns[sample.scenario], Conversation(r, sample))
<1> DEFINE L == Turns[sample.scenario]
<1>1. PICK first : /\ Conversation(r, sample) = first[L]
                   /\ first[0] = << >>
                   /\ \A n \in 1..L : first[n] = WithTurn(r, sample, n - 1, first[n - 1])
  BY ConversationSteps
<1>2. L \in Nat
  OBVIOUS
<1> HIDE DEF L
<1> DEFINE S == {k \in Nat : k <= L => IsConversation(r, sample, k, first[k])}
<1>3. 0 \in S
  <2>1. IsConversation(r, sample, 0, << >>)
    BY EmptyBlock, Nothing DEF IsConversation
  <2> QED BY <1>1, <2>1
<1>4. ASSUME NEW k \in Nat, k \in S PROVE k + 1 \in S
  <2> SUFFICES ASSUME k + 1 <= L PROVE IsConversation(r, sample, k + 1, first[k + 1])
    OBVIOUS
  <2>1. k + 1 \in 1..L /\ (k + 1) - 1 = k /\ k <= L
    BY <1>2
  <2>2. first[k + 1] = WithTurn(r, sample, k, first[k])
    BY <1>1, <2>1
  <2>3. IsConversation(r, sample, k, first[k])
    BY <1>4, <2>1
  <2> QED BY <2>2, <2>3, WithTurnOK
<1> HIDE DEF S
<1>5. L \in S
  BY <1>2, <1>3, <1>4, Induction
<1>6. IsConversation(r, sample, L, Conversation(r, sample))
  BY <1>1, <1>2, <1>5 DEF S
<1> QED BY <1>6 DEF L

LEMMA EvenOrOdd == \A k \in Nat : \E i \in Nat : k = 2 * i \/ k = 2 * i + 1
<1> DEFINE S == {k \in Nat : \E i \in Nat : k = 2 * i \/ k = 2 * i + 1}
<1>1. 0 \in S
  OBVIOUS
<1>2. ASSUME NEW k \in Nat, k \in S PROVE k + 1 \in S
  <2>1. PICK i \in Nat : k = 2 * i \/ k = 2 * i + 1
    BY <1>2
  <2>2. CASE k = 2 * i
    <3>1. k + 1 \in Nat /\ k + 1 = 2 * i + 1
      BY <2>2
    <3> QED BY <3>1
  <2>3. CASE k = 2 * i + 1
    <3>1. k + 1 \in Nat /\ i + 1 \in Nat /\ k + 1 = 2 * (i + 1)
      BY <2>3
    <3> QED BY <3>1
  <2> QED BY <2>1, <2>2, <2>3
<1> HIDE DEF S
<1>3. \A k \in Nat : k \in S
  BY <1>1, <1>2, Induction
<1> QED BY <1>3 DEF S

LEMMA TranscriptOK ==
  ASSUME NEW r, NEW sample, Turns[sample.scenario] \in Nat
  PROVE  /\ StageOK(r, Transcript(r, sample))
         /\ Transcript(r, sample).type = "conversation_transcript"
         /\ Transcript(r, sample).sample = sample
         /\ Parents(Transcript(r, sample)) = ToSet(Conversation(r, sample))
<1> DEFINE c == Conversation(r, sample)
           n == Turns[sample.scenario]
           s == Transcript(r, sample)
<1>1. IsConversation(r, sample, n, c)
  BY ConversationOK
<1>2. s.type = "conversation_transcript" /\ s.sample = sample /\ s.parents = c
  BY DEF Transcript, Local, Spec
<1> HIDE DEF s, c
<1>3. IsList(c) /\ Len(c) = 2 * n /\ n \in Nat /\ ToSet(c) = {c[i] : i \in 1..Len(c)}
      /\ DOMAIN c = 1..Len(c)
  BY <1>1, ListFacts DEF IsConversation, Block
<1> HIDE DEF n
<1>4. ASSUME NEW k \in 1..Len(c)
      PROVE  \E i \in 1..n : \/ k = 2 * i - 1 /\ IsTurn(c[k], "actor_turn", sample, i - 1)
                             \/ k = 2 * i /\ IsTurn(c[k], "theater_turn", sample, i - 1)
  <2>1. PICK i \in 1..n : k = 2 * i - 1 \/ k = 2 * i
    <3>0. k \in Nat
      BY <1>3
    <3>1. PICK i \in Nat : k = 2 * i \/ k = 2 * i + 1
      BY <3>0, EvenOrOdd, Zenon
    <3>2. CASE k = 2 * i
      <4>1. i \in 1..n
        BY <1>3, <3>2
      <4> QED BY <3>2, <4>1
    <3>3. CASE k = 2 * i + 1
      <4>1. i + 1 \in 1..n /\ k = 2 * (i + 1) - 1
        BY <1>3, <3>3
      <4> QED BY <4>1
    <3> QED BY <3>1, <3>2, <3>3
  <2> QED BY <1>1, <2>1 DEF IsConversation
<1>5. {<<p.type, p.index[1]>> : p \in ToSet(c)}
         = {"actor_turn", "theater_turn"} \X (0..(n - 1))
  <2>1. ASSUME NEW p \in ToSet(c)
        PROVE  <<p.type, p.index[1]>> \in {"actor_turn", "theater_turn"} \X (0..(n - 1))
    <3>1. PICK k \in 1..Len(c) : p = c[k]
      BY <1>3
    <3>2. PICK i \in 1..n : \/ IsTurn(c[k], "actor_turn", sample, i - 1)
                            \/ IsTurn(c[k], "theater_turn", sample, i - 1)
      BY <1>4
    <3>3. p.index[1] = i - 1 /\ p.type \in {"actor_turn", "theater_turn"}
      BY <3>1, <3>2 DEF IsTurn
    <3>4. i - 1 \in 0..(n - 1)
      BY <1>3
    <3> QED BY <3>3, <3>4
  <2>2. ASSUME NEW i \in 0..(n - 1), NEW type \in {"actor_turn", "theater_turn"}
        PROVE  \E p \in ToSet(c) : p.type = type /\ p.index[1] = i
    <3> DEFINE j == i + 1
               k == IF type = "actor_turn" THEN 2 * j - 1 ELSE 2 * j
    <3>1. j \in 1..n /\ j - 1 = i /\ 2 * j - 1 \in 1..Len(c) /\ 2 * j \in 1..Len(c)
      BY <1>3
    <3> HIDE DEF j
    <3>2. /\ IsTurn(c[2 * j - 1], "actor_turn", sample, i)
          /\ IsTurn(c[2 * j], "theater_turn", sample, i)
      BY <1>1, <3>1 DEF IsConversation
    <3>3. IsTurn(c[k], type, sample, i) /\ k \in 1..Len(c)
      BY <3>1, <3>2
    <3> HIDE DEF k
    <3>4. c[k].type = type /\ c[k].index[1] = i /\ c[k] \in ToSet(c)
      BY <1>3, <3>3 DEF IsTurn
    <3> QED BY <3>4
  <2> QED BY <2>1, <2>2
<1>6. HasItsParents(r, s)
  BY <1>2, <1>5 DEF HasItsParents, n
<1>7. \A k \in DOMAIN s.parents : s.parents[k].sample = s.sample
  BY <1>2, <1>3, <1>4 DEF IsTurn
<1> QED BY <1>2, <1>6, <1>7 DEF StageOK, Parents, s, c

\* The graders of a sample all read its transcript, the aggregate reads them
\* all.
LEMMA GraderEvalsOK ==
  ASSUME NEW r, NEW sample, r.assessments \in Nat, Turns[sample.scenario] \in Nat
  PROVE  /\ Block(r, {Transcript(r, sample)}, GraderEvals(r, sample))
         /\ Len(GraderEvals(r, sample)) = r.assessments
         /\ \A i \in 1..r.assessments : /\ GraderEvals(r, sample)[i].type = "grader_eval"
                                        /\ GraderEvals(r, sample)[i].sample = sample
<1> DEFINE n == r.assessments
           evals == GraderEvals(r, sample)
           t == Transcript(r, sample)
<1>1. evals = [i \in 1..n |-> Call(r, "grader", "grader_eval", sample, <<i - 1>>, <<t>>)]
  BY DEF GraderEvals
<1>2. t.type = "conversation_transcript" /\ t.sample = sample
  BY TranscriptOK
<1> HIDE DEF evals, t
<1>3. IsList(evals) /\ Len(evals) = n
  <2>1. evals = [i \in 1..n |-> evals[i]]
    BY <1>1
  <2> QED BY <2>1, Tabulated
<1>4. \A i \in 1..n : /\ evals[i].type = "grader_eval" /\ evals[i].sample = sample
                      /\ evals[i].parents = <<t>>
  BY <1>1 DEF Call, Spec
<1>5. ASSUME NEW i \in 1..n PROVE StageOK(r, evals[i]) /\ Parents(evals[i]) = {t}
  <2>1. ParentTypes(evals[i]) = <<"conversation_transcript">>
    BY <1>2, <1>4 DEF ParentTypes
  <2>2. HasItsParents(r, evals[i])
    BY <1>4, <2>1 DEF HasItsParents
  <2>3. Parents(evals[i]) = {t}
    BY <1>4, Singleton DEF Parents
  <2>4. \A k \in DOMAIN evals[i].parents : evals[i].parents[k].sample = evals[i].sample
    BY <1>2, <1>4
  <2> QED BY <2>2, <2>3, <2>4 DEF StageOK
<1>6. Block(r, {t}, evals)
  BY <1>3, <1>5 DEF Block
<1> QED BY <1>3, <1>4, <1>6 DEF evals, t

LEMMA AggregateOK ==
  ASSUME NEW r, NEW sample, r.assessments \in Nat, Turns[sample.scenario] \in Nat
  PROVE  /\ StageOK(r, Aggregate(r, sample))
         /\ Aggregate(r, sample).type = "assessment_aggregate"
         /\ Aggregate(r, sample).sample = sample
         /\ Parents(Aggregate(r, sample)) = ToSet(GraderEvals(r, sample))
<1> DEFINE a == Aggregate(r, sample)
           evals == GraderEvals(r, sample)
<1>1. a.type = "assessment_aggregate" /\ a.sample = sample /\ a.parents = evals
  BY DEF Aggregate, Local, Spec
<1>2. /\ IsList(evals) /\ Len(evals) = r.assessments
      /\ \A i \in 1..r.assessments : evals[i].type = "grader_eval" /\ evals[i].sample = sample
  BY GraderEvalsOK DEF Block
<1> HIDE DEF a, evals
<1>3. DOMAIN evals = 1..r.assessments
  BY <1>2, ListFacts
<1>4. HasItsParents(r, a)
  BY <1>1, <1>2, <1>3 DEF HasItsParents
<1> QED BY <1>1, <1>2, <1>3, <1>4 DEF StageOK, Parents, a, evals

LEMMA MutationOK ==
  ASSUME NEW r, NEW sample, NEW operator, NEW i, NEW aggregate,
         aggregate.type = "assessment_aggregate", aggregate.sample = sample
  PROVE  Block(r, {aggregate}, Mutation(sample, operator, i, aggregate))
<1> DEFINE p == Local("mutation_proposal", sample, <<operator, i>>, <<aggregate>>)
           a == Local("mutation_application", sample, <<operator, i>>, <<p>>)
<1>1. p.type = "mutation_proposal" /\ p.sample = sample /\ p.parents = <<aggregate>>
  BY DEF Local, Spec
<1>2. Mutation(sample, operator, i, aggregate) = <<p, a>>
  BY DEF Mutation
<1> HIDE DEF p
<1>3. a.type = "mutation_application" /\ a.sample = sample /\ a.parents = <<p>>
  BY DEF Local, Spec
<1> HIDE DEF a
<1>4. StageOK(r, p) /\ Parents(p) = {aggregate}
  <2>1. ParentTypes(p) = <<"assessment_aggregate">>
    BY <1>1 DEF ParentTypes
  <2>2. HasItsParents(r, p)
    BY <1>1, <2>1 DEF HasItsParents
  <2> QED BY <1>1, <2>2, Singleton DEF StageOK, Parents
<1>5. StageOK(r, a) /\ Parents(a) = {p}
  <2>1. ParentTypes(a) = <<"mutation_proposal">>
    BY <1>1, <1>3 DEF ParentTypes
  <2>2. HasItsParents(r, a)
    BY <1>3, <2>1 DEF HasItsParents
  <2> QED BY <1>1, <1>3, <2>2, Singleton DEF StageOK, Parents
<1> QED BY <1>2, <1>4, <1>5, TwoStages

LEMMA MutationsOK ==
  ASSUME NEW r, NEW sample, NEW aggregate, IsList(Operators(r)), r.mutations \in Nat,
         aggregate.type = "assessment_aggregate", aggregate.sample = sample
  PROVE  Block(r, {aggregate}, Mutations(r, sample, aggregate))
<1> DEFINE ops == Operators(r)
           pass(operator) == [i \in 1..r.mutations |->
                                 Mutation(sample, operator, i - 1, aggregate)]
           byOperator == [j \in 1..Len(ops) |->
                             IF Enabled[ops[j]] THEN FlattenSeq(pass(ops[j])) ELSE << >>]
<1>1. \A operator : Block(r, {aggregate}, FlattenSeq(pass(operator)))
  <2> SUFFICES ASSUME NEW operator
               PROVE  Block(r, {aggregate}, FlattenSeq(pass(operator)))
    OBVIOUS
  <2> DEFINE seqs == pass(operator)
  <2>1. seqs = [i \in 1..r.mutations |-> seqs[i]]
    OBVIOUS
  <2>2. \A i \in 1..r.mutations : Block(r, {aggregate}, seqs[i])
    BY MutationOK
  <2> HIDE DEF seqs
  <2>3. IsList(seqs) /\ Len(seqs) = r.mutations
    BY <2>1, Tabulated
  <2>4. Block(r, {aggregate}, FlattenSeq(seqs))
    BY <2>2, <2>3, FlattenBlocks
  <2> QED BY <2>4 DEF seqs
<1>2. Mutations(r, sample, aggregate) = FlattenSeq(byOperator)
  BY DEF Mutations, ForEach, ForRange
<1> HIDE DEF pass, ops
<1>3. \A j \in 1..Len(ops) : Block(r, {aggregate}, byOperator[j])
  BY <1>1, EmptyBlock
<1>4. byOperator = [j \in 1..Len(ops) |-> byOperator[j]]
  OBVIOUS
<1> HIDE DEF byOperator
<1>5. Len(ops) \in Nat
  BY ListFacts DEF ops
<1>6. IsList(byOperator) /\ Len(byOperator) = Len(ops)
  BY <1>4, <1>5, Tabulated
<1> QED BY <1>2, <1>3, <1>6, FlattenBlocks

LEMMA JoinedBlocks ==
  ASSUME NEW r, NEW B, NEW s, NEW t, Block(r, {}, s), Block(r, B, t), B \subseteq ToSet(s)
  PROVE  /\ Block(r, {}, Joined(s, t))
         /\ ToSet(s) \subseteq ToSet(Joined(s, t))
         /\ ToSet(t) \subseteq ToSet(Joined(s, t))
<1>1. Block(r, {} \cup ToSet(s), t)
  BY BlockLater
<1>2. Block(r, {}, Joined(s, t))
  BY <1>1, JoinBlocks DEF Joined
<1>3. IsList(s) /\ IsList(t)
  BY DEF Block
<1>4. ToSet(Joined(s, t)) = ToSet(s) \cup ToSet(t)
  BY <1>3, Concatenated, Zenon DEF Joined
<1> QED BY <1>2, <1>4

LEMMA SamplePlanOK ==
  ASSUME NEW r, NEW sample, IsList(Operators(r)), r.assessments \in Nat,
         r.mutations \in Nat, Turns[sample.scenario] \in Nat
  PROVE  Block(r, {}, SamplePlan(r, sample)) /\ SamplePlan(r, sample) # << >>
<1> DEFINE c == Conversation(r, sample)
           t == Transcript(r, sample)
           e == GraderEvals(r, sample)
           a == Aggregate(r, sample)
           m == Mutations(r, sample, a)
           lt == <<t>>
           la == <<a>>
           ct == Joined(c, lt)
           cte == Joined(ct, e)
           ctea == Joined(cte, la)
<1>1. SamplePlan(r, sample) = Joined(ctea, m)
  BY DEF SamplePlan, Joined
<1>2. Block(r, {}, c)
  BY ConversationOK DEF IsConversation
<1>3. Block(r, ToSet(c), lt) /\ t \in ToSet(lt)
  BY TranscriptOK, OneStage, Singleton
<1>4. Block(r, {t}, e)
  BY GraderEvalsOK
<1>5. Block(r, ToSet(e), la) /\ a \in ToSet(la)
  BY AggregateOK, OneStage, Singleton
<1>6. Block(r, {a}, m)
  BY AggregateOK, MutationsOK
<1> HIDE DEF c, t, e, a, m, lt, la
<1>7. Block(r, {}, ct) /\ t \in ToSet(ct)
  BY <1>2, <1>3, JoinedBlocks
<1> HIDE DEF ct
<1>8. Block(r, {}, cte) /\ ToSet(e) \subseteq ToSet(cte)
  BY <1>4, <1>7, JoinedBlocks
<1> HIDE DEF cte
<1>9. Block(r, {}, ctea) /\ a \in ToSet(ctea)
  BY <1>5, <1>8, JoinedBlocks
<1> HIDE DEF ctea
<1>10. Block(r, {}, Joined(ctea, m)) /\ a \in ToSet(Joined(ctea, m))
  BY <1>6, <1>9, JoinedBlocks
<1> QED BY <1>1, <1>10, Nothing

\* A loop of at least one pass, each of which plans something.
LEMMA LoopOK ==
  ASSUME NEW r, NEW n \in Nat, n >= 1, NEW f, f = [i \in 1..n |-> f[i]],
         \A i \in 1..n : Block(r, {}, f[i]) /\ f[i] # << >>
  PROVE  Block(r, {}, FlattenSeq(f)) /\ FlattenSeq(f) # << >>
<1>1. IsList(f) /\ Len(f) = n
  BY Tabulated
<1>2. f # << >> /\ f[1] # << >>
  BY <1>1, ListFacts
<1>3. \A i \in 1..n : IsList(f[i])
  BY DEF Block
<1> QED BY <1>1, <1>2, <1>3, FlattenBlocks, FlattenNonempty

\* The configuration of a run that the planner accepts.
LEMMA ValidFacts ==
  ASSUME NEW r \in Runs, Valid(r)
  PROVE  /\ r.assessments \in Nat /\ r.mutations \in Nat
         /\ r.rollouts \in Nat /\ r.rollouts >= 1
         /\ IsList(Operators(r)) /\ IsList(r.scenarios) /\ r.scenarios # << >>
         /\ IsList(DictKeys(r.actors)) /\ DictKeys(r.actors) # << >>
         /\ IsList(DictKeys(r.graders)) /\ DictKeys(r.graders) # << >>
         /\ \A i \in 1..Len(r.scenarios) : Turns[r.scenarios[i]] \in Nat
<1>1. /\ IsList(r.scenarios) /\ IsList(r.actors) /\ IsList(r.graders)
      /\ IsList(r.operators)
      /\ r.rollouts \in Int /\ r.assessments \in Int /\ r.mutations \in Int
  BY RunPlanAssumption DEF IsList
<1>2. IsList(Operators(r))
  BY <1>1, Singleton DEF Operators
<1>3. \A i \in 1..Len(r.scenarios) : Turns[r.scenarios[i]] \in Nat
  <2>1. ToSet(r.scenarios) \subseteq DOMAIN Turns
    BY DEF Valid
  <2> QED BY <1>1, <2>1, ListFacts, RunPlanAssumption
<1> QED BY <1>1, <1>2, <1>3, DictKeysList DEF Valid

LEMMA RunStagesOK ==
  ASSUME NEW r \in Runs, Valid(r)
  PROVE  Block(r, {}, RunStages(r)) /\ RunStages(r) # << >>
<1> DEFINE S == r.scenarios
           A == DictKeys(r.actors)
           G == DictKeys(r.graders)
           ofGrader(s, a, g) == [i \in 1..r.rollouts |-> SamplePlan(r, Sample(s, a, g, i - 1))]
           ofActor(s, a) == [j \in 1..Len(G) |-> FlattenSeq(ofGrader(s, a, G[j]))]
           ofScenario(s) == [j \in 1..Len(A) |-> FlattenSeq(ofActor(s, A[j]))]
           ofRun == [j \in 1..Len(S) |-> FlattenSeq(ofScenario(S[j]))]
           Good(list) == Block(r, {}, list) /\ list # << >>
<1>1. RunStages(r) = FlattenSeq(ofRun)
  BY DEF RunStages, ForEach, ForRange
<1>2. /\ Len(S) \in Nat /\ Len(S) >= 1
      /\ Len(A) \in Nat /\ Len(A) >= 1
      /\ Len(G) \in Nat /\ Len(G) >= 1
  BY ValidFacts, ListFacts
<1> HIDE DEF A, G
<1>3. \A s, a, g : Turns[s] \in Nat => Good(FlattenSeq(ofGrader(s, a, g)))
  <2> SUFFICES ASSUME NEW s, NEW a, NEW g, Turns[s] \in Nat
               PROVE  Good(FlattenSeq(ofGrader(s, a, g)))
    OBVIOUS
  <2> DEFINE f == ofGrader(s, a, g)
  <2>1. ASSUME NEW i \in 1..r.rollouts PROVE Good(f[i])
    <3>1. Sample(s, a, g, i - 1).scenario = s
      BY DEF Sample
    <3> QED BY <3>1, ValidFacts, SamplePlanOK
  <2>2. f = [i \in 1..r.rollouts |-> f[i]]
    OBVIOUS
  <2> HIDE DEF f
  <2>3. Good(FlattenSeq(f))
    BY <2>1, <2>2, ValidFacts, LoopOK
  <2> QED BY <2>3 DEF f
<1> HIDE DEF ofGrader
<1>4. \A s, a : Turns[s] \in Nat => Good(FlattenSeq(ofActor(s, a)))
  <2> SUFFICES ASSUME NEW s, NEW a, Turns[s] \in Nat
               PROVE  Good(FlattenSeq(ofActor(s, a)))
    OBVIOUS
  <2> DEFINE f == ofActor(s, a)
  <2>1. \A i \in 1..Len(G) : Good(f[i])
    BY <1>3
  <2>2. f = [i \in 1..Len(G) |-> f[i]]
    OBVIOUS
  <2> HIDE DEF f
  <2>3. Good(FlattenSeq(f))
    BY <1>2, <2>1, <2>2, LoopOK
  <2> QED BY <2>3 DEF f
<1> HIDE DEF ofActor
<1>5. \A s : Turns[s] \in Nat => Good(FlattenSeq(ofScenario(s)))
  <2> SUFFICES ASSUME NEW s, Turns[s] \in Nat
               PROVE  Good(FlattenSeq(ofScenario(s)))
    OBVIOUS
  <2> DEFINE f == ofScenario(s)
  <2>1. \A i \in 1..Len(A) : Good(f[i])
    BY <1>4
  <2>2. f = [i \in 1..Len(A) |-> f[i]]
    OBVIOUS
  <2> HIDE DEF f
  <2>3. Good(FlattenSeq(f))
    BY <1>2, <2>1, <2>2, LoopOK
  <2> QED BY <2>3 DEF f
<1> HIDE DEF ofScenario
<1>6. \A i \in 1..Len(S) : Good(ofRun[i])
  BY <1>5, ValidFacts
<1>7. ofRun = [i \in 1..Len(S) |-> ofRun[i]]
  OBVIOUS
<1> HIDE DEF ofRun
<1>8. Good(FlattenSeq(ofRun))
  BY <1>2, <1>6, <1>7, LoopOK
<1> QED BY <1>1, <1>8

-----------------------------------------------------------------------------
(* What a plan consists of.                                                *)

Samples(r) == [scenario : ToSet(r.scenarios), actor : ToSet(DictKeys(r.actors)),
               grader : ToSet(DictKeys(r.graders)), rollout : 0..(r.rollouts - 1)]

\* A run is planned sample by sample.
LEMMA RunMembers ==
  ASSUME NEW r \in Runs, Valid(r)
  PROVE  \A x : x \in ToSet(RunStages(r)) <=>
                   \E m \in Samples(r) : x \in ToSet(SamplePlan(r, m))
<1> DEFINE S == r.scenarios
           A == DictKeys(r.actors)
           G == DictKeys(r.graders)
           N == r.rollouts
           of(s, a, g, i) == ToSet(SamplePlan(r, Sample(s, a, g, i)))
           ofGrader(s, a, g) == [i \in 1..N |-> SamplePlan(r, Sample(s, a, g, i - 1))]
           ofActor(s, a) == [j \in 1..Len(G) |-> FlattenSeq(ofGrader(s, a, G[j]))]
           ofScenario(s) == [j \in 1..Len(A) |-> FlattenSeq(ofActor(s, A[j]))]
           ofRun == [j \in 1..Len(S) |-> FlattenSeq(ofScenario(S[j]))]
<1>1. RunStages(r) = FlattenSeq(ofRun)
  BY DEF RunStages, ForEach, ForRange
<1>2. /\ N \in Nat /\ IsList(S) /\ IsList(A) /\ IsList(G)
      /\ Len(S) \in Nat /\ Len(A) \in Nat /\ Len(G) \in Nat
  BY ValidFacts, ListFacts
<1>3. \A i \in 1..Len(S) : Turns[S[i]] \in Nat
  BY ValidFacts
<1>4. /\ ToSet(S) = {S[i] : i \in 1..Len(S)}
      /\ ToSet(A) = {A[i] : i \in 1..Len(A)}
      /\ ToSet(G) = {G[i] : i \in 1..Len(G)}
  BY <1>2, ListFacts
<1>5. \A m : m \in Samples(r) <=> \E s \in ToSet(S), a \in ToSet(A), g \in ToSet(G),
                                     i \in 0..(N - 1) : m = Sample(s, a, g, i)
  BY DEF Samples, Sample
<1>6. \A s, a, g, i : Turns[s] \in Nat => IsList(SamplePlan(r, Sample(s, a, g, i)))
  <2> SUFFICES ASSUME NEW s, NEW a, NEW g, NEW i, Turns[s] \in Nat
               PROVE  IsList(SamplePlan(r, Sample(s, a, g, i)))
    OBVIOUS
  <2>1. Sample(s, a, g, i).scenario = s
    BY DEF Sample
  <2> QED BY <2>1, ValidFacts, SamplePlanOK DEF Block
<1> HIDE DEF A, G, S, N, of
<1>7. \A s, a, g : Turns[s] \in Nat =>
         /\ IsList(FlattenSeq(ofGrader(s, a, g)))
         /\ \A x : x \in ToSet(FlattenSeq(ofGrader(s, a, g))) <=>
                      \E i \in 0..(N - 1) : x \in of(s, a, g, i)
  <2> SUFFICES ASSUME NEW s, NEW a, NEW g, Turns[s] \in Nat
               PROVE  /\ IsList(FlattenSeq(ofGrader(s, a, g)))
                      /\ \A x : x \in ToSet(FlattenSeq(ofGrader(s, a, g))) <=>
                                   \E i \in 0..(N - 1) : x \in of(s, a, g, i)
    OBVIOUS
  <2> DEFINE f == ofGrader(s, a, g)
  <2>1. f = [i \in 1..N |-> f[i]]
    OBVIOUS
  <2>2. \A i \in 1..N : IsList(f[i]) /\ ToSet(f[i]) = of(s, a, g, i - 1)
    BY <1>6 DEF of
  <2> HIDE DEF f
  <2>3. /\ IsList(FlattenSeq(f))
        /\ \A x : x \in ToSet(FlattenSeq(f)) <=> \E i \in 1..N : x \in ToSet(f[i])
    BY <1>2, <2>1, <2>2, LoopMembers
  <2>4. \A x : (\E i \in 1..N : x \in ToSet(f[i])) <=> \E i \in 0..(N - 1) : x \in of(s, a, g, i)
    <3>1. \A i \in 0..(N - 1) : i + 1 \in 1..N /\ (i + 1) - 1 = i
      BY <1>2
    <3>2. \A i \in 1..N : i - 1 \in 0..(N - 1)
      BY <1>2
    <3> QED BY <2>2, <3>1, <3>2
  <2>5. IsList(FlattenSeq(f)) /\ \A x : x \in ToSet(FlattenSeq(f)) <=>
                                   \E i \in 0..(N - 1) : x \in of(s, a, g, i)
    BY <2>3, <2>4
  <2> QED BY <2>5 DEF f
<1> HIDE DEF ofGrader
<1>8. \A s, a : Turns[s] \in Nat =>
         /\ IsList(FlattenSeq(ofActor(s, a)))
         /\ \A x : x \in ToSet(FlattenSeq(ofActor(s, a))) <=>
                      \E g \in ToSet(G), i \in 0..(N - 1) : x \in of(s, a, g, i)
  <2> SUFFICES ASSUME NEW s, NEW a, Turns[s] \in Nat
               PROVE  /\ IsList(FlattenSeq(ofActor(s, a)))
                      /\ \A x : x \in ToSet(FlattenSeq(ofActor(s, a))) <=>
                                   \E g \in ToSet(G), i \in 0..(N - 1) : x \in of(s, a, g, i)
    OBVIOUS
  <2> DEFINE f == ofActor(s, a)
  <2>1. f = [j \in 1..Len(G) |-> f[j]]
    OBVIOUS
  <2>2. \A j \in 1..Len(G) : f[j] = FlattenSeq(ofGrader(s, a, G[j]))
    OBVIOUS
  <2> HIDE DEF f
  <2>3. \A j \in 1..Len(G) : IsList(f[j])
    BY <1>7, <2>2
  <2>4. /\ IsList(FlattenSeq(f))
        /\ \A x : x \in ToSet(FlattenSeq(f)) <=> \E j \in 1..Len(G) : x \in ToSet(f[j])
    BY <1>2, <2>1, <2>3, LoopMembers
  <2>5. \A x : x \in ToSet(FlattenSeq(f)) <=>
           \E g \in ToSet(G), i \in 0..(N - 1) : x \in of(s, a, g, i)
    BY <1>4, <1>7, <2>2, <2>4
  <2> QED BY <2>4, <2>5 DEF f
<1> HIDE DEF ofActor
<1>9. \A s : Turns[s] \in Nat =>
         /\ IsList(FlattenSeq(ofScenario(s)))
         /\ \A x : x \in ToSet(FlattenSeq(ofScenario(s))) <=>
                      \E a \in ToSet(A), g \in ToSet(G), i \in 0..(N - 1) : x \in of(s, a, g, i)
  <2> SUFFICES ASSUME NEW s, Turns[s] \in Nat
               PROVE  /\ IsList(FlattenSeq(ofScenario(s)))
                      /\ \A x : x \in ToSet(FlattenSeq(ofScenario(s))) <=>
                                   \E a \in ToSet(A), g \in ToSet(G), i \in 0..(N - 1) :
                                      x \in of(s, a, g, i)
    OBVIOUS
  <2> DEFINE f == ofScenario(s)
  <2>1. f = [j \in 1..Len(A) |-> f[j]]
    OBVIOUS
  <2>2. \A j \in 1..Len(A) : f[j] = FlattenSeq(ofActor(s, A[j]))
    OBVIOUS
  <2> HIDE DEF f
  <2>3. \A j \in 1..Len(A) : IsList(f[j])
    BY <1>8, <2>2
  <2>4. /\ IsList(FlattenSeq(f))
        /\ \A x : x \in ToSet(FlattenSeq(f)) <=> \E j \in 1..Len(A) : x \in ToSet(f[j])
    BY <1>2, <2>1, <2>3, LoopMembers
  <2>5. \A x : x \in ToSet(FlattenSeq(f)) <=>
           \E a \in ToSet(A), g \in ToSet(G), i \in 0..(N - 1) : x \in of(s, a, g, i)
    BY <1>4, <1>8, <2>2, <2>4
  <2> QED BY <2>4, <2>5 DEF f
<1> HIDE DEF ofScenario
<1>10. \A x : x \in ToSet(FlattenSeq(ofRun)) <=>
          \E s \in ToSet(S), a \in ToSet(A), g \in ToSet(G), i \in 0..(N - 1) :
             x \in of(s, a, g, i)
  <2> DEFINE f == ofRun
  <2>1. f = [j \in 1..Len(S) |-> f[j]]
    OBVIOUS
  <2>2. \A j \in 1..Len(S) : f[j] = FlattenSeq(ofScenario(S[j]))
    OBVIOUS
  <2> HIDE DEF f
  <2>3. \A j \in 1..Len(S) : IsList(f[j])
    BY <1>3, <1>9, <2>2
  <2>4. \A x : x \in ToSet(FlattenSeq(f)) <=> \E j \in 1..Len(S) : x \in ToSet(f[j])
    BY <1>2, <2>1, <2>3, LoopMembers
  <2>5. \A x : x \in ToSet(FlattenSeq(f)) <=>
           \E s \in ToSet(S), a \in ToSet(A), g \in ToSet(G), i \in 0..(N - 1) :
              x \in of(s, a, g, i)
    BY <1>3, <1>4, <1>9, <2>2, <2>4
  <2> QED BY <2>5 DEF f
<1> HIDE DEF ofRun
<1> QED BY <1>1, <1>5, <1>10 DEF of

ActiveOperators(r) == {operator \in ToSet(Operators(r)) : Enabled[operator]}

Proposal(sample, operator, i, aggregate) ==
    Local("mutation_proposal", sample, <<operator, i>>, <<aggregate>>)

Applied(sample, operator, i, aggregate) ==
    Local("mutation_application", sample, <<operator, i>>,
          <<Proposal(sample, operator, i, aggregate)>>)

\* A proposal and its application for each active operator and mutation.
LEMMA MutationsMembers ==
  ASSUME NEW r, NEW sample, NEW aggregate, IsList(Operators(r)), r.mutations \in Nat
  PROVE  \A x : x \in ToSet(Mutations(r, sample, aggregate)) <=>
                   \E operator \in ActiveOperators(r), i \in 0..(r.mutations - 1) :
                      \/ x = Proposal(sample, operator, i, aggregate)
                      \/ x = Applied(sample, operator, i, aggregate)
<1> DEFINE ops == Operators(r)
           pass(operator) == [i \in 1..r.mutations |->
                                 Mutation(sample, operator, i - 1, aggregate)]
           byOperator == [j \in 1..Len(ops) |->
                             IF Enabled[ops[j]] THEN FlattenSeq(pass(ops[j])) ELSE << >>]
           Of(x, operator, i) == \/ x = Proposal(sample, operator, i, aggregate)
                                 \/ x = Applied(sample, operator, i, aggregate)
<1>1. ASSUME NEW operator, NEW i
      PROVE  /\ IsList(Mutation(sample, operator, i, aggregate))
             /\ \A x : x \in ToSet(Mutation(sample, operator, i, aggregate))
                          <=> Of(x, operator, i)
  <2> DEFINE p == Proposal(sample, operator, i, aggregate)
             a == Applied(sample, operator, i, aggregate)
  <2>1. Mutation(sample, operator, i, aggregate) = <<p, a>>
    BY DEF Mutation, Proposal, Applied
  <2> HIDE DEF p, a
  <2>2. /\ <<p, a>> \in Seq({p, a}) /\ DOMAIN <<p, a>> = 1..2
        /\ <<p, a>>[1] = p /\ <<p, a>>[2] = a
    OBVIOUS
  <2>3. IsList(<<p, a>>)
    BY <2>2, ListOf
  <2>4. ToSet(<<p, a>>) = {p, a}
    <3>1. \A i2 \in 1..2 : i2 = 1 \/ i2 = 2
      OBVIOUS
    <3> QED BY <2>2, <3>1 DEF ToSet
  <2> QED BY <2>1, <2>3, <2>4 DEF p, a
<1> HIDE DEF Of
<1>2. ASSUME NEW operator
      PROVE  /\ IsList(FlattenSeq(pass(operator)))
             /\ \A x : x \in ToSet(FlattenSeq(pass(operator))) <=>
                          \E i \in 0..(r.mutations - 1) : Of(x, operator, i)
  <2> DEFINE f == pass(operator)
  <2>1. f = [i \in 1..r.mutations |-> f[i]]
    OBVIOUS
  <2>2. \A i \in 1..r.mutations : /\ IsList(f[i])
                                  /\ \A x : x \in ToSet(f[i]) <=> Of(x, operator, i - 1)
    BY <1>1
  <2> HIDE DEF f
  <2>3. /\ IsList(FlattenSeq(f))
        /\ \A x : x \in ToSet(FlattenSeq(f)) <=> \E i \in 1..r.mutations : x \in ToSet(f[i])
    BY <2>1, <2>2, LoopMembers
  <2>4. /\ \A i \in 0..(r.mutations - 1) : i + 1 \in 1..r.mutations /\ (i + 1) - 1 = i
        /\ \A i \in 1..r.mutations : i - 1 \in 0..(r.mutations - 1)
    OBVIOUS
  <2>5. \A x : x \in ToSet(FlattenSeq(f)) <=>
                  \E i \in 0..(r.mutations - 1) : Of(x, operator, i)
    BY <2>2, <2>3, <2>4
  <2> QED BY <2>3, <2>5 DEF f
<1>3. Mutations(r, sample, aggregate) = FlattenSeq(byOperator)
  BY DEF Mutations, ForEach, ForRange
<1>4. Len(ops) \in Nat /\ ToSet(ops) = {ops[j] : j \in 1..Len(ops)}
  BY ListFacts
<1>5. \A operator : operator \in ActiveOperators(r) <=>
                       \E j \in 1..Len(ops) : operator = ops[j] /\ Enabled[ops[j]]
  BY <1>4 DEF ActiveOperators
<1> HIDE DEF pass, ops
<1>6. \A j \in 1..Len(ops) :
         /\ IsList(byOperator[j])
         /\ \A x : x \in ToSet(byOperator[j]) <=>
               Enabled[ops[j]] /\ \E i \in 0..(r.mutations - 1) : Of(x, ops[j], i)
  BY <1>2, Nothing
<1>7. byOperator = [j \in 1..Len(ops) |-> byOperator[j]]
  OBVIOUS
<1> HIDE DEF byOperator
<1>8. \A x : x \in ToSet(FlattenSeq(byOperator)) <=>
                \E j \in 1..Len(ops) : x \in ToSet(byOperator[j])
  BY <1>4, <1>6, <1>7, LoopMembers
<1>9. \A x : x \in ToSet(FlattenSeq(byOperator)) <=>
                \E operator \in ActiveOperators(r), i \in 0..(r.mutations - 1) :
                   Of(x, operator, i)
  <2> SUFFICES ASSUME NEW x
               PROVE  x \in ToSet(FlattenSeq(byOperator)) <=>
                         \E operator \in ActiveOperators(r), i \in 0..(r.mutations - 1) :
                            Of(x, operator, i)
    OBVIOUS
  <2> DEFINE some(operator) == \E i \in 0..(r.mutations - 1) : Of(x, operator, i)
  <2>1. \A j \in 1..Len(ops) : x \in ToSet(byOperator[j]) <=> Enabled[ops[j]] /\ some(ops[j])
    BY <1>6
  <2> HIDE DEF some
  <2>2. x \in ToSet(FlattenSeq(byOperator)) <=> \E operator \in ActiveOperators(r) : some(operator)
    BY <1>5, <1>8, <2>1
  <2> QED BY <2>2 DEF some
<1> QED BY <1>3, <1>9 DEF Of

\* What one sample is planned as.
LEMMA SamplePlanMembers ==
  ASSUME NEW r, NEW sample, IsList(Operators(r)), r.assessments \in Nat,
         r.mutations \in Nat, Turns[sample.scenario] \in Nat
  PROVE  ToSet(SamplePlan(r, sample)) =
            (((ToSet(Conversation(r, sample)) \cup {Transcript(r, sample)})
               \cup ToSet(GraderEvals(r, sample))) \cup {Aggregate(r, sample)})
               \cup ToSet(Mutations(r, sample, Aggregate(r, sample)))
<1> DEFINE c == Conversation(r, sample)
           t == Transcript(r, sample)
           e == GraderEvals(r, sample)
           a == Aggregate(r, sample)
           m == Mutations(r, sample, a)
           lt == <<t>>
           la == <<a>>
           ct == Joined(c, lt)
           cte == Joined(ct, e)
           ctea == Joined(cte, la)
<1>1. SamplePlan(r, sample) = Joined(ctea, m)
  BY DEF SamplePlan, Joined
<1>2. IsList(c) /\ IsList(e) /\ IsList(m)
  BY ConversationOK, GraderEvalsOK, AggregateOK, MutationsOK DEF IsConversation, Block
<1>3. IsList(lt) /\ IsList(la) /\ ToSet(lt) = {t} /\ ToSet(la) = {a}
  BY Singleton
<1> HIDE DEF c, t, e, a, m, lt, la
<1>4. IsList(ct) /\ ToSet(ct) = ToSet(c) \cup ToSet(lt)
  BY <1>2, <1>3, Concatenated, Zenon DEF Joined
<1> HIDE DEF ct
<1>5. IsList(cte) /\ ToSet(cte) = ToSet(ct) \cup ToSet(e)
  BY <1>2, <1>4, Concatenated, Zenon DEF Joined
<1> HIDE DEF cte
<1>6. IsList(ctea) /\ ToSet(ctea) = ToSet(cte) \cup ToSet(la)
  BY <1>3, <1>5, Concatenated, Zenon DEF Joined
<1> HIDE DEF ctea
<1>7. ToSet(Joined(ctea, m)) = ToSet(ctea) \cup ToSet(m)
  BY <1>2, <1>6, Concatenated, Zenon DEF Joined
<1> QED BY <1>1, <1>3, <1>4, <1>5, <1>6, <1>7 DEF c, t, e, a, m

\* The kinds of stages of a sample are apart, and all name the sample.
LEMMA SamplePlanKinds ==
  ASSUME NEW r, NEW sample, IsList(Operators(r)), r.assessments \in Nat,
         r.mutations \in Nat, Turns[sample.scenario] \in Nat
  PROVE  /\ \A x \in ToSet(Conversation(r, sample)) :
               x.sample = sample /\ x.type \in {"actor_turn", "theater_turn"}
         /\ \A x \in ToSet(GraderEvals(r, sample)) :
               x.sample = sample /\ x.type = "grader_eval"
         /\ \A x \in ToSet(Mutations(r, sample, Aggregate(r, sample))) :
               x.sample = sample /\ x.type \in {"mutation_proposal", "mutation_application"}
         /\ \A x \in ToSet(SamplePlan(r, sample)) : x.sample = sample
<1>1. \A x \in ToSet(Conversation(r, sample)) :
         x.sample = sample /\ x.type \in {"actor_turn", "theater_turn"}
  <2> DEFINE c == Conversation(r, sample)
             n == Turns[sample.scenario]
  <2>1. IsConversation(r, sample, n, c)
    BY ConversationOK
  <2> HIDE DEF c
  <2>2. IsList(c) /\ Len(c) = 2 * n /\ ToSet(c) = {c[j] : j \in 1..Len(c)}
    BY <2>1, ListFacts DEF IsConversation, Block
  <2>3. ASSUME NEW j \in 1..(2 * n)
        PROVE  c[j].sample = sample /\ c[j].type \in {"actor_turn", "theater_turn"}
    <3>1. PICK i \in 1..n : j = 2 * i - 1 \/ j = 2 * i
      <4>0. j \in Nat
        OBVIOUS
      <4>1. PICK i \in Nat : j = 2 * i \/ j = 2 * i + 1
        BY <4>0, EvenOrOdd, Zenon
      <4>2. CASE j = 2 * i
        <5>1. i \in 1..n
          BY <4>2
        <5> QED BY <4>2, <5>1
      <4>3. CASE j = 2 * i + 1
        <5>1. i + 1 \in 1..n /\ j = 2 * (i + 1) - 1
          BY <4>3
        <5> QED BY <5>1
      <4> QED BY <4>1, <4>2, <4>3
    <3> QED BY <2>1, <3>1 DEF IsConversation, IsTurn
  <2> QED BY <2>2, <2>3 DEF c
<1>2. \A x \in ToSet(GraderEvals(r, sample)) : x.sample = sample /\ x.type = "grader_eval"
  <2> DEFINE e == GraderEvals(r, sample)
  <2>1. /\ IsList(e) /\ Len(e) = r.assessments
        /\ \A i \in 1..r.assessments : e[i].type = "grader_eval" /\ e[i].sample = sample
    BY GraderEvalsOK DEF Block
  <2> HIDE DEF e
  <2> QED BY <2>1, ListFacts DEF e
<1>3. \A x \in ToSet(Mutations(r, sample, Aggregate(r, sample))) :
         x.sample = sample /\ x.type \in {"mutation_proposal", "mutation_application"}
  <2>1. \A operator, i : LET p == Proposal(sample, operator, i, Aggregate(r, sample))
                             a == Applied(sample, operator, i, Aggregate(r, sample))
                         IN  /\ p.sample = sample /\ p.type = "mutation_proposal"
                             /\ a.sample = sample /\ a.type = "mutation_application"
    BY DEF Proposal, Applied, Local, Spec
  <2> QED BY <2>1, MutationsMembers
<1>4. Transcript(r, sample).sample = sample /\ Aggregate(r, sample).sample = sample
  BY TranscriptOK, AggregateOK
<1>5. \A x \in ToSet(SamplePlan(r, sample)) : x.sample = sample
  BY <1>1, <1>2, <1>3, <1>4, SamplePlanMembers
<1> QED BY <1>1, <1>2, <1>3, <1>5

\* No two turns of a conversation are the same stage.
LEMMA ConversationCount ==
  ASSUME NEW r, NEW sample, Turns[sample.scenario] \in Nat
  PROVE  /\ IsFiniteSet(ToSet(Conversation(r, sample)))
         /\ Cardinality(ToSet(Conversation(r, sample))) = 2 * Turns[sample.scenario]
<1> DEFINE c == Conversation(r, sample)
           n == Turns[sample.scenario]
<1>1. IsConversation(r, sample, n, c)
  BY ConversationOK
<1> HIDE DEF c
<1>2. IsList(c) /\ Len(c) = 2 * n
  BY <1>1 DEF IsConversation, Block
<1>3. ASSUME NEW j \in 1..(2 * n)
      PROVE  \E i \in 1..n : \/ j = 2 * i - 1 /\ IsTurn(c[j], "actor_turn", sample, i - 1)
                             \/ j = 2 * i /\ IsTurn(c[j], "theater_turn", sample, i - 1)
  <2>0. j \in Nat
    OBVIOUS
  <2>1. PICK i \in Nat : j = 2 * i \/ j = 2 * i + 1
    BY <2>0, EvenOrOdd, Zenon
  <2>2. CASE j = 2 * i
    <3>1. i \in 1..n
      BY <2>2
    <3> QED BY <1>1, <2>2, <3>1 DEF IsConversation
  <2>3. CASE j = 2 * i + 1
    <3>1. i + 1 \in 1..n /\ j = 2 * (i + 1) - 1
      BY <2>3
    <3> QED BY <1>1, <3>1 DEF IsConversation
  <2> QED BY <2>1, <2>2, <2>3
<1>4. ASSUME NEW j \in 1..(2 * n), NEW k \in 1..(2 * n), c[j] = c[k] PROVE j = k
  <2>1. PICK i \in 1..n : \/ j = 2 * i - 1 /\ IsTurn(c[j], "actor_turn", sample, i - 1)
                          \/ j = 2 * i /\ IsTurn(c[j], "theater_turn", sample, i - 1)
    BY <1>3
  <2>2. PICK l \in 1..n : \/ k = 2 * l - 1 /\ IsTurn(c[k], "actor_turn", sample, l - 1)
                          \/ k = 2 * l /\ IsTurn(c[k], "theater_turn", sample, l - 1)
    BY <1>3
  <2>3. c[j].index[1] = i - 1 /\ c[k].index[1] = l - 1
    BY <2>1, <2>2 DEF IsTurn
  <2>4. i = l
    BY <1>4, <2>3
  <2> QED BY <1>4, <2>1, <2>2, <2>4 DEF IsTurn
<1> QED BY <1>2, <1>4, DistinctItems DEF c

LEMMA GraderEvalsCount ==
  ASSUME NEW r, NEW sample, r.assessments \in Nat, Turns[sample.scenario] \in Nat
  PROVE  /\ IsFiniteSet(ToSet(GraderEvals(r, sample)))
         /\ Cardinality(ToSet(GraderEvals(r, sample))) = r.assessments
<1> DEFINE e == GraderEvals(r, sample)
<1>1. IsList(e) /\ Len(e) = r.assessments
  BY GraderEvalsOK DEF Block
<1>2. \A i \in 1..r.assessments : e[i].index = <<i - 1>>
  BY DEF GraderEvals, Call, Spec
<1> HIDE DEF e
<1>3. \A i \in 1..r.assessments : e[i].index[1] = i - 1
  BY <1>2
<1>4. \A i, j \in 1..r.assessments : e[i] = e[j] => i = j
  BY <1>3
<1> QED BY <1>1, <1>4, DistinctItems DEF e

LEMMA MutationsCount ==
  ASSUME NEW r, NEW sample, NEW aggregate, IsList(Operators(r)), r.mutations \in Nat
  PROVE  /\ IsFiniteSet(ToSet(Mutations(r, sample, aggregate)))
         /\ Cardinality(ToSet(Mutations(r, sample, aggregate)))
               = 2 * r.mutations * Cardinality(ActiveOperators(r))
         /\ Cardinality(ActiveOperators(r)) \in Nat
<1> DEFINE n == r.mutations
           ops == ActiveOperators(r)
           D == ops \X (0..(n - 1))
           f == [d \in D |-> Proposal(sample, d[1], d[2], aggregate)]
           g == [d \in D |-> Applied(sample, d[1], d[2], aggregate)]
           F == {f[d] : d \in D}
           G == {g[d] : d \in D}
<1>1. IsFiniteSet(ops) /\ Cardinality(ops) \in Nat
  <2>1. IsFiniteSet(ToSet(Operators(r)))
    BY ListIsFinite
  <2>2. ops \in SUBSET ToSet(Operators(r))
    BY DEF ActiveOperators
  <2> HIDE DEF ops
  <2> QED BY <2>1, <2>2, FS_Subset, FS_CardinalityType
<1>2. IsFiniteSet(0..(n - 1)) /\ Cardinality(0..(n - 1)) = n
  BY FS_Interval
<1>3. IsFiniteSet(D) /\ Cardinality(D) = Cardinality(ops) * n
  BY <1>1, <1>2, FS_Product
<1>4. ToSet(Mutations(r, sample, aggregate)) = F \cup G
  <2>1. \A x : x \in ToSet(Mutations(r, sample, aggregate)) <=>
                  \E operator \in ops, i \in 0..(n - 1) :
                     \/ x = Proposal(sample, operator, i, aggregate)
                     \/ x = Applied(sample, operator, i, aggregate)
    BY MutationsMembers
  <2>2. \A operator \in ops, i \in 0..(n - 1) :
           /\ <<operator, i>> \in D
           /\ f[<<operator, i>>] = Proposal(sample, operator, i, aggregate)
           /\ g[<<operator, i>>] = Applied(sample, operator, i, aggregate)
    OBVIOUS
  <2>3. \A d \in D : \E operator \in ops, i \in 0..(n - 1) :
           /\ f[d] = Proposal(sample, operator, i, aggregate)
           /\ g[d] = Applied(sample, operator, i, aggregate)
    OBVIOUS
  <2> HIDE DEF D, f, g, ops, n
  <2>4. \A x : x \in F <=> \E operator \in ops, i \in 0..(n - 1) :
                              x = Proposal(sample, operator, i, aggregate)
    BY <2>2, <2>3
  <2>5. \A x : x \in G <=> \E operator \in ops, i \in 0..(n - 1) :
                              x = Applied(sample, operator, i, aggregate)
    BY <2>2, <2>3
  <2>6. \A x : x \in F \cup G <=> x \in F \/ x \in G
    OBVIOUS
  <2> HIDE DEF F, G
  <2>7. \A x : x \in ToSet(Mutations(r, sample, aggregate)) <=> x \in F \cup G
    BY <2>1, <2>4, <2>5, <2>6, Zenon
  <2> QED BY <2>7
<1>5. \A d \in D : /\ f[d].index = <<d[1], d[2]>> /\ f[d].type = "mutation_proposal"
                   /\ g[d].index = <<d[1], d[2]>> /\ g[d].type = "mutation_application"
  BY DEF Proposal, Applied, Local, Spec
<1>6. \A d, e \in D : <<d[1], d[2]>> = <<e[1], e[2]>> => d = e
  OBVIOUS
<1>7. f \in Bijection(D, F) /\ g \in Bijection(D, G)
  <2>1. DOMAIN f = D /\ DOMAIN g = D /\ f = [d \in D |-> f[d]] /\ g = [d \in D |-> g[d]]
    OBVIOUS
  <2> HIDE DEF D, f, g
  <2> QED BY <1>5, <1>6, <2>1 DEF Bijection, Injection, Surjection, IsInjective
<1> HIDE DEF D, f, g
<1>8. /\ IsFiniteSet(F) /\ Cardinality(F) = Cardinality(D)
      /\ IsFiniteSet(G) /\ Cardinality(G) = Cardinality(D)
  <2>1. ExistsBijection(D, F) /\ ExistsBijection(D, G)
    BY <1>7 DEF ExistsBijection
  <2> HIDE DEF F, G
  <2> QED BY <1>3, <2>1, FS_Bijection
<1>9. F \cap G = {}
  BY <1>5
<1> HIDE DEF F, G
<1>10. /\ IsFiniteSet(F \cup G)
       /\ Cardinality(F \cup G) = Cardinality(ops) * n + Cardinality(ops) * n
  BY <1>3, <1>8, <1>9, DisjointUnion
<1>11. Cardinality(ops) * n + Cardinality(ops) * n = 2 * n * Cardinality(ops)
  BY <1>1
<1> QED BY <1>1, <1>4, <1>10, <1>11

\* The stages of a sample: its turns, its transcript, its assessments, its
\* aggregate and its mutations.
LEMMA SamplePlanCount ==
  ASSUME NEW r, NEW sample, IsList(Operators(r)), r.assessments \in Nat,
         r.mutations \in Nat, Turns[sample.scenario] \in Nat
  PROVE  /\ IsFiniteSet(ToSet(SamplePlan(r, sample)))
         /\ Cardinality(ToSet(SamplePlan(r, sample)))
               = 2 * Turns[sample.scenario] + 1 + r.assessments + 1
                    + 2 * r.mutations * Cardinality(ActiveOperators(r))
<1> DEFINE c == ToSet(Conversation(r, sample))
           t == Transcript(r, sample)
           e == ToSet(GraderEvals(r, sample))
           a == Aggregate(r, sample)
           m == ToSet(Mutations(r, sample, a))
           ct == c \cup {t}
           cte == ct \cup e
           ctea == cte \cup {a}
           n == Turns[sample.scenario]
           k == 2 * r.mutations * Cardinality(ActiveOperators(r))
<1>1. ToSet(SamplePlan(r, sample)) = ctea \cup m
  BY SamplePlanMembers
<1>2. /\ \A x \in c : x.type \in {"actor_turn", "theater_turn"}
      /\ t.type = "conversation_transcript"
      /\ \A x \in e : x.type = "grader_eval"
      /\ a.type = "assessment_aggregate"
      /\ \A x \in m : x.type \in {"mutation_proposal", "mutation_application"}
  BY SamplePlanKinds, TranscriptOK, AggregateOK
<1>3. IsFiniteSet(c) /\ Cardinality(c) = 2 * n
  BY ConversationCount
<1>4. IsFiniteSet(e) /\ Cardinality(e) = r.assessments
  BY GraderEvalsCount
<1>5. IsFiniteSet(m) /\ Cardinality(m) = k /\ k \in Nat
  BY MutationsCount, FS_CardinalityType
<1> HIDE DEF c, t, e, a, m, k
<1>6. IsFiniteSet(ct) /\ Cardinality(ct) = 2 * n + 1
  <2>1. t \notin c
    BY <1>2
  <2> QED BY <1>3, <2>1, OneMore
<1>7. IsFiniteSet(cte) /\ Cardinality(cte) = 2 * n + 1 + r.assessments
  <2>1. ct \cap e = {}
    BY <1>2
  <2> HIDE DEF ct
  <2> QED BY <1>4, <1>6, <2>1, DisjointUnion
<1>8. IsFiniteSet(ctea) /\ Cardinality(ctea) = 2 * n + 1 + r.assessments + 1
  <2>1. a \notin cte
    BY <1>2
  <2> HIDE DEF cte
  <2> QED BY <1>7, <2>1, OneMore
<1>9. IsFiniteSet(ctea \cup m) /\ Cardinality(ctea \cup m) = 2 * n + 1 + r.assessments + 1 + k
  <2>1. ctea \cap m = {}
    BY <1>2
  <2> HIDE DEF ctea
  <2> QED BY <1>5, <1>8, <2>1, DisjointUnion
<1> QED BY <1>1, <1>9 DEF k

-----------------------------------------------------------------------------
(* Seeding.                                                                *)

\* The rows are those of the stages already added, whatever was added twice.
Added ==
    phase \in {"seeding", "seeded"} =>
        /\ Valid(run)
        /\ Block(run, {}, plan)
        /\ next \in 1..(Len(plan) + 1)
        /\ phase = "seeding" <=> next <= Len(plan)
        /\ ToSet(rows) = {plan[j] : j \in 1..(next - 1)}

Planned == phase \in {"seeding", "seeded"} => plan = RunStages(run)

RowsDistinct == \A i, j \in DOMAIN rows : rows[i] = rows[j] => i = j

PlanInv ==
    /\ run \in Runs
    /\ Planned
    /\ RowsDistinct
    /\ phase \in {"planning", "rejected", "seeding", "seeded"}
    /\ phase = "planning" => next = 1
    /\ phase \in {"planning", "rejected"} => rows = << >>
    /\ IsList(rows)
    /\ Added
    /\ \A i \in DOMAIN rows : StageOK(run, rows[i])
    /\ ParentsPlannedFirst

LEMMA PlanInvInit == Init => PlanInv
<1> SUFFICES ASSUME Init PROVE PlanInv
  OBVIOUS
<1>1. IsList(rows) /\ DOMAIN rows = {}
  BY Nothing, ListFacts DEF Init
<1> QED BY <1>1 DEF Init, PlanInv, Added, Planned, RowsDistinct, ParentsPlannedFirst

LEMMA PlanningKeepsInv == PlanInv /\ PlanMissingStages => PlanInv'
<1> SUFFICES ASSUME PlanInv, PlanMissingStages PROVE PlanInv'
  OBVIOUS
<1> USE DEF PlanMissingStages
<1>1. run' = run /\ rows' = rows /\ next' = 1 /\ rows = << >>
  BY DEF PlanInv
<1>2. Block(run, {}, plan') /\ plan' # << >>
  BY RunStagesOK DEF PlanInv
<1>3. Len(plan') \in Nat /\ Len(plan') >= 1
  BY <1>2, ListFacts DEF Block
<1>4. ToSet(rows) = {}
  BY <1>1, Nothing
<1>5. Added'
  BY <1>1, <1>2, <1>3, <1>4 DEF Added
<1>6. ParentsPlannedFirst'
  BY <1>1 DEF PlanInv, ParentsPlannedFirst
<1> QED BY <1>1, <1>5, <1>6 DEF PlanInv, Planned, RowsDistinct

LEMMA AddingKeepsInv == PlanInv /\ AddNext => PlanInv'
<1> SUFFICES ASSUME PlanInv, AddNext PROVE PlanInv'
  OBVIOUS
<1> DEFINE x == plan[next]
<1>1. /\ run' = run /\ plan' = plan /\ next' = next + 1
      /\ next \in 1..Len(plan) /\ Len(plan) \in Nat
      /\ phase = "seeding" /\ Valid(run) /\ Block(run, {}, plan)
      /\ IsList(rows) /\ ToSet(rows) = {plan[j] : j \in 1..(next - 1)}
      /\ phase' = IF next = Len(plan) THEN "seeded" ELSE "seeding"
  BY ListFacts DEF PlanInv, Added, AddNext, Block
<1>2. /\ rows' = IF x \in ToSet(rows) THEN rows ELSE Append(rows, x)
      /\ Parents(x) \subseteq ToSet(rows) /\ StageOK(run, x)
  BY <1>1 DEF AddNext, Block
<1>3. ToSet(rows') = ToSet(rows) \cup {x} /\ IsList(rows')
  BY <1>1, <1>2, Appended
<1>4. ToSet(rows') = {plan[j] : j \in 1..next}
  BY <1>1, <1>3
<1>5. Added'
  BY <1>1, <1>4 DEF Added
<1>6. /\ \A i \in DOMAIN rows' : StageOK(run, rows'[i])
      /\ ParentsPlannedFirst'
      /\ RowsDistinct'
  <2>1. CASE x \in ToSet(rows)
    BY <1>1, <1>2, <2>1 DEF PlanInv, ParentsPlannedFirst, RowsDistinct
  <2>2. CASE x \notin ToSet(rows)
    <3>1. /\ DOMAIN rows = 1..Len(rows) /\ Len(rows) \in Nat
          /\ DOMAIN rows' = 1..(Len(rows) + 1)
          /\ \A i \in 1..Len(rows) : rows'[i] = rows[i]
          /\ rows'[Len(rows) + 1] = x
      BY <1>1, <1>2, <1>3, <2>2, ListFacts, Appended
    <3>2. ASSUME NEW i \in 1..(Len(rows) + 1), i <= Len(rows),
                 NEW k \in DOMAIN rows'[i].parents
          PROVE  \E j \in 1..(i - 1) : rows'[j] = rows'[i].parents[k]
      <4>1. k \in DOMAIN rows[i].parents /\ i \in DOMAIN rows
        BY <3>1, <3>2
      <4>2. PICK j \in 1..(i - 1) : rows[j] = rows[i].parents[k]
        BY <4>1 DEF PlanInv, ParentsPlannedFirst
      <4> QED BY <3>1, <3>2, <4>2
    <3>3. ASSUME NEW k \in DOMAIN x.parents
          PROVE  \E j \in 1..Len(rows) : rows'[j] = x.parents[k]
      <4>1. x.parents[k] \in ToSet(rows)
        BY <1>2 DEF Parents, ToSet
      <4>2. PICK j \in 1..Len(rows) : rows[j] = x.parents[k]
        <5>1. ToSet(rows) = {rows[j] : j \in 1..Len(rows)}
          BY <1>1, ListFacts
        <5> QED BY <4>1, <5>1
      <4> QED BY <3>1, <4>2
    <3>4. ParentsPlannedFirst'
      BY <3>1, <3>2, <3>3 DEF ParentsPlannedFirst
    <3>5. \A i \in DOMAIN rows' : StageOK(run, rows'[i])
      BY <1>2, <3>1 DEF PlanInv
    <3>6. RowsDistinct'
      <4>1. \A i \in 1..Len(rows) : rows[i] # x
        BY <1>1, <2>2, <3>1 DEF ToSet
      <4> QED BY <3>1, <4>1 DEF PlanInv, RowsDistinct
    <3> QED BY <3>4, <3>5, <3>6
  <2> QED BY <2>1, <2>2
<1> QED BY <1>1, <1>3, <1>5, <1>6 DEF PlanInv, Planned

LEMMA PlanInvNext == PlanInv /\ [Next]_vars => PlanInv'
<1> SUFFICES ASSUME PlanInv, [Next]_vars PROVE PlanInv'
  OBVIOUS
<1>1. CASE Reject
  BY <1>1 DEF PlanInv, Reject, Added, Planned, RowsDistinct, ParentsPlannedFirst
<1>2. CASE PlanMissingStages
  BY <1>2, PlanningKeepsInv
<1>3. CASE AddNext
  BY <1>3, AddingKeepsInv
<1>4. CASE UNCHANGED vars
  BY <1>4 DEF PlanInv, vars, Added, Planned, RowsDistinct, ParentsPlannedFirst
<1> QED BY <1>1, <1>2, <1>3, <1>4 DEF Next

LEMMA SeedingInvariant == PlanSpec => []PlanInv
<1> QED BY PlanInvInit, PlanInvNext, PTL DEF PlanSpec

\* Whatever the configuration, and wherever seed_run is interrupted, every
\* stage in the store comes after all its parents (planner.py:18).
THEOREM ParentsComeFirst == PlanSpec => []ParentsPlannedFirst
<1>1. PlanInv => ParentsPlannedFirst
  BY DEF PlanInv
<1> QED BY <1>1, SeedingInvariant, PTL

\* No planned stage depends on a stage of another sample: failures stay in
\* their sample.
THEOREM SamplesDoNotMix == PlanSpec => []SamplesIsolated
<1>1. PlanInv => SamplesIsolated
  BY DEF PlanInv, SamplesIsolated, StageOK
<1> QED BY <1>1, SeedingInvariant, PTL

\* Every stage plan_missing_stages plans has the parents its handler in
\* agents/prompt_only.py insists on, for conversations of any length.
THEOREM HandlersAreServed == PlanSpec => []HandlersGetTheirParents
<1>1. PlanInv => HandlersGetTheirParents
  BY DEF PlanInv, HandlersGetTheirParents, StageOK
<1> QED BY <1>1, SeedingInvariant, PTL

\* All rows are of the plan, which is that of a configuration accepted.
LEMMA RowsArePlanned ==
  ASSUME PlanInv, NEW s \in ToSet(rows)
  PROVE  /\ s.sample \in Samples(run) /\ s \in ToSet(SamplePlan(run, s.sample))
         /\ Turns[s.sample.scenario] \in Nat
         /\ IsList(Operators(run)) /\ run.assessments \in Nat /\ run.mutations \in Nat
<1>1. phase \in {"seeding", "seeded"}
  BY Nothing DEF PlanInv
<1>2. /\ run \in Runs /\ Valid(run) /\ plan = RunStages(run) /\ IsList(plan)
      /\ next \in 1..(Len(plan) + 1) /\ ToSet(rows) = {plan[j] : j \in 1..(next - 1)}
  BY <1>1 DEF PlanInv, Planned, Added, Block
<1>3. s \in ToSet(RunStages(run))
  BY <1>2, ListFacts
<1>4. PICK m \in Samples(run) : s \in ToSet(SamplePlan(run, m))
  BY <1>2, <1>3, RunMembers
<1>5. Turns[m.scenario] \in Nat
  <2>1. m.scenario \in ToSet(run.scenarios)
    BY <1>4 DEF Samples
  <2> QED BY <1>2, <2>1, ValidFacts, ListFacts
<1>6. IsList(Operators(run)) /\ run.assessments \in Nat /\ run.mutations \in Nat
  BY <1>2, ValidFacts
<1>7. s.sample = m
  BY <1>4, <1>5, <1>6, SamplePlanKinds
<1> QED BY <1>4, <1>5, <1>6, <1>7

\* The rows of a sample, once seeding is over, are its plan.
LEMMA RowsOfSample ==
  ASSUME PlanInv, phase = "seeded", NEW sample \in Samples(run)
  PROVE  LET of == {i \in DOMAIN rows : rows[i].sample = sample}
         IN  /\ of # {}
             /\ Cardinality(of) = 2 * Turns[sample.scenario] + 1 + run.assessments + 1
                                     + 2 * run.mutations * Cardinality(ActiveOperators(run))
<1> DEFINE of == {i \in DOMAIN rows : rows[i].sample = sample}
           P == ToSet(SamplePlan(run, sample))
           f == [i \in of |-> rows[i]]
<1>1. /\ run \in Runs /\ Valid(run) /\ plan = RunStages(run) /\ IsList(plan)
      /\ next = Len(plan) + 1 /\ ToSet(rows) = {plan[j] : j \in 1..(next - 1)}
      /\ IsList(rows) /\ RowsDistinct
  <2>1. /\ run \in Runs /\ Valid(run) /\ plan = RunStages(run) /\ IsList(plan)
        /\ next \in 1..(Len(plan) + 1) /\ ~(next <= Len(plan))
        /\ ToSet(rows) = {plan[j] : j \in 1..(next - 1)}
        /\ IsList(rows) /\ RowsDistinct
    BY DEF PlanInv, Planned, Added, Block
  <2>2. Len(plan) \in Nat
    BY <2>1, ListFacts
  <2> QED BY <2>1, <2>2
<1>2. ToSet(rows) = ToSet(RunStages(run))
  BY <1>1, ListFacts
<1>3. /\ IsList(Operators(run)) /\ run.assessments \in Nat /\ run.mutations \in Nat
      /\ \A m \in Samples(run) : Turns[m.scenario] \in Nat
  <2>1. \A m \in Samples(run) : m.scenario \in ToSet(run.scenarios)
    BY DEF Samples
  <2> QED BY <1>1, <2>1, ValidFacts, ListFacts
<1>4. \A x : x \in ToSet(rows) /\ x.sample = sample <=> x \in P
  <2>1. \A x : x \in ToSet(rows) <=> \E m \in Samples(run) : x \in ToSet(SamplePlan(run, m))
    BY <1>1, <1>2, RunMembers
  <2>2. \A m \in Samples(run) : \A x \in ToSet(SamplePlan(run, m)) : x.sample = m
    BY <1>3, SamplePlanKinds
  <2> QED BY <2>1, <2>2
<1>5. ToSet(rows) = {rows[i] : i \in DOMAIN rows}
  BY DEF ToSet
<1>6. f \in Bijection(of, P)
  <2>1. \A i \in of : rows[i] \in P
    BY <1>4, <1>5
  <2>2. \A x \in P : \E i \in of : rows[i] = x
    BY <1>4, <1>5
  <2>3. \A i, j \in of : rows[i] = rows[j] => i = j
    BY <1>1 DEF RowsDistinct
  <2> HIDE DEF of, P
  <2> QED BY <2>1, <2>2, <2>3 DEF Bijection, Injection, Surjection, IsInjective
<1>7. /\ IsFiniteSet(P)
      /\ Cardinality(P) = 2 * Turns[sample.scenario] + 1 + run.assessments + 1
                             + 2 * run.mutations * Cardinality(ActiveOperators(run))
  BY <1>3, SamplePlanCount
<1>8. IsFiniteSet(of)
  <2>1. of \in SUBSET (1..Len(rows)) /\ Len(rows) \in Nat
    BY <1>1, ListFacts
  <2> HIDE DEF of
  <2>2. IsFiniteSet(1..Len(rows))
    BY <2>1, FS_Interval
  <2> QED BY <2>1, <2>2, FS_Subset
<1>9. Cardinality(P) = Cardinality(of)
  <2>1. ExistsBijection(of, P)
    BY <1>6 DEF ExistsBijection
  <2> HIDE DEF of, P
  <2> QED BY <1>8, <2>1, FS_Bijection
<1>10. of # {}
  <2>1. Aggregate(run, sample) \in P
    BY <1>3, SamplePlanMembers
  <2> QED BY <1>4, <1>5, <2>1
<1> QED BY <1>7, <1>9, <1>10

\* Every scenario is run for every actor, grader and rollout, in full and
\* once, however often the configuration lists it.
THEOREM EveryPieceOfWorkIsPlannedOnce == PlanSpec => []OneRowPerPieceOfWork
<1>1. ASSUME PlanInv PROVE OneRowPerPieceOfWork
  <2> SUFFICES ASSUME phase = "seeded"
               PROVE  LET samples == [scenario : ToSet(run.scenarios),
                                      actor : ToSet(run.actors),
                                      grader : ToSet(run.graders),
                                      rollout : 0..(run.rollouts - 1)]
                      IN  /\ {stage.sample : stage \in ToSet(rows)} = samples
                          /\ \A sample \in samples :
                                Cardinality({i \in DOMAIN rows : rows[i].sample = sample})
                                   = 2 * Turns[sample.scenario] + 1 + run.assessments + 1
                                        + 2 * run.mutations * Cardinality(ActiveOperators(run))
    BY DEF OneRowPerPieceOfWork, ActiveOperators
  <2>1. run \in Runs /\ Valid(run)
    BY <1>1 DEF PlanInv, Added
  <2>2. ToSet(DictKeys(run.actors)) = ToSet(run.actors)
    BY <2>1, RunPlanAssumption, DictKeysMembers DEF IsList
  <2>3. ToSet(DictKeys(run.graders)) = ToSet(run.graders)
    BY <2>1, RunPlanAssumption, DictKeysMembers DEF IsList
  <2>4. Samples(run) = [scenario : ToSet(run.scenarios), actor : ToSet(run.actors),
                        grader : ToSet(run.graders), rollout : 0..(run.rollouts - 1)]
    BY <2>2, <2>3 DEF Samples
  <2>5. \A stage \in ToSet(rows) : stage.sample \in Samples(run)
    <3>1. ASSUME NEW stage \in ToSet(rows) PROVE stage.sample \in Samples(run)
      BY <1>1, RowsArePlanned
    <3> QED BY <3>1
  <2>6. \A sample \in Samples(run) : \E stage \in ToSet(rows) : stage.sample = sample
    BY <1>1, RowsOfSample DEF ToSet
  <2>7. {stage.sample : stage \in ToSet(rows)} = Samples(run)
    BY <2>5, <2>6
  <2>8. \A sample \in Samples(run) :
           Cardinality({i \in DOMAIN rows : rows[i].sample = sample})
              = 2 * Turns[sample.scenario] + 1 + run.assessments + 1
                   + 2 * run.mutations * Cardinality(ActiveOperators(run))
    BY <1>1, RowsOfSample
  <2> QED BY <2>4, <2>7, <2>8
<1> QED BY <1>1, SeedingInvariant, PTL

-----------------------------------------------------------------------------
(* Drawing from a pool.                                                    *)

LEMMA Products ==
  /\ \A x \in Nat, y \in Nat : x * y \in Nat
  /\ \A x \in Int, y \in Int, z \in Int : (x + y) * z = x * z + y * z
  /\ \A x \in Int, y \in Int, z \in Nat : x <= y => x * z <= y * z
  /\ \A x \in Int, y \in Int, z \in Nat : x * z < y * z => x < y
<1>1. \A x \in Nat, y \in Nat : x * y \in Nat
  OBVIOUS
<1>2. \A x \in Int, y \in Int, z \in Int : (x + y) * z = x * z + y * z
  OBVIOUS
<1>3. ASSUME NEW x \in Int, NEW y \in Int, NEW z \in Nat, x <= y PROVE x * z <= y * z
  <2>1. y - x \in Nat /\ (y - x) * z \in Nat
    BY <1>1, <1>3
  <2>2. (x + (y - x)) * z = x * z + (y - x) * z /\ x + (y - x) = y
    BY <1>2
  <2>3. x * z \in Int /\ y * z \in Int
    OBVIOUS
  <2> QED BY <2>1, <2>2, <2>3
<1>4. ASSUME NEW x \in Int, NEW y \in Int, NEW z \in Nat, x * z < y * z PROVE x < y
  <2> SUFFICES ASSUME y <= x PROVE FALSE
    OBVIOUS
  <2>1. y * z <= x * z
    BY <1>3
  <2>2. x * z \in Int /\ y * z \in Int
    OBVIOUS
  <2> QED BY <1>4, <2>1, <2>2
<1> QED BY <1>1, <1>2, <1>3, <1>4

\* The least multiple of T from a on.
LEMMA RoundedUp ==
  ASSUME NEW T \in Nat \ {0}, NEW a \in Nat
  PROVE  \E d \in Nat : a <= d * T /\ d * T <= a + T - 1
<1> DEFINE S == {b \in Nat : \E d \in Nat : b <= d * T /\ d * T <= b + T - 1}
<1>1. 0 \in S
  <2>1. 0 * T = 0
    OBVIOUS
  <2> QED BY <2>1
<1>2. ASSUME NEW b \in Nat, b \in S PROVE b + 1 \in S
  <2>1. PICK d \in Nat : b <= d * T /\ d * T <= b + T - 1
    BY <1>2
  <2>2. d * T \in Nat
    BY Products
  <2>3. CASE d * T = b
    <3> DEFINE e == d + 1
    <3>1. e * T = d * T + T /\ e \in Nat
      OBVIOUS
    <3> HIDE DEF e
    <3>2. b + 1 <= e * T /\ e * T <= (b + 1) + T - 1 /\ b + 1 \in Nat
      BY <2>3, <3>1
    <3> QED BY <3>1, <3>2
  <2>4. CASE d * T # b
    <3>1. b + 1 <= d * T /\ d * T <= (b + 1) + T - 1
      BY <2>1, <2>2, <2>4
    <3> QED BY <3>1
  <2> QED BY <2>3, <2>4
<1> HIDE DEF S
<1>3. a \in S
  BY <1>1, <1>2, Induction
<1> QED BY <1>3 DEF S

LEMMA Rising ==
  ASSUME NEW n \in Nat, NEW cum, \A i \in 0..n : cum[i] \in Nat,
         \A i \in 1..n : cum[i - 1] <= cum[i]
  PROVE  \A i, j \in 0..n : i <= j => cum[i] <= cum[j]
<1> SUFFICES ASSUME NEW i \in 0..n PROVE \A j \in 0..n : i <= j => cum[i] <= cum[j]
  OBVIOUS
<1> DEFINE S == {k \in Nat : i + k <= n => cum[i] <= cum[i + k]}
<1>1. 0 \in S
  <2>1. i + 0 = i /\ cum[i] \in Nat
    OBVIOUS
  <2> QED BY <2>1
<1>2. ASSUME NEW k \in Nat, k \in S PROVE k + 1 \in S
  <2> SUFFICES ASSUME i + (k + 1) <= n PROVE cum[i] <= cum[i + (k + 1)]
    OBVIOUS
  <2>1. /\ i + (k + 1) \in 1..n /\ (i + (k + 1)) - 1 = i + k /\ i + k <= n
        /\ i + k \in 0..n /\ i + (k + 1) \in 0..n
    OBVIOUS
  <2>2. cum[i + k] <= cum[i + (k + 1)] /\ cum[i + k] \in Nat /\ cum[i + (k + 1)] \in Nat
    BY <2>1
  <2>3. cum[i] <= cum[i + k] /\ cum[i] \in Nat
    BY <1>2, <2>1
  <2> QED BY <2>2, <2>3
<1> HIDE DEF S
<1>3. \A k \in Nat : k \in S
  BY <1>1, <1>2, Induction
<1> SUFFICES ASSUME NEW j \in 0..n, i <= j PROVE cum[i] <= cum[j]
  OBVIOUS
<1>4. j - i \in Nat /\ i + (j - i) = j /\ j <= n
  OBVIOUS
<1> QED BY <1>3, <1>4 DEF S

\* A draw belongs to the candidate within whose part of the total it falls.
DividesDraws(P, n, cum, idx) ==
    /\ \A i \in 0..n : cum[i] \in Nat
    /\ cum[0] = 0 /\ cum[n] > 0
    /\ \A i \in 1..n : cum[i - 1] <= cum[i]
    /\ \A d \in 0..(P - 1) : idx[d] \in 1..n
    /\ \A d \in 0..(P - 1), i \in 1..n :
          idx[d] = i <=> cum[i - 1] * P <= d * cum[n] /\ d * cum[n] < cum[i] * P

\* So many draws fall into a part as its share of the total says, within one.
LEMMA PartOfDraws ==
  ASSUME NEW P \in Nat \ {0}, NEW n \in Nat, NEW cum, NEW idx, DividesDraws(P, n, cum, idx),
         NEW i \in 1..n
  PROVE  LET of == {d \in 0..(P - 1) : idx[d] = i}
             T == cum[n]
             error == Cardinality(of) * T - (cum[i] - cum[i - 1]) * P
         IN  /\ IsFiniteSet(of) /\ Cardinality(of) \in Nat
             /\ error <= T - 1 /\ -error <= T - 1
<1> DEFINE T == cum[n]
           a == cum[i - 1] * P
           b == cum[i] * P
           of == {d \in 0..(P - 1) : idx[d] = i}
<1>0. /\ T \in Nat \ {0} /\ cum[i - 1] \in Nat /\ cum[i] \in Nat /\ cum[i - 1] <= cum[i]
      /\ n \in 0..n /\ i - 1 \in 0..n /\ i \in 0..n
  BY DEF DividesDraws
<1>1. a \in Nat /\ b \in Nat /\ a <= b /\ (cum[i] - cum[i - 1]) * P = b - a
  <2>1. a \in Nat /\ b \in Nat /\ a <= b
    BY <1>0, Products
  <2>2. cum[i] - cum[i - 1] \in Int /\ (cum[i] - cum[i - 1]) + cum[i - 1] = cum[i]
    BY <1>0
  <2>3. ((cum[i] - cum[i - 1]) + cum[i - 1]) * P = (cum[i] - cum[i - 1]) * P + a
    BY <1>0, <2>2, Products
  <2>4. (cum[i] - cum[i - 1]) * P \in Int
    BY <2>2
  <2> QED BY <2>1, <2>2, <2>3, <2>4
<1>2. \A d \in 0..(P - 1) : idx[d] = i <=> a <= d * T /\ d * T < b
  BY DEF DividesDraws
<1>3. b <= T * P
  <2>1. cum[i] <= T
    <3>1. (\A k \in 0..n : cum[k] \in Nat) /\ (\A k \in 1..n : cum[k - 1] <= cum[k])
      BY DEF DividesDraws
    <3>2. \A k, m \in 0..n : k <= m => cum[k] <= cum[m]
      BY <3>1, Rising
    <3>3. i <= n
      OBVIOUS
    <3> QED BY <1>0, <3>2, <3>3
  <2> QED BY <1>0, <2>1, Products
<1> HIDE DEF T, a, b
<1>4. PICK f \in Nat : a <= f * T /\ f * T <= a + T - 1
  BY <1>0, <1>1, RoundedUp
<1>5. PICK l \in Nat : b <= l * T /\ l * T <= b + T - 1
  BY <1>0, <1>1, RoundedUp
<1>6. f * T \in Nat /\ l * T \in Nat /\ T * P \in Nat
  BY <1>0, Products
<1>7. ASSUME NEW c \in Nat, NEW m \in Nat, c <= m * T, m * T <= c + T - 1, NEW d \in Nat
      PROVE  c <= d * T <=> m <= d
  <2>1. m * T \in Nat /\ d * T \in Nat
    BY <1>0, Products
  <2>2. ASSUME m <= d PROVE c <= d * T
    <3>1. m * T <= d * T
      BY <1>0, <2>2, Products
    <3> QED BY <1>7, <2>1, <3>1
  <2>3. ASSUME ~(m <= d) PROVE ~(c <= d * T)
    <3>1. d + 1 <= m /\ d + 1 \in Int
      BY <2>3
    <3>2. (d + 1) * T <= m * T
      BY <1>0, <3>1, Products
    <3>3. (d + 1) * T = d * T + T
      BY <1>0
    <3> QED BY <1>0, <1>7, <2>1, <3>2, <3>3
  <2> QED BY <2>2, <2>3
<1>8. l <= P
  <2>1. b <= P * T
    BY <1>0, <1>3
  <2> QED BY <1>1, <1>5, <1>7, <2>1
<1>9. of = f..(l - 1)
  <2>1. \A d \in 0..(P - 1) : d \in Nat /\ d * T \in Nat
    BY <1>0, Products
  <2>2. \A d \in 0..(P - 1) : idx[d] = i <=> f <= d /\ ~(l <= d)
    <3> SUFFICES ASSUME NEW d \in 0..(P - 1) PROVE idx[d] = i <=> f <= d /\ ~(l <= d)
      OBVIOUS
    <3>1. a <= d * T <=> f <= d
      BY <1>1, <1>4, <1>7, <2>1
    <3>2. b <= d * T <=> l <= d
      BY <1>1, <1>5, <1>7, <2>1
    <3>3. d * T < b <=> ~(b <= d * T)
      BY <1>1, <2>1
    <3> QED BY <1>2, <3>1, <3>2, <3>3
  <2> QED BY <1>8, <2>2
<1>10. f <= l
  <2>1. a <= l * T
    BY <1>1, <1>5, <1>6
  <2> QED BY <1>1, <1>4, <1>7, <2>1
<1> HIDE DEF of
<1>11. IsFiniteSet(of) /\ Cardinality(of) = l - f
  <2> DEFINE m == l - 1
  <2>1. f \in Int /\ m \in Int
    OBVIOUS
  <2>2. /\ IsFiniteSet(f..m)
        /\ Cardinality(f..m) = IF f > m THEN 0 ELSE m - f + 1
    <3> HIDE DEF m
    <3> QED BY <2>1, FS_Interval
  <2>3. (IF f > m THEN 0 ELSE m - f + 1) = l - f
    BY <1>10
  <2> QED BY <1>9, <2>2, <2>3
<1>12. (l - f) * T = l * T - f * T
  <2>1. l - f \in Int /\ (l - f) + f = l
    OBVIOUS
  <2>2. ((l - f) + f) * T = (l - f) * T + f * T
    BY <1>0, <2>1, Products
  <2>3. (l - f) * T \in Int
    BY <1>0, <2>1
  <2> QED BY <1>6, <2>1, <2>2, <2>3
<1>13. l - f \in Nat
  BY <1>10
<1>14. /\ (l - f) * T - (b - a) <= T - 1
       /\ -((l - f) * T - (b - a)) <= T - 1
  BY <1>0, <1>1, <1>4, <1>5, <1>6, <1>12
<1> QED BY <1>1, <1>11, <1>13, <1>14 DEF of, T, a, b

FairlyDrawn(P, n, cum, idx, list, c, w) ==
    LET drawn == Cardinality({d \in 0..(P - 1) : list[idx[d]] = c})
        copies == Cardinality({i \in 1..n : list[i] = c})
        error == drawn * cum[n] - P * (copies * w)
    IN  /\ error < copies * cum[n] /\ -error < copies * cum[n]
        /\ copies * w = 0 => drawn = 0

\* A candidate may stand in the list more than once, always with the same
\* weight w: it is drawn by its share of the total, with an error of less than
\* one for each of its places, and never if it has no weight.
LEMMA FairDraws ==
  ASSUME NEW P \in Nat \ {0}, NEW n \in Nat, NEW cum, NEW idx, DividesDraws(P, n, cum, idx),
         NEW list, NEW c, NEW w \in Nat,
         \A i \in 1..n : list[i] = c => cum[i] - cum[i - 1] = w,
         \E i \in 1..n : list[i] = c
  PROVE  FairlyDrawn(P, n, cum, idx, list, c, w)
<1> DEFINE T == cum[n]
           D(k) == {d \in 0..(P - 1) : idx[d] \in 1..k /\ list[idx[d]] = c}
           C(k) == {i \in 1..k : list[i] = c}
           of(i) == {d \in 0..(P - 1) : idx[d] = i}
           S == {k \in Nat : k <= n =>
                   /\ IsFiniteSet(D(k)) /\ IsFiniteSet(C(k))
                   /\ Cardinality(D(k)) * T - P * (Cardinality(C(k)) * w)
                         <= Cardinality(C(k)) * (T - 1)
                   /\ -(Cardinality(D(k)) * T - P * (Cardinality(C(k)) * w))
                         <= Cardinality(C(k)) * (T - 1)}
<1>0. T \in Nat \ {0} /\ T - 1 \in Nat
  BY DEF DividesDraws
<1>10. ASSUME NEW i \in 1..n
       PROVE  /\ IsFiniteSet(of(i)) /\ Cardinality(of(i)) \in Nat
              /\ Cardinality(of(i)) * T - (cum[i] - cum[i - 1]) * P <= T - 1
              /\ -(Cardinality(of(i)) * T - (cum[i] - cum[i - 1]) * P) <= T - 1
  <2> HIDE DEF S, D, C
  <2> QED BY PartOfDraws
<1>1. 0 \in S
  <2>1. D(0) = {} /\ C(0) = {}
    OBVIOUS
  <2>2. /\ IsFiniteSet(D(0)) /\ IsFiniteSet(C(0))
        /\ Cardinality(D(0)) = 0 /\ Cardinality(C(0)) = 0
    BY <2>1, FS_EmptySet
  <2>3. 0 * T = 0 /\ P * (0 * w) = 0 /\ 0 * (T - 1) = 0
    BY <1>0
  <2> HIDE DEF D, C, T
  <2> QED BY <2>2, <2>3
<1>2. ASSUME NEW k \in Nat, k \in S PROVE k + 1 \in S
  <2> DEFINE j == k + 1
  <2> SUFFICES ASSUME j <= n PROVE j \in S
    OBVIOUS
  <2>1. k <= n /\ j \in Nat /\ j \in 1..n
    OBVIOUS
  <2>2. /\ IsFiniteSet(D(k)) /\ IsFiniteSet(C(k))
        /\ Cardinality(D(k)) * T - P * (Cardinality(C(k)) * w) <= Cardinality(C(k)) * (T - 1)
        /\ -(Cardinality(D(k)) * T - P * (Cardinality(C(k)) * w))
              <= Cardinality(C(k)) * (T - 1)
    BY <1>2, <2>1
  <2>3. CASE list[j] # c
    <3>1. D(j) = D(k) /\ C(j) = C(k)
      BY <2>3
    <3> HIDE DEF D, C, T, j
    <3> QED BY <2>1, <2>2, <3>1
  <2>4. CASE list[j] = c
    <3>1. D(j) = D(k) \cup of(j) /\ D(k) \cap of(j) = {}
      BY <2>1, <2>4
    <3>2. C(j) = C(k) \cup {j} /\ j \notin C(k)
      BY <2>1, <2>4
    <3>3. cum[j] - cum[j - 1] = w
      BY <2>1, <2>4
    <3> HIDE DEF D, C, T, j, of
    <3>4. /\ IsFiniteSet(of(j)) /\ Cardinality(of(j)) \in Nat
          /\ Cardinality(of(j)) * T - w * P <= T - 1
          /\ -(Cardinality(of(j)) * T - w * P) <= T - 1
      BY <2>1, <3>3, <1>10
    <3>5. /\ IsFiniteSet(D(j)) /\ Cardinality(D(j)) = Cardinality(D(k)) + Cardinality(of(j))
      BY <2>2, <3>1, <3>4, DisjointUnion
    <3>6. IsFiniteSet(C(j)) /\ Cardinality(C(j)) = Cardinality(C(k)) + 1
      BY <2>2, <3>2, OneMore
    <3>7. Cardinality(D(k)) \in Nat /\ Cardinality(C(k)) \in Nat
      BY <2>2, FS_CardinalityType
    <3> DEFINE x == Cardinality(D(k))
               y == Cardinality(C(k))
               z == Cardinality(of(j))
    <3>8. (x + z) * T = x * T + z * T
      BY <1>0, <3>4, <3>7
    <3>9. P * ((y + 1) * w) = P * (y * w) + w * P
      BY <3>7
    <3>10. (y + 1) * (T - 1) = y * (T - 1) + (T - 1)
      BY <1>0, <3>7
    <3>11. /\ x * T \in Int /\ z * T \in Int /\ P * (y * w) \in Int /\ w * P \in Int
           /\ y * (T - 1) \in Int
      BY <1>0, <3>4, <3>7
    <3>12. /\ x * T - P * (y * w) <= y * (T - 1) /\ -(x * T - P * (y * w)) <= y * (T - 1)
           /\ z * T - w * P <= T - 1 /\ -(z * T - w * P) <= T - 1
      BY <2>2, <3>4
    <3>13. /\ Cardinality(D(j)) * T = x * T + z * T
           /\ P * (Cardinality(C(j)) * w) = P * (y * w) + w * P
           /\ Cardinality(C(j)) * (T - 1) = y * (T - 1) + (T - 1)
      BY <3>5, <3>6, <3>8, <3>9, <3>10
    <3> HIDE DEF x, y, z
    <3>14. /\ (x * T + z * T) - (P * (y * w) + w * P) <= y * (T - 1) + (T - 1)
           /\ -((x * T + z * T) - (P * (y * w) + w * P)) <= y * (T - 1) + (T - 1)
      BY <1>0, <3>11, <3>12
    <3> QED BY <2>1, <3>5, <3>6, <3>13, <3>14
  <2> QED BY <2>3, <2>4
<1> HIDE DEF S
<1>3. n \in S
  BY <1>1, <1>2, Induction
<1>4. D(n) = {d \in 0..(P - 1) : list[idx[d]] = c}
  BY DEF DividesDraws
<1>5. C(n) = {i \in 1..n : list[i] = c} /\ C(n) # {}
  OBVIOUS
<1>6. ASSUME w = 0 PROVE D(n) = {}
  <2>1. ASSUME NEW d \in 0..(P - 1) PROVE list[idx[d]] # c
    <3> SUFFICES ASSUME list[idx[d]] = c PROVE FALSE
      OBVIOUS
    <3> DEFINE i == idx[d]
    <3>1. /\ i \in 1..n /\ cum[i - 1] * P <= d * T /\ d * T < cum[i] * P
          /\ cum[i] \in Nat /\ cum[i - 1] \in Nat
      BY DEF DividesDraws
    <3>2. cum[i] = cum[i - 1]
      BY <1>6, <3>1
    <3>3. d * T \in Int /\ cum[i] * P \in Int
      BY <1>0, <3>1
    <3> QED BY <3>1, <3>2, <3>3
  <2> QED BY <1>4, <2>1
<1> DEFINE x == Cardinality(D(n))
           y == Cardinality(C(n))
           error == x * T - P * (y * w)
<1>7. IsFiniteSet(D(n)) /\ IsFiniteSet(C(n))
      /\ error <= y * (T - 1) /\ -error <= y * (T - 1)
  BY <1>3 DEF S
<1>8. x \in Nat /\ y \in Nat /\ y # 0 /\ (w = 0 => x = 0)
  <2> HIDE DEF D, C
  <2> QED BY <1>5, <1>6, <1>7, FS_CardinalityType, FS_EmptySet
<1>9. error < y * T /\ -error < y * T /\ (y * w = 0 => x = 0)
  <2> HIDE DEF x, y, T
  <2>1. /\ y * T = y * (T - 1) + y /\ y * (T - 1) \in Int
        /\ x * T \in Int /\ P * (y * w) \in Int
    BY <1>0, <1>8
  <2>2. y * w = 0 => w = 0
    BY <1>8
  <2> QED BY <1>7, <1>8, <2>1, <2>2
<1> QED BY <1>4, <1>5, <1>9 DEF FairlyDrawn

LEMMA LeastOf ==
  ASSUME NEW S \in SUBSET Nat, S # {}
  PROVE  Min(S) \in S /\ \A x \in S : Min(S) <= x
<1>1. PICK x \in S : \A y \in S : ~(<<y, x>> \in {p \in Nat \X Nat : p[1] < p[2]})
  BY NatOrder, WFMin, Zenon
<1>2. \A y \in S : x <= y
  <2> SUFFICES ASSUME NEW y \in S PROVE x <= y
    OBVIOUS
  <2>1. x \in Nat /\ y \in Nat
    OBVIOUS
  <2>2. ~(y < x)
    BY <1>1, <2>1
  <2> QED BY <2>1, <2>2
<1> QED BY <1>2 DEF Min

\* What RunPlanAssumption says of a pool.
IsPool(pool) ==
    /\ IsList(pool.candidates)
    /\ \A candidate \in DOMAIN pool.weights : pool.weights[candidate] \in Int

LEMMA CumulativeSteps ==
  ASSUME NEW pool, Len(pool.candidates) \in Nat
  PROVE  \E sum : /\ \A n \in 0..Len(pool.candidates) : Cumulative(pool, n) = sum[n]
                  /\ sum[0] = 0
                  /\ \A k \in 1..Len(pool.candidates) :
                        sum[k] = sum[k - 1] + Weight(pool, pool.candidates[k])
<1> DEFINE L == Len(pool.candidates)
           W(k) == Weight(pool, pool.candidates[k])
           F(g, k) == [n \in 0..k |-> IF n = 0 THEN 0 ELSE g[n - 1] + W(n)]
           S == {k \in Nat : \E g : g = F(g, k)}
           sum == CHOOSE g : g = F(g, L)
<1>2. 0 \in S
  <2> DEFINE g == [n \in 0..0 |-> 0]
  <2>1. g = F(g, 0)
    OBVIOUS
  <2> HIDE DEF g
  <2> QED BY <2>1
<1>3. ASSUME NEW k \in Nat, k \in S PROVE k + 1 \in S
  <2>1. PICK g : g = F(g, k)
    BY <1>3
  <2> HIDE DEF W
  <2> DEFINE h == [n \in 0..(k + 1) |-> IF n <= k THEN g[n] ELSE g[n - 1] + W(n)]
  <2>2. \A n \in 0..(k + 1) : h[n] = IF n = 0 THEN 0 ELSE h[n - 1] + W(n)
    <3> SUFFICES ASSUME NEW n \in 0..(k + 1)
                 PROVE  h[n] = IF n = 0 THEN 0 ELSE h[n - 1] + W(n)
      OBVIOUS
    <3>1. CASE n <= k
      BY <2>1, <3>1
    <3>2. CASE n = k + 1
      BY <3>2
    <3> QED BY <3>1, <3>2
  <2>3. h = [n \in 0..(k + 1) |-> h[n]]
    OBVIOUS
  <2> HIDE DEF h
  <2>4. h = F(h, k + 1)
    BY <2>2, <2>3
  <2>5. k + 1 \in Nat
    OBVIOUS
  <2> HIDE DEF F
  <2> QED BY <2>4, <2>5
<1> HIDE DEF S
<1>4. L \in S
  BY <1>2, <1>3, Induction
<1>5. \A n \in 0..L : Cumulative(pool, n) = sum[n]
  BY DEF Cumulative
<1> HIDE DEF sum, W
<1>6. sum = F(sum, L)
  <2>1. \E g : g = F(g, L)
    BY <1>4 DEF S
  <2> HIDE DEF F
  <2> QED BY <2>1 DEF sum
<1>7. sum[0] = 0 /\ \A k \in 1..L : sum[k] = sum[k - 1] + W(k)
  BY <1>6
<1> QED BY <1>5, <1>7 DEF W

\* The cumulated weights rise from nothing to more than nothing, each by its
\* candidate's weight.
LEMMA CumulativeFacts ==
  ASSUME NEW pool, IsPool(pool), Selectable(pool), pool.selection \in Weighted
  PROVE  LET n == Len(pool.candidates)
             cum == [i \in 0..n |-> Cumulative(pool, i)]
         IN  /\ n \in Nat \ {0}
             /\ \A i \in 0..n : cum[i] \in Nat
             /\ cum[0] = 0 /\ cum[n] > 0
             /\ \A i \in 1..n : /\ Weight(pool, pool.candidates[i]) \in Nat
                                /\ cum[i] - cum[i - 1] = Weight(pool, pool.candidates[i])
                                /\ cum[i - 1] <= cum[i]
<1> DEFINE n == Len(pool.candidates)
           W(i) == Weight(pool, pool.candidates[i])
           S == {k \in Nat : k <= n => Cumulative(pool, k) \in Nat}
<1>1. /\ n \in Nat /\ n # 0
      /\ ToSet(pool.candidates) = {pool.candidates[i] : i \in 1..n}
  BY ListFacts, Nothing DEF IsPool, Selectable
<1>2. \A i \in 1..n : W(i) \in Int
  BY <1>1 DEF Weight, IsPool
<1>3. /\ \A i \in 1..n : W(i) >= 0
      /\ \E i \in 1..n : W(i) > 0
  BY <1>1 DEF Selectable
<1> HIDE DEF W
<1>4. PICK sum : /\ \A i \in 0..n : Cumulative(pool, i) = sum[i]
                 /\ sum[0] = 0
                 /\ \A k \in 1..n : sum[k] = sum[k - 1] + W(k)
  BY <1>1, CumulativeSteps DEF W
<1> DEFINE R == {k \in Nat : k <= n => sum[k] \in Nat}
<1> HIDE DEF n
<1>5. 0 \in R
  BY <1>4
<1>6. ASSUME NEW k \in Nat, k \in R PROVE k + 1 \in R
  <2> SUFFICES ASSUME k + 1 <= n PROVE sum[k + 1] \in Nat
    OBVIOUS
  <2>1. k + 1 \in 1..n /\ (k + 1) - 1 = k /\ k <= n
    BY <1>1
  <2>2. sum[k + 1] = sum[k] + W(k + 1)
    BY <1>4, <2>1
  <2> QED BY <1>2, <1>3, <1>6, <2>1, <2>2
<1> HIDE DEF R
<1>7. \A i \in 0..n : sum[i] \in Nat
  <2>1. \A i \in Nat : i \in R
    BY <1>5, <1>6, Induction
  <2> QED BY <1>1, <2>1 DEF R
<1>8. \A i \in 1..n : /\ W(i) \in Nat /\ sum[i] - sum[i - 1] = W(i) /\ sum[i - 1] <= sum[i]
                      /\ sum[i] \in Nat /\ sum[i - 1] \in Nat
  <2> SUFFICES ASSUME NEW i \in 1..n
               PROVE  /\ W(i) \in Nat /\ sum[i] - sum[i - 1] = W(i)
                      /\ sum[i - 1] <= sum[i] /\ sum[i] \in Nat /\ sum[i - 1] \in Nat
    OBVIOUS
  <2>1. i - 1 \in 0..n /\ i \in 0..n
    BY <1>1
  <2>2. sum[i] \in Nat /\ sum[i - 1] \in Nat /\ sum[i] = sum[i - 1] + W(i)
    BY <1>4, <1>7, <2>1
  <2> QED BY <1>2, <1>3, <2>2
<1>9. sum[n] > 0
  <2>1. PICK i \in 1..n : W(i) > 0
    BY <1>3
  <2>2. sum[i] > 0
    BY <1>8, <2>1
  <2>3. i \in 0..n /\ n \in 0..n /\ i <= n
    BY <1>1
  <2>4. \A j, k \in 0..n : j <= k => sum[j] <= sum[k]
    BY <1>1, <1>7, <1>8, Rising
  <2>5. sum[i] <= sum[n] /\ sum[i] \in Nat /\ sum[n] \in Nat
    BY <1>7, <2>3, <2>4
  <2> QED BY <2>2, <2>5
<1> DEFINE cum == [i \in 0..n |-> Cumulative(pool, i)]
<1>10. \A i \in 0..n : cum[i] = sum[i]
  BY <1>4
<1>11. 0 \in 0..n /\ n \in 0..n /\ \A i \in 1..n : i - 1 \in 0..n /\ i \in 0..n
  BY <1>1
<1> HIDE DEF cum
<1>12. /\ n \in Nat \ {0}
       /\ \A i \in 0..n : cum[i] \in Nat
       /\ cum[0] = 0 /\ cum[n] > 0
       /\ \A i \in 1..n : W(i) \in Nat /\ cum[i] - cum[i - 1] = W(i) /\ cum[i - 1] <= cum[i]
  BY <1>1, <1>4, <1>7, <1>8, <1>9, <1>10, <1>11
<1> QED BY <1>12 DEF n, cum, W

\* A weighted draw falls into the part of the selected candidate.
LEMMA WeightedDivides ==
  ASSUME NEW pool, IsPool(pool), Selectable(pool), pool.selection \in Weighted
  PROVE  LET n == Len(pool.candidates)
         IN  DividesDraws(Precision, n, [i \in 0..n |-> Cumulative(pool, i)],
                          [d \in 0..(Precision - 1) |-> WeightedIndex(pool, d)])
<1> DEFINE n == Len(pool.candidates)
           P == Precision
           cum == [i \in 0..n |-> Cumulative(pool, i)]
           T == cum[n]
           idx == [d \in 0..(P - 1) |-> WeightedIndex(pool, d)]
           passed(d) == {i \in 1..n : d * T < cum[i] * P}
<1>1. /\ n \in Nat \ {0}
      /\ \A i \in 0..n : cum[i] \in Nat
      /\ cum[0] = 0 /\ T > 0
      /\ \A i \in 1..n : cum[i - 1] <= cum[i]
  BY CumulativeFacts
<1>2. P \in Nat \ {0}
  BY PrecisionAssumption
<1>3. \A d \in 0..(P - 1) : idx[d] = IF passed(d) = {} THEN n ELSE Min(passed(d))
  <2>1. T = Cumulative(pool, n) /\ \A i \in 1..n : cum[i] = Cumulative(pool, i)
    BY <1>1
  <2> SUFFICES ASSUME NEW d \in 0..(P - 1)
               PROVE  idx[d] = IF passed(d) = {} THEN n ELSE Min(passed(d))
    OBVIOUS
  <2>2. passed(d) = {i \in 1..n : d * Cumulative(pool, n) < Cumulative(pool, i) * P}
    <3> HIDE DEF cum, T, n, P
    <3> QED BY <2>1
  <2>3. idx[d] = WeightedIndex(pool, d)
    OBVIOUS
  <2> HIDE DEF passed, idx
  <2> QED BY <2>2, <2>3 DEF WeightedIndex
<1> HIDE DEF n, P, cum, idx, T
<1>4. \A i, j \in 0..n : i <= j => cum[i] <= cum[j]
  BY <1>1, Rising
<1>5. T \in Nat /\ T = cum[n] /\ \A i \in 1..n : i - 1 \in 0..n /\ i \in 0..n
  BY <1>1 DEF T
<1>6. ASSUME NEW d \in 0..(P - 1)
      PROVE  /\ idx[d] \in 1..n /\ idx[d] \in passed(d)
             /\ \A i \in passed(d) : idx[d] <= i
  <2>1. d * T < T * P
    <3>1. d + 1 \in Int /\ d + 1 <= P /\ P \in Int
      BY <1>2
    <3>2. (d + 1) * T <= P * T /\ (d + 1) * T = d * T + T
      BY <1>5, <3>1, Products
    <3>3. d * T \in Int /\ P * T \in Int /\ P * T = T * P
      BY <1>2, <1>5
    <3> QED BY <1>1, <1>5, <3>2, <3>3
  <2>2. n \in passed(d)
    BY <1>1, <1>5, <2>1
  <2>3. passed(d) # {} /\ passed(d) \in SUBSET Nat /\ passed(d) \subseteq 1..n
    BY <2>2
  <2>4. idx[d] = Min(passed(d))
    BY <1>3, <2>3
  <2> HIDE DEF passed
  <2> QED BY <2>3, <2>4, LeastOf
<1>7. ASSUME NEW d \in 0..(P - 1), NEW i \in 1..n
      PROVE  idx[d] = i <=> cum[i - 1] * P <= d * T /\ d * T < cum[i] * P
  <2>1. /\ cum[i - 1] \in Nat /\ cum[i] \in Nat /\ cum[i - 1] * P \in Nat /\ cum[i] * P \in Nat
        /\ d * T \in Nat
    BY <1>1, <1>2, <1>5, Products
  <2>2. ASSUME idx[d] = i PROVE cum[i - 1] * P <= d * T /\ d * T < cum[i] * P
    <3>1. d * T < cum[i] * P
      BY <1>6, <2>2
    <3>2. CASE i = 1
      <4>1. cum[i - 1] * P = 0
        BY <1>1, <1>2, <3>2
      <4> QED BY <2>1, <3>1, <4>1
    <3>3. CASE i # 1
      <4>1. i - 1 \in 1..n /\ ~(i <= i - 1)
        BY <1>1, <3>3
      <4>2. i - 1 \notin passed(d)
        <5> HIDE DEF passed
        <5> QED BY <1>6, <2>2, <4>1
      <4>3. ~(d * T < cum[i - 1] * P)
        BY <4>1, <4>2
      <4> QED BY <2>1, <3>1, <4>3
    <3> QED BY <3>2, <3>3
  <2>3. ASSUME cum[i - 1] * P <= d * T, d * T < cum[i] * P PROVE idx[d] = i
    <3> DEFINE j == idx[d]
    <3>1. j \in 1..n /\ j \in passed(d) /\ j <= i
      BY <1>6, <2>3
    <3>2. SUFFICES ASSUME j < i PROVE FALSE
      BY <3>1
    <3>3. j \in 0..n /\ i - 1 \in 0..n /\ j <= i - 1
      BY <1>5, <3>1, <3>2
    <3>4. cum[j] <= cum[i - 1] /\ cum[j] \in Nat
      BY <1>1, <1>4, <3>3
    <3>5. cum[j] * P <= cum[i - 1] * P /\ cum[j] * P \in Nat
      BY <1>2, <2>1, <3>4, Products
    <3>6. d * T < cum[j] * P
      BY <3>1
    <3> QED BY <2>1, <2>3, <3>5, <3>6
  <2> QED BY <2>2, <2>3
<1>8. DividesDraws(P, n, cum, idx)
  BY <1>1, <1>5, <1>6, <1>7 DEF DividesDraws
<1> QED BY <1>8 DEF n, P, cum, idx

\* A uniform draw falls into one of n equal parts.
LEMMA UniformDivides ==
  ASSUME NEW pool, Len(pool.candidates) \in Nat \ {0}
  PROVE  LET n == Len(pool.candidates)
         IN  DividesDraws(Precision, n, [i \in 0..n |-> i],
                          [d \in 0..(Precision - 1) |-> UniformIndex(pool, d)])
<1> DEFINE n == Len(pool.candidates)
           P == Precision
           cum == [i \in 0..n |-> i]
           idx == [d \in 0..(P - 1) |-> UniformIndex(pool, d)]
           q(d) == (d * n) \div P
<1>1. P \in Nat \ {0} /\ n \in Nat \ {0}
  BY PrecisionAssumption
<1>2. \A d \in 0..(P - 1) : idx[d] = 1 + Min({q(d), n - 1})
  BY DEF UniformIndex
<1>3. /\ \A i \in 0..n : cum[i] = i
      /\ cum[n] = n
      /\ \A i \in 1..n : cum[i - 1] = i - 1 /\ cum[i] = i
  BY <1>1
<1> HIDE DEF n, P, cum, idx
<1>4. ASSUME NEW d \in 0..(P - 1)
      PROVE  /\ q(d) \in Nat /\ q(d) * P <= d * n /\ d * n < (q(d) + 1) * P
             /\ q(d) < n
  <2>1. d * n \in Nat
    BY <1>1
  <2> DEFINE m == d * n
  <2>2. \A x \in Nat : /\ x \div P \in Nat /\ (x \div P) * P <= x
                       /\ x < (x \div P + 1) * P
    BY <1>1
  <2>3. q(d) \in Nat /\ q(d) * P <= m /\ m < (q(d) + 1) * P
    <3> HIDE DEF m
    <3>1. m \in Nat /\ q(d) = m \div P
      BY <2>1 DEF m
    <3> QED BY <2>2, <3>1
  <2> HIDE DEF q
  <2>4. d * n < n * P
    <3>1. d + 1 \in Int /\ d + 1 <= P /\ P \in Int
      BY <1>1
    <3>2. (d + 1) * n <= P * n /\ (d + 1) * n = d * n + n
      BY <1>1, <3>1, Products
    <3>3. d * n \in Int /\ P * n \in Int /\ P * n = n * P
      BY <1>1
    <3> QED BY <1>1, <3>2, <3>3
  <2>5. q(d) * P < n * P
    <3>1. q(d) * P \in Int /\ n * P \in Int
      BY <1>1, <2>3
    <3> QED BY <2>1, <2>3, <2>4, <3>1
  <2>6. q(d) < n
    BY <1>1, <2>3, <2>5, Products
  <2> QED BY <2>3, <2>6
<1> HIDE DEF q
<1>5. ASSUME NEW d \in 0..(P - 1) PROVE idx[d] = q(d) + 1
  <2>1. q(d) \in Nat /\ q(d) <= n - 1 /\ n - 1 \in Nat
    BY <1>1, <1>4
  <2> DEFINE S == {q(d), n - 1}
  <2>2. S \in SUBSET Nat /\ S # {}
    BY <2>1
  <2>3. Min(S) \in S /\ \A x \in S : Min(S) <= x
    <3> HIDE DEF S
    <3> QED BY <2>2, LeastOf
  <2>4. Min(S) = q(d)
    BY <2>1, <2>3
  <2> QED BY <1>2, <2>1, <2>4
<1>6. ASSUME NEW d \in 0..(P - 1), NEW i \in 1..n
      PROVE  idx[d] = i <=> (i - 1) * P <= d * n /\ d * n < i * P
  <2>1. /\ idx[d] = q(d) + 1 /\ q(d) \in Nat
        /\ q(d) * P <= d * n /\ d * n < (q(d) + 1) * P
    BY <1>4, <1>5
  <2>2. d * n \in Int /\ (i - 1) * P \in Int /\ i * P \in Int /\ q(d) * P \in Int
        /\ (q(d) + 1) * P \in Int
    BY <1>1, <2>1
  <2>3. ASSUME q(d) + 1 = i PROVE (i - 1) * P <= d * n /\ d * n < i * P
    <3>1. i - 1 = q(d)
      BY <2>1, <2>3
    <3> QED BY <2>1, <2>3, <3>1
  <2>4. ASSUME (i - 1) * P <= d * n, d * n < i * P PROVE q(d) + 1 = i
    <3>1. q(d) * P < i * P /\ (i - 1) * P < (q(d) + 1) * P
      BY <2>1, <2>2, <2>4
    <3>2. q(d) < i /\ i - 1 < q(d) + 1
      BY <1>1, <2>1, <3>1, Products
    <3> QED BY <2>1, <3>2
  <2> QED BY <2>1, <2>3, <2>4
<1>7. \A d \in 0..(P - 1) : idx[d] \in 1..n
  BY <1>1, <1>4, <1>5
<1>8. DividesDraws(P, n, cum, idx)
  BY <1>1, <1>3, <1>6, <1>7 DEF DividesDraws
<1> QED BY <1>8 DEF n, P, cum, idx

\* Each candidate of a pool from which a model can be drawn is drawn by its
\* share, whatever the strategy, the candidates, the weights and the
\* denominator of the draws; the draw that is rounded to one takes the last.
LEMMA PoolIsProportional ==
  ASSUME NEW pool, IsPool(pool), Selectable(pool)
  PROVE  ProportionalDraws(pool)
<1> DEFINE list == pool.candidates
           n == Len(list)
           P == Precision
           drawn(c) == Cardinality({d \in 0..(P - 1) : list[SelectedIndex(pool, d)] = c})
           copies(c) == Cardinality({i \in 1..n : list[i] = c})
           Fair(c, of, part) ==
              LET error == drawn(c) * of - P * part
              IN  /\ error < copies(c) * of /\ -error < copies(c) * of
                  /\ part = 0 => drawn(c) = 0
<1>1. /\ n \in Nat \ {0} /\ ToSet(list) = {list[i] : i \in 1..n}
      /\ list # << >> /\ Head(list) = list[1]
  BY ListFacts, Nothing DEF IsPool, Selectable
<1>2. P \in Nat \ {0}
  BY PrecisionAssumption
<1>3. First \cap Uniform = {} /\ First \cap Weighted = {} /\ Uniform \cap Weighted = {}
  BY DEF First, Uniform, Weighted
<1>4. CASE pool.selection \in First
  <2>1. \A d : SelectedIndex(pool, d) = 1
    BY <1>3, <1>4 DEF SelectedIndex
  <2>2. ASSUME NEW c \in ToSet(list)
        PROVE  Fair(c, 1, IF c = Head(list) THEN 1 ELSE 0)
    <3> DEFINE D == {d \in 0..(P - 1) : list[SelectedIndex(pool, d)] = c}
               C == {i \in 1..n : list[i] = c}
    <3>1. IsFiniteSet(C) /\ C # {}
      <4>1. IsFiniteSet(1..n)
        BY <1>1, FS_Interval
      <4> QED BY <1>1, <4>1, FS_Subset
    <3>2. Cardinality(C) \in Nat /\ Cardinality(C) >= 1
      <4> HIDE DEF C
      <4> QED BY <3>1, FS_CardinalityType, FS_EmptySet
    <3>3. Cardinality(D) = IF c = Head(list) THEN P ELSE 0
      <4>1. Cardinality(0..(P - 1)) = P
        <5> DEFINE m == P - 1
        <5>1. 0 \in Int /\ m \in Int /\ ~(0 > m) /\ m - 0 + 1 = P
          BY <1>2
        <5> HIDE DEF m
        <5>2. Cardinality(0..m) = IF 0 > m THEN 0 ELSE m - 0 + 1
          BY <5>1, FS_Interval
        <5> QED BY <5>1, <5>2 DEF m
      <4>2. D = IF c = Head(list) THEN 0..(P - 1) ELSE {}
        BY <1>1, <2>1
      <4> HIDE DEF D, list
      <4> QED BY <4>1, <4>2, FS_EmptySet
    <3> HIDE DEF D, C
    <3>4. drawn(c) = Cardinality(D) /\ copies(c) = Cardinality(C)
      BY DEF D, C
    <3> HIDE DEF drawn, copies, P, list
    <3> QED BY <1>2, <3>2, <3>3, <3>4
  <2>3. SelectedIndex(pool, P) \in 1..n
    BY <1>1, <2>1
  <2> QED BY <1>3, <1>4, <2>2, <2>3 DEF ProportionalDraws
<1>5. CASE pool.selection \in Uniform
  <2>1. \A d : SelectedIndex(pool, d) = UniformIndex(pool, d)
    BY <1>3, <1>5 DEF SelectedIndex
  <2> DEFINE cum == [i \in 0..n |-> i]
             idx == [d \in 0..(P - 1) |-> UniformIndex(pool, d)]
  <2>2. DividesDraws(P, n, cum, idx)
    BY <1>1, UniformDivides
  <2>3. cum[n] = n /\ \A i \in 1..n : cum[i] - cum[i - 1] = 1
    BY <1>1
  <2>4. ASSUME NEW c \in ToSet(list) PROVE Fair(c, n, copies(c))
    <3>1. \E i \in 1..n : list[i] = c
      BY <1>1
    <3> DEFINE drawn2 == Cardinality({d \in 0..(P - 1) : list[idx[d]] = c})
    <3>2. drawn(c) = drawn2
      <4>1. {d \in 0..(P - 1) : list[SelectedIndex(pool, d)] = c}
              = {d \in 0..(P - 1) : list[idx[d]] = c}
        BY <2>1
      <4> QED BY <4>1
    <3>3. FairlyDrawn(P, n, cum, idx, list, c, 1)
      <4> HIDE DEF cum, idx, n, list, P
      <4>1. 1 \in Nat /\ n \in Nat
        BY <1>1
      <4> QED BY <1>2, <2>2, <2>3, <3>1, <4>1, FairDraws
    <3>5. LET error == drawn2 * cum[n] - P * (copies(c) * 1)
          IN  /\ error < copies(c) * cum[n] /\ -error < copies(c) * cum[n]
              /\ copies(c) * 1 = 0 => drawn2 = 0
      BY <3>3 DEF FairlyDrawn
    <3>4. copies(c) * 1 = copies(c)
      <4>1. IsFiniteSet(1..n)
        BY <1>1, FS_Interval
      <4>2. copies(c) \in Nat
        BY <4>1, FS_Subset, FS_CardinalityType
      <4> HIDE DEF copies
      <4> QED BY <4>2
    <3> HIDE DEF drawn, drawn2, copies, cum, P, list, n
    <3> QED BY <2>3, <3>2, <3>4, <3>5
  <2>5. SelectedIndex(pool, P) = n
    <3>1. (P * n) \div P = n
      <4> DEFINE x == P * n
                 q == x \div P
      <4> HIDE DEF list, P, n
      <4>1. x \in Nat /\ x = n * P
        BY <1>1, <1>2
      <4>2. \A y \in Nat : /\ y \div P \in Nat /\ (y \div P) * P <= y
                           /\ y < (y \div P + 1) * P
        BY <1>2
      <4>3. q \in Nat /\ q * P <= x /\ x < (q + 1) * P
        <5> HIDE DEF x
        <5> QED BY <4>1, <4>2
      <4> HIDE DEF q, x
      <4>4. n < q + 1
        BY <1>1, <1>2, <4>1, <4>3, Products
      <4>5. q * P < (n + 1) * P
        BY <1>1, <1>2, <4>1, <4>3
      <4>6. q < n + 1
        BY <1>1, <1>2, <4>3, <4>5, Products
      <4>7. q = n
        BY <1>1, <4>3, <4>4, <4>6
      <4> QED BY <4>7 DEF q, x
    <3> DEFINE S == {(P * n) \div P, n - 1}
    <3>2. S \in SUBSET Nat /\ S # {}
      BY <1>1, <3>1
    <3>3. Min(S) \in S /\ \A x \in S : Min(S) <= x
      <4> HIDE DEF S
      <4> QED BY <3>2, LeastOf
    <3>4. Min(S) = n - 1
      BY <1>1, <3>1, <3>3
    <3>5. SelectedIndex(pool, P) = 1 + Min(S)
      BY <2>1 DEF UniformIndex
    <3> QED BY <1>1, <3>4, <3>5
  <2>6. n \in 1..n
    BY <1>1
  <2> QED BY <1>3, <1>5, <2>4, <2>5, <2>6 DEF ProportionalDraws
<1>6. CASE pool.selection \in Weighted
  <2>1. \A d : SelectedIndex(pool, d) = WeightedIndex(pool, d)
    BY <1>3, <1>6 DEF SelectedIndex
  <2> DEFINE cum == [i \in 0..n |-> Cumulative(pool, i)]
             idx == [d \in 0..(P - 1) |-> WeightedIndex(pool, d)]
  <2>2. DividesDraws(P, n, cum, idx)
    BY <1>6, WeightedDivides
  <2>3. /\ cum[n] = Cumulative(pool, n)
        /\ \A i \in 0..n : cum[i] \in Nat /\ cum[i] = Cumulative(pool, i)
        /\ \A i \in 1..n : /\ Weight(pool, list[i]) \in Nat
                           /\ cum[i] - cum[i - 1] = Weight(pool, list[i])
                           /\ cum[i - 1] <= cum[i]
    <3>1. \A i \in 0..n : cum[i] = Cumulative(pool, i)
      OBVIOUS
    <3>2. n \in 0..n
      BY <1>1
    <3>3. /\ \A i \in 0..n : cum[i] \in Nat
          /\ \A i \in 1..n : /\ Weight(pool, list[i]) \in Nat
                             /\ cum[i] - cum[i - 1] = Weight(pool, list[i])
                             /\ cum[i - 1] <= cum[i]
      BY <1>6, CumulativeFacts
    <3> HIDE DEF cum, n
    <3> QED BY <3>1, <3>2, <3>3
  <2>4. ASSUME NEW c \in ToSet(list)
        PROVE  Fair(c, Cumulative(pool, n), copies(c) * Weight(pool, c))
    <3>1. \E i \in 1..n : list[i] = c
      BY <1>1
    <3> DEFINE w == Weight(pool, c)
    <3>2. w \in Nat /\ \A i \in 1..n : list[i] = c => cum[i] - cum[i - 1] = w
      BY <2>3, <3>1
    <3> DEFINE drawn2 == Cardinality({d \in 0..(P - 1) : list[idx[d]] = c})
    <3>3. drawn(c) = drawn2
      <4>1. {d \in 0..(P - 1) : list[SelectedIndex(pool, d)] = c}
              = {d \in 0..(P - 1) : list[idx[d]] = c}
        BY <2>1
      <4> QED BY <4>1
    <3>4. FairlyDrawn(P, n, cum, idx, list, c, w)
      <4> HIDE DEF cum, idx, n, list, P, w
      <4>1. n \in Nat
        BY <1>1
      <4> QED BY <1>2, <2>2, <3>1, <3>2, <4>1, FairDraws
    <3>5. LET error == drawn2 * cum[n] - P * (copies(c) * w)
          IN  /\ error < copies(c) * cum[n] /\ -error < copies(c) * cum[n]
              /\ copies(c) * w = 0 => drawn2 = 0
      BY <3>4 DEF FairlyDrawn
    <3> HIDE DEF drawn, drawn2, copies, cum, P, list, n
    <3> QED BY <2>3, <3>3, <3>5 DEF w
  <2>5. SelectedIndex(pool, P) = n
    <3> DEFINE passed == {i \in 1..n : P * Cumulative(pool, n) < Cumulative(pool, i) * P}
    <3>1. ASSUME NEW i \in 1..n PROVE i \notin passed
      <4> DEFINE x == Cumulative(pool, i)
                 y == Cumulative(pool, n)
      <4>1. /\ \A j \in 0..n : cum[j] \in Nat
            /\ \A j \in 1..n : cum[j - 1] <= cum[j]
        BY <2>3
      <4>2. \A j, k \in 0..n : j <= k => cum[j] <= cum[k]
        <5> HIDE DEF cum, n
        <5> QED BY <1>1, <4>1, Rising
      <4>3. i \in 0..n /\ n \in 0..n /\ i <= n
        BY <1>1
      <4>4. x \in Nat /\ y \in Nat /\ x <= y
        <5> HIDE DEF cum, n
        <5> QED BY <2>3, <4>2, <4>3
      <4>5. x * P <= y * P /\ x * P \in Int /\ y * P \in Int /\ P * y = y * P
        <5> HIDE DEF x, y, P
        <5> QED BY <1>2, <4>4, Products
      <4>6. ~(P * y < x * P)
        <5> HIDE DEF x, y, P
        <5> QED BY <4>5
      <4> QED BY <4>6
    <3>2. passed = {}
      BY <3>1
    <3> QED BY <2>1, <3>2 DEF WeightedIndex
  <2>6. n \in 1..n
    BY <1>1
  <2>7. pool.selection \notin First /\ pool.selection \notin Uniform
    BY <1>3, <1>6
  <2> QED BY <2>4, <2>5, <2>6, <2>7 DEF ProportionalDraws
<1> QED BY <1>4, <1>5, <1>6 DEF Selectable

\* Every run draws its models and endpoints in proportion to their weights,
\* and never one of weight zero, for pools of any size, any integer weights
\* and a hash of any width (_weighted_index).
THEOREM DrawsFollowTheWeights == PlanSpec => []DrawsAreProportional
<1>1. ASSUME PlanInv PROVE DrawsAreProportional
  <2> SUFFICES ASSUME NEW role \in DOMAIN run.pools, Selectable(run.pools[role])
               PROVE  ProportionalDraws(run.pools[role])
    BY DEF DrawsAreProportional
  <2>1. IsPool(run.pools[role])
    BY <1>1, RunPlanAssumption DEF PlanInv, IsPool, IsList
  <2> QED BY <2>1, PoolIsProportional
<1> QED BY <1>1, SeedingInvariant, PTL
=============================================================================
