---------------------------- MODULE SeedingProofs ----------------------------
(***************************************************************************)
(* Theorems about Seeding: for every plan that lists stages after their    *)
(* parents, every number of planners, runners and crashes, the store holds *)
(* no stage without its parents and lists every stage after them, a        *)
(* planner that returned has left nothing out, and what planners and       *)
(* runners do to the store is what LeaseStore allows.                      *)
(***************************************************************************)
EXTENDS Seeding, LeaseStoreProofs

(***************************************************************************)
(* The inductive invariant.  RowsParentClosed is not inductive: that the   *)
(* parents of the stage about to be inserted are there follows from where  *)
(* the planner stands in the plan, and that they are listed before it from *)
(* their having been seen when created_at was read.                        *)
(***************************************************************************)
PlannerTypeOK ==
    /\ step \in [Planners -> {"lookup", "insert", "raised", "seeded"}]
    /\ next \in [Planners -> Nat]
    /\ seen \in [Planners -> SUBSET Hashes]

\* Where a planner stands in the plan: within it until it has returned, then
\* behind its last stage; what lies before is in the store.
PlannerStands(p) ==
    /\ IF step[p] = "seeded" THEN next[p] > Len(Plan) ELSE next[p] \in DOMAIN Plan
    /\ \A j \in DOMAIN Plan : j < next[p] => Plan[j] \in Rows
    /\ step[p] = "insert" =>
          seen[p] \subseteq Rows /\ Parents[Plan[next[p]]] \subseteq seen[p]

\* The claim query's order has every row.
RowsListed == \A h \in Rows : \E i \in DOMAIN order : order[i] = h

SeedInv ==
    /\ StoreTypeOK
    /\ PlannerTypeOK
    /\ \A p \in Planners : PlannerStands(p)
    /\ RowsListed
    /\ RowsParentClosed
    /\ ParentsListedFirst

-----------------------------------------------------------------------------
\* Where the elements are after an element has been inserted.
LEMMA InsertAtElements ==
    ASSUME NEW S, NEW s \in Seq(S), NEW e \in S, NEW i \in 1..(Len(s) + 1)
    PROVE  /\ DOMAIN InsertAt(s, i, e) = 1..(Len(s) + 1)
           /\ \A j \in 1..(Len(s) + 1) : InsertAt(s, i, e)[j] =
                 IF j < i THEN s[j] ELSE IF j = i THEN e ELSE s[j - 1]
<1> DEFINE front == SubSeq(s, 1, i - 1)
           back  == SubSeq(s, i, Len(s))
<1>1. /\ front \in Seq(S) /\ Len(front) = i - 1
      /\ \A j \in 1..(i - 1) : front[j] = s[j]
  <2>1. \A j \in 1..(i - 1) : s[j] \in S
    OBVIOUS
  <2> QED BY <2>1, SubSeqProperties, i - 1 \in Int
<1>2. /\ back \in Seq(S) /\ Len(back) = Len(s) - i + 1
      /\ \A j \in 1..(Len(s) - i + 1) : back[j] = s[i + j - 1]
  <2>1. \A j \in i..Len(s) : s[j] \in S
    OBVIOUS
  <2> QED BY <2>1, SubSeqProperties, Len(s) \in Int
<1>3. <<e>> \in Seq(S) /\ Len(<<e>>) = 1 /\ <<e>>[1] = e
  OBVIOUS
<1> HIDE DEF front, back
<1>4. /\ front \o <<e>> \in Seq(S) /\ Len(front \o <<e>>) = i
      /\ \A j \in 1..(i - 1) : (front \o <<e>>)[j] = s[j]
      /\ (front \o <<e>>)[i] = e
  BY <1>1, <1>3, ConcatProperties
<1> DEFINE both == front \o <<e>>
<1> HIDE DEF both
<1>5. /\ Len(both \o back) = Len(s) + 1
      /\ both \o back \in Seq(S)
      /\ \A j \in 1..i : (both \o back)[j] = both[j]
      /\ \A j \in (i + 1)..(Len(s) + 1) : (both \o back)[j] = back[j - i]
  BY <1>2, <1>4, ConcatProperties DEF both
<1>6. \A j \in (i + 1)..(Len(s) + 1) : back[j - i] = s[j - 1]
  BY <1>2
<1>7. InsertAt(s, i, e) = both \o back
  BY DEF InsertAt, both, front, back
<1> QED BY <1>4, <1>5, <1>6, <1>7 DEF both

LEMMA InitSeedInv == SeedInit => SeedInv
<1> SUFFICES ASSUME SeedInit PROVE SeedInv
  OBVIOUS
<1> USE StoreAssumption, PlanAssumption
<1>1. StoreTypeOK
  BY InitIInv DEF SeedInit, IInv
<1>2. Plan \in Seq(Hashes) /\ Len(Plan) \in Nat
  OBVIOUS
<1>3. PlannerTypeOK
  BY DEF SeedInit, PlannerTypeOK, Begun
<1>4. \A p \in Planners : PlannerStands(p)
  <2> SUFFICES ASSUME NEW p \in Planners PROVE PlannerStands(p)
    OBVIOUS
  <2>1. step[p] = Begun /\ next[p] = 1
    BY DEF SeedInit
  <2>2. Plan # << >> => 1 \in DOMAIN Plan
    BY <1>2
  <2>3. Plan = << >> => 1 > Len(Plan)
    OBVIOUS
  <2> QED BY <1>2, <2>1, <2>2, <2>3 DEF PlannerStands, Begun
<1>5. Rows = {} /\ DOMAIN order = {}
  BY DEF SeedInit, StoreInit, Rows
<1>6. RowsListed /\ RowsParentClosed /\ ParentsListedFirst
  BY <1>5 DEF RowsListed, RowsParentClosed, ParentsListedFirst
<1> QED BY <1>1, <1>3, <1>4, <1>6 DEF SeedInv

\* Runners never add a row, take one out or move one.
LEMMA RunnersKeepRows ==
    ASSUME SeedInv, RunnerStep
    PROVE  Rows' = Rows /\ order' = order
<1>1. StoreTypeOK
  BY DEF SeedInv
<1>2. ASSUME NEW h \in Hashes, NEW r \in Runners, NEW lag \in Lags, Claim(h, r, lag)
      PROVE  Rows' = Rows /\ order' = order
  <2>1. status[h] # "absent"
    BY <1>1, <1>2, FirstRunnableFacts DEF Claim, Selectable
  <2> QED BY <1>1, <1>2, <2>1 DEF Claim, Rows, StoreTypeOK
<1>3. ASSUME NEW h \in Hashes, NEW r \in Runners, NEW lag \in Lags, Heartbeat(h, r, lag)
      PROVE  Rows' = Rows /\ order' = order
  BY <1>3 DEF Heartbeat, Rows
<1>4. ASSUME NEW h \in Hashes, NEW r \in Runners, NEW lag \in Lags,
             NEW retryable \in BOOLEAN, Fail(h, r, retryable, lag)
      PROVE  Rows' = Rows /\ order' = order
  BY <1>1, <1>4 DEF Fail, Leased, Rows, StoreTypeOK
<1>5. ASSUME NEW h \in Hashes, NEW r \in Runners, NEW art \in Artifacts,
             Complete(h, r, art)
      PROVE  Rows' = Rows /\ order' = order
  BY <1>1, <1>5 DEF Complete, Leased, Rows, StoreTypeOK
<1>6. ASSUME NEW lag \in Lags, Reclaim(lag)
      PROVE  Rows' = Rows /\ order' = order
  BY <1>1, <1>6 DEF Reclaim, Expired, Rows, StoreTypeOK
<1>7. Tick => Rows' = Rows /\ order' = order
  BY DEF Tick, Rows
<1> QED BY <1>2, <1>3, <1>4, <1>5, <1>6, <1>7 DEF RunnerStep

\* An insert adds one row and keeps the others.
LEMMA InsertAddsRow ==
    ASSUME StoreTypeOK, NEW h \in Hashes, NEW pos \in Positions, InsertStage(h, pos)
    PROVE  Rows' = Rows \cup {h}
BY DEF InsertStage, Rows, StoreTypeOK

\* What a planner does to the store is nothing or the insert of a stage of
\* the plan behind its parents.
LEMMA PlannerStepStore ==
    ASSUME SeedInv, NEW p \in Planners, PlannerStep(p)
    PROVE  \/ UNCHANGED storeVars
           \/ \E pos \in Positions :
                 /\ step[p] = "insert"
                 /\ Plan[next[p]] \in Hashes
                 /\ InsertStage(Plan[next[p]], pos)
                 /\ \A i \in DOMAIN order : order[i] \in seen[p] => i < pos
                 /\ Parents[Plan[next[p]]] \subseteq seen[p]
                 /\ seen[p] \subseteq Rows
<1>1. Lookup(p) \/ Reseed(p) => UNCHANGED storeVars
  BY DEF Lookup, Reseed
<1>2. CASE Insert(p)
  <2>1. step[p] = "insert" /\ next[p] \in DOMAIN Plan
    BY <1>2 DEF Insert, SeedInv, PlannerStands
  <2>2. Plan[next[p]] \in Hashes
    BY <2>1, PlanAssumption, ElementOfSeq
  <2>3. Parents[Plan[next[p]]] \subseteq seen[p] /\ seen[p] \subseteq Rows
    BY <2>1 DEF SeedInv, PlannerStands
  <2> QED BY <1>2, <2>1, <2>2, <2>3 DEF Insert
<1> QED BY <1>1, <1>2 DEF PlannerStep

\* Every step of the store under planners and runners is one LeaseStore
\* allows its callers.
LEMMA StoreStep == SeedInv /\ [SeedNext]_vars => [StoreNext]_storeVars
<1> SUFFICES ASSUME SeedInv, [SeedNext]_vars PROVE [StoreNext]_storeVars
  OBVIOUS
<1>1. ASSUME NEW p \in Planners, PlannerStep(p) PROVE [StoreNext]_storeVars
  BY <1>1, PlannerStepStore DEF StoreNext
<1>2. RunnerStep => StoreNext
  BY DEF RunnerStep, StoreNext
<1>3. Crash \/ UNCHANGED vars => UNCHANGED storeVars
  BY DEF Crash, vars
<1> QED BY <1>1, <1>2, <1>3 DEF SeedNext

\* An insert lists the new stage behind its parents and moves no stage in
\* front of one of its own.
LEMMA InsertKeepsListing ==
    ASSUME SeedInv, NEW p \in Planners, NEW h \in Hashes, NEW pos \in Positions,
           InsertStage(h, pos), Parents[h] \subseteq seen[p], seen[p] \subseteq Rows,
           \A i \in DOMAIN order : order[i] \in seen[p] => i < pos
    PROVE  RowsListed' /\ RowsParentClosed' /\ ParentsListedFirst'
<1> DEFINE n == Len(order)
           at(i) == IF i < pos THEN i ELSE i + 1  \* where row i is afterwards
<1>1. order \in Seq(Hashes) /\ n \in Nat /\ DOMAIN order = 1..n /\ pos \in 1..(n + 1)
  BY DEF SeedInv, StoreTypeOK, Positions
<1>2. Rows' = Rows \cup {h}
  BY InsertAddsRow DEF SeedInv
<1>3. /\ DOMAIN order' = 1..(n + 1)
      /\ \A j \in 1..(n + 1) : order'[j] =
            IF j < pos THEN order[j] ELSE IF j = pos THEN h ELSE order[j - 1]
  BY <1>1, InsertAtElements DEF InsertStage
<1> HIDE DEF n
<1>4. \A i \in 1..n : at(i) \in 1..(n + 1) /\ order'[at(i)] = order[i]
  BY <1>1, <1>3
<1>5. order'[pos] = h
  BY <1>1, <1>3
<1>6. \A q \in Rows : \E i \in 1..n : order[i] = q
  BY <1>1 DEF SeedInv, RowsListed
<1>7. RowsListed'
  BY <1>1, <1>2, <1>3, <1>4, <1>5, <1>6 DEF RowsListed
<1>8. RowsParentClosed'
  BY <1>2 DEF SeedInv, RowsParentClosed
<1>9. ParentsListedFirst'
  <2> SUFFICES ASSUME NEW i \in 1..(n + 1), NEW q \in Parents[order'[i]]
               PROVE  \E j \in 1..(n + 1) : j < i /\ order'[j] = q
    BY <1>3 DEF ParentsListedFirst
  <2>1. CASE i = pos
    <3>1. PICK k \in 1..n : order[k] = q
      BY <1>5, <1>6, <2>1
    <3>2. k < pos
      BY <1>1, <1>5, <2>1, <3>1
    <3> QED BY <1>4, <2>1, <3>1, <3>2
  <2>2. CASE i # pos
    <3> DEFINE old == IF i < pos THEN i ELSE i - 1
    <3>1. old \in 1..n /\ order'[i] = order[old] /\ i = at(old)
      BY <1>1, <1>3, <2>2
    <3> HIDE DEF old
    <3>2. PICK k \in 1..n : k < old /\ order[k] = q
      BY <1>1, <3>1 DEF SeedInv, ParentsListedFirst
    <3>3. at(k) < at(old)
      BY <1>1, <3>1, <3>2
    <3> QED BY <1>4, <3>1, <3>2, <3>3
  <2> QED BY <2>1, <2>2
<1> QED BY <1>7, <1>8, <1>9

\* A planner that goes on to its next stage, which every row it passed allows.
LEMMA AdvanceStands ==
    ASSUME SeedInv, NEW p \in Planners, next[p] \in DOMAIN Plan, Advance(p),
           Rows \subseteq Rows', Plan[next[p]] \in Rows'
    PROVE  PlannerTypeOK' /\ \A q \in Planners : PlannerStands(q)'
<1> USE PlanAssumption
<1>1. Len(Plan) \in Nat /\ DOMAIN Plan = 1..Len(Plan)
  OBVIOUS
<1>2. PlannerTypeOK'
  BY DEF SeedInv, PlannerTypeOK, Advance
<1>3. PlannerStands(p)'
  <2>1. /\ next'[p] = next[p] + 1
        /\ step'[p] = IF next[p] < Len(Plan) THEN "lookup" ELSE "seeded"
    BY DEF SeedInv, PlannerTypeOK, Advance
  <2>2. \A j \in DOMAIN Plan : j < next[p] + 1 => Plan[j] \in Rows'
    BY <1>1 DEF SeedInv, PlannerStands
  <2> QED BY <1>1, <2>1, <2>2 DEF PlannerStands
<1>4. ASSUME NEW q \in Planners, q # p PROVE PlannerStands(q)'
  <2>1. step'[q] = step[q] /\ next'[q] = next[q] /\ seen'[q] = seen[q]
    BY <1>4 DEF SeedInv, PlannerTypeOK, Advance
  <2> QED BY <2>1 DEF SeedInv, PlannerStands
<1> QED BY <1>2, <1>3, <1>4

LEMMA LookupSeedInv ==
    ASSUME SeedInv, NEW p \in Planners, Lookup(p)
    PROVE  SeedInv'
<1> USE PlanAssumption
<1>1. next[p] \in DOMAIN Plan /\ step[p] = "lookup"
  BY DEF Lookup, SeedInv, PlannerStands
<1>2. UNCHANGED storeVars /\ Rows' = Rows
  BY DEF Lookup, storeVars, Rows
<1>3. StoreTypeOK' /\ RowsListed' /\ RowsParentClosed' /\ ParentsListedFirst'
  BY <1>2 DEF SeedInv, StoreTypeOK, RowsListed, RowsParentClosed,
              ParentsListedFirst, storeVars
<1>4. CASE Plan[next[p]] \in Rows /\ Advance(p)
  BY <1>1, <1>2, <1>3, <1>4, AdvanceStands DEF SeedInv
<1>5. CASE Plan[next[p]] \notin Rows
  <2>1. /\ step' = [step EXCEPT ![p] = "insert"]
        /\ seen' = [seen EXCEPT ![p] = Rows]
        /\ next' = next
    BY <1>5 DEF Lookup
  <2>2. PlannerTypeOK'
    BY <2>1 DEF SeedInv, PlannerTypeOK, Rows
  <2>3. Parents[Plan[next[p]]] \subseteq Rows
    BY <1>1 DEF SeedInv, PlannerStands
  <2>4. ASSUME NEW q \in Planners PROVE PlannerStands(q)'
    BY <1>1, <1>2, <2>1, <2>3 DEF SeedInv, PlannerTypeOK, PlannerStands
  <2> QED BY <1>3, <2>2, <2>4 DEF SeedInv
<1> QED BY <1>4, <1>5 DEF Lookup

LEMMA InsertSeedInv ==
    ASSUME SeedInv, NEW p \in Planners, Insert(p)
    PROVE  SeedInv'
<1> USE PlanAssumption, StoreAssumption
<1>1. /\ next[p] \in DOMAIN Plan /\ Plan[next[p]] \in Hashes
      /\ Parents[Plan[next[p]]] \subseteq seen[p] /\ seen[p] \subseteq Rows
  <2>1. next[p] \in DOMAIN Plan
    BY DEF Insert, SeedInv, PlannerStands
  <2> QED BY <2>1, ElementOfSeq DEF Insert, SeedInv, PlannerStands
<1>2. CASE /\ \E pos \in Positions :
                /\ \A i \in DOMAIN order : order[i] \in seen[p] => i < pos
                /\ InsertStage(Plan[next[p]], pos)
           /\ Advance(p)
  <2>1. PICK pos \in Positions :
            /\ \A i \in DOMAIN order : order[i] \in seen[p] => i < pos
            /\ InsertStage(Plan[next[p]], pos)
    BY <1>2
  <2>2. StoreTypeOK'
    <3>1. order' \in Seq(Hashes)
      BY <1>1, <2>1, InsertAtType DEF SeedInv, StoreTypeOK, InsertStage, Positions
    <3> QED BY <2>1, <3>1 DEF SeedInv, StoreTypeOK, InsertStage, RowStatus
  <2>3. RowsListed' /\ RowsParentClosed' /\ ParentsListedFirst'
    BY <1>1, <2>1, InsertKeepsListing
  <2>4. Rows' = Rows \cup {Plan[next[p]]}
    BY <1>1, <2>1, InsertAddsRow DEF SeedInv
  <2>5. PlannerTypeOK' /\ \A q \in Planners : PlannerStands(q)'
    BY <1>1, <1>2, <2>4, AdvanceStands
  <2> QED BY <2>2, <2>3, <2>5 DEF SeedInv
<1>3. CASE /\ step' = [step EXCEPT ![p] = "raised"]
           /\ seen' = [seen EXCEPT ![p] = {}]
           /\ UNCHANGED <<storeVars, next>>
  <2>1. Rows' = Rows
    BY <1>3 DEF Rows, storeVars
  <2>2. StoreTypeOK' /\ RowsListed' /\ RowsParentClosed' /\ ParentsListedFirst'
    BY <1>3, <2>1 DEF SeedInv, StoreTypeOK, RowsListed, RowsParentClosed,
                      ParentsListedFirst, storeVars
  <2>3. PlannerTypeOK'
    BY <1>3 DEF SeedInv, PlannerTypeOK
  <2>4. ASSUME NEW q \in Planners PROVE PlannerStands(q)'
    BY <1>1, <1>3, <2>1 DEF SeedInv, PlannerTypeOK, PlannerStands
  <2> QED BY <2>2, <2>3, <2>4 DEF SeedInv
<1> QED BY <1>2, <1>3 DEF Insert

LEMMA ReseedSeedInv ==
    ASSUME SeedInv, NEW p \in Planners, Reseed(p)
    PROVE  SeedInv'
<1> USE PlanAssumption
<1>1. UNCHANGED storeVars /\ Rows' = Rows
  BY DEF Reseed, storeVars, Rows
<1>2. StoreTypeOK' /\ RowsListed' /\ RowsParentClosed' /\ ParentsListedFirst'
  BY <1>1 DEF SeedInv, StoreTypeOK, RowsListed, RowsParentClosed,
              ParentsListedFirst, storeVars
<1>3. PlannerTypeOK'
  BY DEF SeedInv, PlannerTypeOK, Reseed
<1>4. 1 \in DOMAIN Plan
  BY DEF SeedInv, PlannerStands, Reseed
<1>5. ASSUME NEW q \in Planners PROVE PlannerStands(q)'
  BY <1>1, <1>4 DEF SeedInv, PlannerTypeOK, PlannerStands, Reseed
<1> QED BY <1>2, <1>3, <1>5 DEF SeedInv

LEMMA CrashSeedInv ==
    ASSUME SeedInv, Crash
    PROVE  SeedInv'
<1> USE PlanAssumption
<1>1. UNCHANGED storeVars /\ Rows' = Rows
  BY DEF Crash, storeVars, Rows
<1>2. StoreTypeOK' /\ RowsListed' /\ RowsParentClosed' /\ ParentsListedFirst'
  BY <1>1 DEF SeedInv, StoreTypeOK, RowsListed, RowsParentClosed,
              ParentsListedFirst, storeVars
<1>3. PlannerTypeOK'
  BY DEF PlannerTypeOK, Crash, Begun
<1>4. (Plan # << >> => 1 \in DOMAIN Plan) /\ (Plan = << >> => 1 > Len(Plan))
  OBVIOUS
<1>5. ASSUME NEW q \in Planners PROVE PlannerStands(q)'
  <2>1. step'[q] = Begun /\ next'[q] = 1
    BY DEF Crash
  <2> QED BY <1>4, <2>1 DEF PlannerStands, Begun
<1> QED BY <1>2, <1>3, <1>5 DEF SeedInv

LEMMA RunnerSeedInv ==
    ASSUME SeedInv, IInv, RunnerStep
    PROVE  SeedInv'
<1>1. Rows' = Rows /\ order' = order
  BY RunnersKeepRows
<1>2. StoreTypeOK'
  <2>1. StoreNext
    BY DEF RunnerStep, StoreNext
  <2> QED BY <2>1, NextIInv DEF IInv
<1>3. RowsListed' /\ RowsParentClosed' /\ ParentsListedFirst'
  BY <1>1 DEF SeedInv, RowsListed, RowsParentClosed, ParentsListedFirst
<1>4. PlannerTypeOK' /\ \A q \in Planners : PlannerStands(q)'
  BY <1>1 DEF RunnerStep, plannerVars, SeedInv, PlannerTypeOK, PlannerStands
<1> QED BY <1>2, <1>3, <1>4 DEF SeedInv

LEMMA NextSeedInv ==
    IInv /\ SeedInv /\ [SeedNext]_vars => (IInv /\ SeedInv)'
<1> SUFFICES ASSUME IInv, SeedInv, [SeedNext]_vars PROVE (IInv /\ SeedInv)'
  OBVIOUS
<1>1. IInv'
  BY StoreStep, NextIInv
<1>2. ASSUME NEW p \in Planners, PlannerStep(p) PROVE SeedInv'
  BY <1>2, LookupSeedInv, InsertSeedInv, ReseedSeedInv DEF PlannerStep
<1>3. ASSUME UNCHANGED vars PROVE SeedInv'
  <2>1. UNCHANGED <<status, order, attempt, owner, leaseLeft, retryLeft, artifact, log>>
        /\ UNCHANGED <<step, next, seen>>
    BY <1>3 DEF vars, storeVars, plannerVars
  <2>2. Rows' = Rows
    BY <2>1 DEF Rows
  <2>3. StoreTypeOK' /\ RowsListed' /\ RowsParentClosed' /\ ParentsListedFirst'
    BY <2>1, <2>2 DEF SeedInv, StoreTypeOK, RowsListed, RowsParentClosed,
                      ParentsListedFirst
  <2>4. PlannerTypeOK' /\ \A q \in Planners : PlannerStands(q)'
    BY <2>1, <2>2 DEF SeedInv, PlannerTypeOK, PlannerStands
  <2> QED BY <2>3, <2>4 DEF SeedInv
<1>4. Crash => SeedInv'
  BY CrashSeedInv
<1>5. RunnerStep => SeedInv'
  BY RunnerSeedInv
<1>6. SeedInv'
  BY <1>2, <1>3, <1>4, <1>5 DEF SeedNext
<1> QED BY <1>1, <1>6

-----------------------------------------------------------------------------
\* Planners and runners keep the inductive invariants of the store and of
\* seeding, however they interleave and wherever the process dies.
THEOREM SeedingInvariant == SeedSpec => [](IInv /\ SeedInv)
<1>1. SeedInit => IInv /\ SeedInv
  BY InitIInv, InitSeedInv DEF SeedInit
<1> QED BY <1>1, NextSeedInv, PTL DEF SeedSpec

\* No stage is ever in the store without its parents: planners that race, fail
\* and die halfway leave no stage that waits for one nobody has planned
\* (seed_run adds the stages of the plan in its order, planner.py:62).
THEOREM ClosedUnderParents == SeedSpec => []RowsParentClosed
<1>1. SeedInv => RowsParentClosed
  BY DEF SeedInv
<1> QED BY <1>1, SeedingInvariant, PTL

\* The claim query lists every stage after its parents, although created_at is
\* read before the insert gets the lock and other rows may come in between.
THEOREM ParentsBeforeChildren == SeedSpec => []ParentsListedFirst
<1>1. SeedInv => ParentsListedFirst
  BY DEF SeedInv
<1> QED BY <1>1, SeedingInvariant, PTL

\* A planner whose seed_run returned has left no stage of its plan out, no
\* matter who added which of them.
THEOREM NothingLeftOut == SeedSpec => []SeededMeansPresent
<1>1. SeedInv => SeededMeansPresent
  <2> SUFFICES ASSUME SeedInv, NEW p \in Planners, step[p] = "seeded"
               PROVE  ToSet(Plan) \subseteq Rows
    BY DEF SeededMeansPresent
  <2>1. Len(Plan) \in Nat /\ DOMAIN Plan = 1..Len(Plan)
    BY PlanAssumption
  <2>2. next[p] \in Nat /\ next[p] > Len(Plan)
    BY DEF SeedInv, PlannerTypeOK, PlannerStands
  <2>3. \A j \in DOMAIN Plan : Plan[j] \in Rows
    BY <2>1, <2>2 DEF SeedInv, PlannerStands
  <2> QED BY <2>3 DEF ToSet
<1> QED BY <1>1, SeedingInvariant, PTL

\* Seeding again never resets a stage: add_stage returns an existing row as
\* it is, and nothing else writes "pending".
THEOREM SeedingIsSafeToRepeat == SeedSpec => ReseedingKeepsProgress
<1> DEFINE Kept == \A h \in Rows :
                      /\ status'[h] # "absent"
                      /\ status[h] # "pending" => status'[h] # "pending"
<1>1. SeedInv /\ [SeedNext]_vars => [Kept]_vars
  <2> SUFFICES ASSUME SeedInv, [SeedNext]_vars PROVE Kept
    OBVIOUS
  <2>1. StoreTypeOK
    BY DEF SeedInv
  <2>2. [StoreNext]_storeVars
    BY StoreStep
  <2>3. CASE UNCHANGED storeVars
    BY <2>3 DEF storeVars, Rows
  <2>4. ASSUME NEW h \in Hashes, NEW pos \in Positions, InsertStage(h, pos)
        PROVE  Kept
    BY <2>1, <2>4 DEF InsertStage, StoreTypeOK, Rows
  <2>5. ASSUME NEW h \in Hashes, NEW r \in Runners, NEW lag \in Lags,
               Claim(h, r, lag) \/ Heartbeat(h, r, lag)
        PROVE  Kept
    BY <2>1, <2>5 DEF Claim, Heartbeat, StoreTypeOK, Rows
  <2>6. ASSUME NEW h \in Hashes, NEW r \in Runners, NEW art \in Artifacts,
               Complete(h, r, art)
        PROVE  Kept
    BY <2>1, <2>6 DEF Complete, StoreTypeOK, Rows
  <2>7. ASSUME NEW h \in Hashes, NEW r \in Runners, NEW lag \in Lags,
               NEW retryable \in BOOLEAN, Fail(h, r, retryable, lag)
        PROVE  Kept
    BY <2>1, <2>7 DEF Fail, StoreTypeOK, Rows
  <2>8. ASSUME NEW lag \in Lags, Reclaim(lag) PROVE Kept
    BY <2>1, <2>8 DEF Reclaim, StoreTypeOK, Rows
  <2>9. Tick => Kept
    BY DEF Tick, Rows
  <2> QED BY <2>2, <2>3, <2>4, <2>5, <2>6, <2>7, <2>8, <2>9 DEF StoreNext
<1> QED BY <1>1, SeedingInvariant, PTL DEF SeedSpec, ReseedingKeepsProgress

\* What planners and runners do together is what LeaseStore allows its
\* callers, so that all that is proved of the store holds while it is seeded.
THEOREM SeedingUsesStore == SeedSpec => StoreSpec
<1>1. SeedInit => StoreInit
  BY DEF SeedInit
<1>2. SeedInv /\ [SeedNext]_vars => [StoreNext]_storeVars
  BY StoreStep
<1> QED BY <1>1, <1>2, SeedingInvariant, PTL DEF SeedSpec, StoreSpec

\* In particular no stage is worked on before its parents have succeeded, also
\* when planners add stages next to runners that claim them.
THEOREM DependencyOrderWhileSeeding == SeedSpec => []ParentsStaySucceeded
<1> QED BY SeedingUsesStore, DependencyOrder, PTL
=============================================================================
