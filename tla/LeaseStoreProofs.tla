-------------------------- MODULE LeaseStoreProofs --------------------------
(***************************************************************************)
(* Theorems about LeaseStore: its invariants hold for every set of stages, *)
(* runners and artifacts, every dependency relation, every lease and retry *)
(* time, every LIMIT and every lag between reading the clock and getting   *)
(* the lock; and it implements StageDataflow.                              *)
(***************************************************************************)
EXTENDS LeaseStore, SequenceTheorems, TLAPS

(***************************************************************************)
(* The inductive invariant.  The invariants the runs check are inductive   *)
(* together with one more fact: a row nobody has claimed has no attempt,   *)
(* and nothing but a success ever leaves an artifact behind.               *)
(***************************************************************************)
UntouchedRows ==
    \A h \in Hashes :
        /\ status[h] \in {"absent", "pending"} => attempt[h] = 0
        /\ status[h] # "succeeded" => artifact[h] = NoArtifact
        /\ status[h] \in {"running", "abandoned"} =>
              log[h][attempt[h]].artifact = NoArtifact

IInv ==
    /\ StoreTypeOK
    /\ LeaseMatchesAttempt
    /\ RowMatchesAttempt
    /\ AttemptsContiguous
    /\ EarlierAttemptsRetryable
    /\ ParentsStaySucceeded
    /\ UntouchedRows

-----------------------------------------------------------------------------
\* Inserting an element into a sequence over S at any position gives a
\* sequence over S.
LEMMA InsertAtType ==
    ASSUME NEW S, NEW s \in Seq(S), NEW e \in S, NEW i \in 1..(Len(s) + 1)
    PROVE  InsertAt(s, i, e) \in Seq(S)
<1>1. SubSeq(s, 1, i-1) \in Seq(S)
  <2>1. \A j \in 1..(i-1) : s[j] \in S
    OBVIOUS
  <2> QED BY <2>1, SubSeqProperties, i-1 \in Int
<1>2. SubSeq(s, i, Len(s)) \in Seq(S)
  <2>1. \A j \in i..Len(s) : s[j] \in S
    OBVIOUS
  <2> QED BY <2>1, SubSeqProperties, Len(s) \in Int
<1>3. <<e>> \in Seq(S)
  OBVIOUS
<1> QED BY <1>1, <1>2, <1>3, ConcatProperties DEF InsertAt

\* The row claim_next_stage picks is a stage in a claimable status whose
\* parents have all succeeded.
LEMMA FirstRunnableFacts ==
    ASSUME StoreTypeOK, NEW h, NEW lag, FirstRunnable(h, lag)
    PROVE  h \in Hashes /\ Selectable(h, lag) /\ ParentsSucceeded(h)
<1>1. PICK i \in RunnableIn(lag) : h = order[i]
  BY DEF FirstRunnable
<1>2. i \in DOMAIN order /\ Selectable(order[i], lag) /\ ParentsSucceeded(order[i])
  BY <1>1 DEF RunnableIn, Window, Selected
<1>3. order \in Seq(Hashes)
  BY DEF StoreTypeOK
<1> QED BY <1>1, <1>2, <1>3, ElementOfSeq

LEMMA InitIInv == StoreInit => IInv
<1> USE StoreAssumption
<1> SUFFICES ASSUME StoreInit PROVE IInv
  OBVIOUS
<1>1. StoreTypeOK
  BY DEF StoreInit, StoreTypeOK, RowStatus, AttemptRow, NoRow
<1>2. LeaseMatchesAttempt /\ RowMatchesAttempt /\ UntouchedRows
  BY DEF StoreInit, LeaseMatchesAttempt, RowMatchesAttempt, UntouchedRows
<1>3. AttemptsContiguous /\ EarlierAttemptsRetryable /\ ParentsStaySucceeded
  BY DEF StoreInit, AttemptsContiguous, EarlierAttemptsRetryable,
         ParentsStaySucceeded
<1> QED BY <1>1, <1>2, <1>3 DEF IInv

LEMMA InsertStageIInv ==
    ASSUME IInv, NEW h \in Hashes, NEW pos \in Positions, InsertStage(h, pos)
    PROVE  IInv'
<1> USE DEF IInv, InsertStage
<1>1. StoreTypeOK'
  <2>1. order' \in Seq(Hashes)
    BY InsertAtType DEF StoreTypeOK, Positions
  <2> QED BY <2>1 DEF StoreTypeOK, RowStatus
<1>2. LeaseMatchesAttempt' /\ RowMatchesAttempt' /\ UntouchedRows'
  BY DEF StoreTypeOK, LeaseMatchesAttempt, RowMatchesAttempt, UntouchedRows
<1>3. AttemptsContiguous' /\ EarlierAttemptsRetryable'
  BY DEF AttemptsContiguous, EarlierAttemptsRetryable
<1>4. ParentsStaySucceeded'
  BY StoreAssumption DEF StoreTypeOK, ParentsStaySucceeded, ParentsSucceeded
<1> QED BY <1>1, <1>2, <1>3, <1>4

LEMMA ClaimIInv ==
    ASSUME IInv, NEW h \in Hashes, NEW r \in Runners, NEW lag \in Lags,
           Claim(h, r, lag)
    PROVE  IInv'
<1> DEFINE next == attempt[h] + 1
           row == [runner |-> r, status |-> "running", artifact |-> NoArtifact]
<1> USE StoreAssumption
<1>1. StoreTypeOK /\ lag \in Nat /\ next \in 1..MaxAttempts
  BY DEF IInv, Claim, NextAttempt, Lags
<1>2. /\ status' = [status EXCEPT ![h] = "running"]
      /\ attempt' = [attempt EXCEPT ![h] = next]
      /\ owner' = [owner EXCEPT ![h] = r]
      /\ log' = [log EXCEPT ![h][next] = row]
      /\ artifact' = artifact
  BY DEF Claim, NextAttempt
<1>3. row \in AttemptRow /\ row # NoRow
  BY DEF AttemptRow, NoRow
<1>4. Selectable(h, lag) /\ ParentsSucceeded(h)
  BY <1>1, FirstRunnableFacts DEF Claim
<1>5. StoreTypeOK'
  BY <1>1, <1>2, <1>3 DEF StoreTypeOK, Claim, RowStatus
<1>6. /\ \A g \in Hashes \ {h} : /\ status'[g] = status[g]
                                 /\ attempt'[g] = attempt[g]
                                 /\ owner'[g] = owner[g]
                                 /\ log'[g] = log[g]
      /\ status'[h] = "running" /\ attempt'[h] = next /\ owner'[h] = r
      /\ log'[h][next] = row
      /\ \A k \in 1..MaxAttempts : k # next => log'[h][k] = log[h][k]
  BY <1>1, <1>2 DEF StoreTypeOK
<1> HIDE DEF next
<1>7. LeaseMatchesAttempt' /\ RowMatchesAttempt'
  BY <1>1, <1>2, <1>6 DEF IInv, LeaseMatchesAttempt, RowMatchesAttempt
<1>8. UntouchedRows'
  <2>1. artifact[h] = NoArtifact
    BY <1>4 DEF IInv, UntouchedRows, Selectable
  <2> QED BY <1>2, <1>6, <2>1 DEF IInv, UntouchedRows
<1>a. attempt[h] \in Nat /\ next = attempt[h] + 1
  BY <1>1 DEF StoreTypeOK, next
<1>9. AttemptsContiguous'
  <2> SUFFICES ASSUME NEW g \in Hashes, NEW k \in 1..MaxAttempts
               PROVE  (log'[g][k] = NoRow) <=> (k > attempt'[g])
    BY DEF AttemptsContiguous, NoRow
  <2>1. (log[g][k] = NoRow) <=> (k > attempt[g])
    BY DEF IInv, AttemptsContiguous
  <2>2. CASE g # h
    BY <1>6, <2>1, <2>2
  <2>3. CASE g = h /\ k = next
    BY <1>a, <1>3, <1>6, <2>3
  <2>4. CASE g = h /\ k # next
    BY <1>a, <1>6, <2>1, <2>4
  <2> QED BY <2>2, <2>3, <2>4
<1>10. EarlierAttemptsRetryable'
  <2>1. \A k \in 1..MaxAttempts :
            k <= attempt[h] => log[h][k].status \in {"running", "failed_retryable"}
    <3> SUFFICES ASSUME NEW k \in 1..MaxAttempts, k <= attempt[h]
                 PROVE  log[h][k].status \in {"running", "failed_retryable"}
      OBVIOUS
    <3>1. CASE k < attempt[h]
      BY <3>1 DEF IInv, EarlierAttemptsRetryable
    <3>2. CASE k = attempt[h]
      BY <1>4, <3>2 DEF IInv, Selectable, UntouchedRows, RowMatchesAttempt
    <3> QED BY <3>1, <3>2, <1>1 DEF StoreTypeOK
  <2>2. \A k \in 1..MaxAttempts : k < next => k <= attempt[h] /\ k # next
    BY <1>a
  <2> QED BY <2>1, <2>2, <1>6 DEF IInv, EarlierAttemptsRetryable
<1>11. ParentsStaySucceeded'
  <2>1. \A g \in Hashes : ParentsSucceeded(g) => ParentsSucceeded(g)'
    BY <1>4, <1>6 DEF ParentsSucceeded, Selectable
  <2> QED BY <2>1, <1>4, <1>6 DEF IInv, ParentsStaySucceeded
<1> QED BY <1>5, <1>7, <1>8, <1>9, <1>10, <1>11 DEF IInv

LEMMA HeartbeatIInv ==
    ASSUME IInv, NEW h \in Hashes, NEW r \in Runners, NEW lag \in Lags,
           Heartbeat(h, r, lag)
    PROVE  IInv'
<1> USE StoreAssumption DEF Heartbeat
<1>1. StoreTypeOK'
  BY DEF IInv, StoreTypeOK, Lags
<1>2. LeaseMatchesAttempt' /\ RowMatchesAttempt' /\ UntouchedRows'
  BY DEF IInv, LeaseMatchesAttempt, RowMatchesAttempt, UntouchedRows
<1>3. AttemptsContiguous' /\ EarlierAttemptsRetryable' /\ ParentsStaySucceeded'
  BY DEF IInv, AttemptsContiguous, EarlierAttemptsRetryable,
         ParentsStaySucceeded, ParentsSucceeded
<1> QED BY <1>1, <1>2, <1>3 DEF IInv

\* Closing the attempt of a leased stage finds the attempt row and rewrites
\* its status and its artifact, nothing else.
LEMMA CloseAttemptFacts ==
    ASSUME IInv, NEW h \in Hashes, NEW r \in Runners, Leased(h, r),
           NEW result \in {"succeeded", "failed_retryable", "failed_terminal"},
           NEW art \in Artifacts \cup {NoArtifact},
           CloseAttempt(h, r, result, art)
    PROVE  /\ attempt[h] \in 1..MaxAttempts
           /\ log' \in [Hashes -> [1..MaxAttempts -> AttemptRow]]
           /\ \A g \in Hashes \ {h} : log'[g] = log[g]
           /\ \A k \in 1..MaxAttempts : k # attempt[h] => log'[h][k] = log[h][k]
           /\ log'[h][attempt[h]] =
                 [runner |-> r, status |-> result, artifact |-> art]
<1> DEFINE n == attempt[h]
           row == [runner |-> r, status |-> result, artifact |-> art]
<1>1. n \in 1..MaxAttempts /\ log[h][n].runner = r
  BY DEF IInv, LeaseMatchesAttempt, Leased
<1>2. log \in [Hashes -> [1..MaxAttempts -> AttemptRow]]
  BY DEF IInv, StoreTypeOK
<1>3. row \in AttemptRow
  BY DEF AttemptRow
<1>6. log' = [log EXCEPT ![h][n] = row]
  BY <1>1 DEF CloseAttempt
<1> HIDE DEF row, n
<1>7. log' \in [Hashes -> [1..MaxAttempts -> AttemptRow]]
  BY <1>1, <1>2, <1>3, <1>6
<1>8. /\ \A g \in Hashes \ {h} : log'[g] = log[g]
      /\ \A k \in 1..MaxAttempts : k # n => log'[h][k] = log[h][k]
      /\ log'[h][n] = row
  BY <1>1, <1>2, <1>6
<1> QED BY <1>1, <1>7, <1>8 DEF row, n

\* Ending an attempt, successfully or not: what complete_stage and fail_stage
\* have in common.
LEMMA EndAttemptIInv ==
    ASSUME IInv, NEW h \in Hashes, NEW r \in Runners, Leased(h, r),
           NEW result \in {"succeeded", "failed_retryable", "failed_terminal"},
           NEW art \in Artifacts \cup {NoArtifact},
           result # "succeeded" => art = NoArtifact,
           status' = [status EXCEPT ![h] = result],
           owner' = [owner EXCEPT ![h] = NoRunner],
           leaseLeft' = [leaseLeft EXCEPT ![h] = 0],
           retryLeft' \in [Hashes -> Int],
           artifact' = [artifact EXCEPT ![h] = art],
           CloseAttempt(h, r, result, art),
           UNCHANGED <<order, attempt>>
    PROVE  IInv'
<1> USE StoreAssumption
<1>1. /\ attempt[h] \in 1..MaxAttempts
      /\ log' \in [Hashes -> [1..MaxAttempts -> AttemptRow]]
      /\ \A g \in Hashes \ {h} : log'[g] = log[g]
      /\ \A k \in 1..MaxAttempts : k # attempt[h] => log'[h][k] = log[h][k]
      /\ log'[h][attempt[h]] =
            [runner |-> r, status |-> result, artifact |-> art]
  BY CloseAttemptFacts
<1>2. StoreTypeOK'
  <2>1. StoreTypeOK
    BY DEF IInv
  <2>2. /\ status' \in [Hashes -> RowStatus \cup {"absent"}]
        /\ owner' \in [Hashes -> Runners \cup {NoRunner}]
        /\ artifact' \in [Hashes -> Artifacts \cup {NoArtifact}]
        /\ leaseLeft' \in [Hashes -> Int]
    BY <2>1 DEF StoreTypeOK, RowStatus
  <2> QED BY <1>1, <2>1, <2>2 DEF StoreTypeOK
<1>3. /\ \A g \in Hashes \ {h} : /\ status'[g] = status[g]
                                 /\ owner'[g] = owner[g]
                                 /\ artifact'[g] = artifact[g]
      /\ status'[h] = result /\ owner'[h] = NoRunner /\ artifact'[h] = art
      /\ attempt' = attempt
  BY DEF IInv, StoreTypeOK
<1>4. LeaseMatchesAttempt'
  BY <1>1, <1>3 DEF IInv, LeaseMatchesAttempt
<1>5. RowMatchesAttempt'
  BY <1>1, <1>3 DEF IInv, RowMatchesAttempt
<1>6. UntouchedRows'
  BY <1>1, <1>3 DEF IInv, UntouchedRows
<1>7. AttemptsContiguous'
  <2>1. attempt[h] \in Nat
    BY DEF IInv, StoreTypeOK
  <2>2. log'[h][attempt[h]] # NoRow /\ log[h][attempt[h]] # NoRow
    BY <1>1 DEF IInv, NoRow, LeaseMatchesAttempt, Leased
  <2> SUFFICES ASSUME NEW g \in Hashes, NEW k \in 1..MaxAttempts
               PROVE  (log'[g][k] = NoRow) <=> (k > attempt'[g])
    BY DEF AttemptsContiguous, NoRow
  <2>3. (log[g][k] = NoRow) <=> (k > attempt[g])
    BY DEF IInv, AttemptsContiguous
  <2>4. CASE g # h \/ k # attempt[h]
    BY <1>1, <1>3, <2>3, <2>4
  <2>5. CASE g = h /\ k = attempt[h]
    BY <1>3, <2>1, <2>2, <2>5
  <2> QED BY <2>4, <2>5
<1>8. EarlierAttemptsRetryable'
  <2>1. attempt[h] \in Nat
    BY DEF IInv, StoreTypeOK
  <2> SUFFICES ASSUME NEW g \in Hashes, NEW k \in 1..MaxAttempts, k < attempt'[g]
               PROVE  log'[g][k].status \in {"running", "failed_retryable"}
    BY DEF EarlierAttemptsRetryable
  <2>2. log[g][k].status \in {"running", "failed_retryable"}
    BY <1>3 DEF IInv, EarlierAttemptsRetryable
  <2>3. g # h \/ k # attempt[h]
    BY <1>3, <2>1
  <2> QED BY <1>1, <2>2, <2>3
<1>9. ParentsStaySucceeded'
  <2>1. \A g \in Hashes : ParentsSucceeded(g) => ParentsSucceeded(g)'
    BY <1>3 DEF ParentsSucceeded, Leased
  <2> QED BY <2>1, <1>3 DEF IInv, ParentsStaySucceeded
<1> QED BY <1>2, <1>4, <1>5, <1>6, <1>7, <1>8, <1>9 DEF IInv

LEMMA CompleteIInv ==
    ASSUME IInv, NEW h \in Hashes, NEW r \in Runners, NEW art \in Artifacts,
           Complete(h, r, art)
    PROVE  IInv'
<1>1. retryLeft' \in [Hashes -> Int]
  BY DEF IInv, StoreTypeOK, Complete
<1> QED BY <1>1, EndAttemptIInv DEF Complete

LEMMA FailIInv ==
    ASSUME IInv, NEW h \in Hashes, NEW r \in Runners,
           NEW retryable \in BOOLEAN, NEW lag \in Lags,
           Fail(h, r, retryable, lag)
    PROVE  IInv'
<1> DEFINE result == IF retryable THEN "failed_retryable" ELSE "failed_terminal"
<1>1. /\ result \in {"succeeded", "failed_retryable", "failed_terminal"}
      /\ result # "succeeded"
  OBVIOUS
<1>2. retryLeft' \in [Hashes -> Int]
  BY StoreAssumption DEF IInv, StoreTypeOK, Fail, Lags
<1>3. artifact' = [artifact EXCEPT ![h] = NoArtifact]
  BY DEF IInv, StoreTypeOK, UntouchedRows, Fail, Leased
<1>4. /\ Leased(h, r)
      /\ status' = [status EXCEPT ![h] = result]
      /\ owner' = [owner EXCEPT ![h] = NoRunner]
      /\ leaseLeft' = [leaseLeft EXCEPT ![h] = 0]
      /\ CloseAttempt(h, r, result, NoArtifact)
      /\ UNCHANGED <<order, attempt>>
  BY DEF Fail
<1> HIDE DEF result
<1> QED BY <1>1, <1>2, <1>3, <1>4, EndAttemptIInv

LEMMA ReclaimIInv ==
    ASSUME IInv, NEW lag \in Lags, Reclaim(lag)
    PROVE  IInv'
<1> USE StoreAssumption DEF Reclaim
<1>1. Expired(lag) \subseteq {h \in Hashes : status[h] = "running"}
  BY DEF Expired
<1>2. StoreTypeOK'
  BY DEF IInv, StoreTypeOK, RowStatus
<1>3. LeaseMatchesAttempt' /\ RowMatchesAttempt' /\ UntouchedRows'
  BY <1>1 DEF IInv, LeaseMatchesAttempt, RowMatchesAttempt, UntouchedRows
<1>4. AttemptsContiguous' /\ EarlierAttemptsRetryable'
  BY DEF IInv, AttemptsContiguous, EarlierAttemptsRetryable
<1>5. ParentsStaySucceeded'
  BY <1>1 DEF IInv, ParentsStaySucceeded, ParentsSucceeded
<1> QED BY <1>2, <1>3, <1>4, <1>5 DEF IInv

LEMMA TickIInv ==
    ASSUME IInv, Tick
    PROVE  IInv'
<1> USE DEF Tick
<1>1. StoreTypeOK'
  BY DEF IInv, StoreTypeOK
<1>2. LeaseMatchesAttempt' /\ RowMatchesAttempt' /\ UntouchedRows'
  BY DEF IInv, LeaseMatchesAttempt, RowMatchesAttempt, UntouchedRows
<1>3. AttemptsContiguous' /\ EarlierAttemptsRetryable' /\ ParentsStaySucceeded'
  BY DEF IInv, AttemptsContiguous, EarlierAttemptsRetryable,
         ParentsStaySucceeded, ParentsSucceeded
<1> QED BY <1>1, <1>2, <1>3 DEF IInv

LEMMA NextIInv == IInv /\ [StoreNext]_storeVars => IInv'
<1> SUFFICES ASSUME IInv, [StoreNext]_storeVars PROVE IInv'
  OBVIOUS
<1>1. ASSUME NEW h \in Hashes, NEW pos \in Positions, InsertStage(h, pos)
      PROVE  IInv'
  BY <1>1, InsertStageIInv
<1>2. ASSUME NEW h \in Hashes, NEW r \in Runners, NEW lag \in Lags, Claim(h, r, lag)
      PROVE  IInv'
  BY <1>2, ClaimIInv
<1>3. ASSUME NEW h \in Hashes, NEW r \in Runners, NEW lag \in Lags, Heartbeat(h, r, lag)
      PROVE  IInv'
  BY <1>3, HeartbeatIInv
<1>4. ASSUME NEW h \in Hashes, NEW r \in Runners, NEW art \in Artifacts, Complete(h, r, art)
      PROVE  IInv'
  BY <1>4, CompleteIInv
<1>5. ASSUME NEW h \in Hashes, NEW r \in Runners, NEW retryable \in BOOLEAN,
             NEW lag \in Lags, Fail(h, r, retryable, lag)
      PROVE  IInv'
  BY <1>5, FailIInv
<1>6. ASSUME NEW lag \in Lags, Reclaim(lag)
      PROVE  IInv'
  BY <1>6, ReclaimIInv
<1>7. CASE Tick
  BY <1>7, TickIInv
<1>8. CASE UNCHANGED storeVars
  BY <1>8 DEF IInv, storeVars, StoreTypeOK, LeaseMatchesAttempt, RowMatchesAttempt,
         UntouchedRows, AttemptsContiguous, EarlierAttemptsRetryable,
         ParentsStaySucceeded, ParentsSucceeded
<1> QED BY <1>1, <1>2, <1>3, <1>4, <1>5, <1>6, <1>7, <1>8 DEF StoreNext

-----------------------------------------------------------------------------
\* The inductive invariant holds in every reachable state of the store.
THEOREM StoreInvariant == StoreSpec => []IInv
<1> QED BY InitIInv, NextIInv, PTL DEF StoreSpec

\* Every column and every attempt row always holds a value the schema allows.
THEOREM StoreTypeCorrect == StoreSpec => []StoreTypeOK
<1>1. IInv => StoreTypeOK
  BY DEF IInv
<1> QED BY <1>1, StoreInvariant, PTL

\* `stages` and `stage_attempts` always agree on who works on what.
THEOREM LeaseAgreement == StoreSpec => []LeaseMatchesAttempt
<1>1. IInv => LeaseMatchesAttempt
  BY DEF IInv
<1> QED BY <1>1, StoreInvariant, PTL

\* The row of a stage always shows the result of its last attempt.
THEOREM ResultAgreement == StoreSpec => []RowMatchesAttempt
<1>1. IInv => RowMatchesAttempt
  BY DEF IInv
<1> QED BY <1>1, StoreInvariant, PTL

\* Attempts are numbered without gaps, so claims never meet the primary key.
THEOREM AttemptNumbering == StoreSpec => []AttemptsContiguous
<1>1. IInv => AttemptsContiguous
  BY DEF IInv
<1> QED BY <1>1, StoreInvariant, PTL

\* At most the last attempt of a stage has succeeded or failed terminally.
THEOREM SingleVerdict == StoreSpec => []EarlierAttemptsRetryable
<1>1. IInv => EarlierAttemptsRetryable
  BY DEF IInv
<1> QED BY <1>1, StoreInvariant, PTL

\* No stage is ever started before all its parents have succeeded.
THEOREM DependencyOrder == StoreSpec => []ParentsStaySucceeded
<1>1. IInv => ParentsStaySucceeded
  BY DEF IInv
<1> QED BY <1>1, StoreInvariant, PTL

-----------------------------------------------------------------------------
\* What a step can do to the status and the artifact of a stage that is
\* settled: nothing.
LEMMA SettledStep ==
    ASSUME IInv, [StoreNext]_storeVars, NEW g \in Hashes, Settled(g)
    PROVE  status'[g] = status[g] /\ artifact'[g] = artifact[g]
<1> USE DEF Settled
<1>1. StoreTypeOK
  BY DEF IInv
<1>2. ASSUME NEW h \in Hashes, NEW pos \in Positions, InsertStage(h, pos)
      PROVE  status'[g] = status[g] /\ artifact'[g] = artifact[g]
  BY <1>1, <1>2 DEF InsertStage, StoreTypeOK
<1>3. ASSUME NEW h \in Hashes, NEW r \in Runners, NEW lag \in Lags, Claim(h, r, lag)
      PROVE  status'[g] = status[g] /\ artifact'[g] = artifact[g]
  <2>1. Selectable(h, lag)
    BY <1>1, <1>3, FirstRunnableFacts DEF Claim
  <2> QED BY <1>1, <1>3, <2>1 DEF Claim, Selectable, StoreTypeOK
<1>4. ASSUME NEW h \in Hashes, NEW r \in Runners, NEW lag \in Lags, Heartbeat(h, r, lag)
      PROVE  status'[g] = status[g] /\ artifact'[g] = artifact[g]
  BY <1>4 DEF Heartbeat
<1>5. ASSUME NEW h \in Hashes, NEW r \in Runners, NEW art \in Artifacts, Complete(h, r, art)
      PROVE  status'[g] = status[g] /\ artifact'[g] = artifact[g]
  BY <1>1, <1>5 DEF Complete, Leased, StoreTypeOK
<1>6. ASSUME NEW h \in Hashes, NEW r \in Runners, NEW retryable \in BOOLEAN,
             NEW lag \in Lags, Fail(h, r, retryable, lag)
      PROVE  status'[g] = status[g] /\ artifact'[g] = artifact[g]
  BY <1>1, <1>6 DEF Fail, Leased, StoreTypeOK
<1>7. ASSUME NEW lag \in Lags, Reclaim(lag)
      PROVE  status'[g] = status[g] /\ artifact'[g] = artifact[g]
  BY <1>7 DEF Reclaim, Expired
<1>8. CASE Tick
  BY <1>8 DEF Tick
<1>9. CASE UNCHANGED storeVars
  BY <1>9 DEF storeVars
<1> QED BY <1>2, <1>3, <1>4, <1>5, <1>6, <1>7, <1>8, <1>9 DEF StoreNext

\* A settled stage keeps its status and its artifact for ever.
THEOREM SettledForGood == StoreSpec => SettledIsFinal
<1>1. IInv /\ [StoreNext]_storeVars =>
         [\A h \in Hashes : Settled(h) =>
             status'[h] = status[h] /\ artifact'[h] = artifact[h]]_storeVars
  BY SettledStep
<1> QED BY <1>1, StoreInvariant, PTL DEF StoreSpec, SettledIsFinal

\* What a step can do to an attempt row: fill a free one, or close the one of
\* a leased stage for the runner that holds the lease.
LEMMA LogStep ==
    ASSUME IInv, [StoreNext]_storeVars, NEW g \in Hashes, NEW k \in 1..MaxAttempts
    PROVE  \/ log'[g][k] = log[g][k]
           \/ log[g][k] = NoRow
           \/ log[g][k].status = "running" /\ log'[g][k].runner = log[g][k].runner
<1> DEFINE Kept == \/ log'[g][k] = log[g][k]
                   \/ log[g][k] = NoRow
                   \/ log[g][k].status = "running" /\ log'[g][k].runner = log[g][k].runner
<1>1. StoreTypeOK
  BY DEF IInv
<1>2. ASSUME NEW h \in Hashes, NEW pos \in Positions, InsertStage(h, pos)
      PROVE  Kept
  BY <1>2 DEF InsertStage
<1>3. ASSUME NEW h \in Hashes, NEW r \in Runners, NEW lag \in Lags, Claim(h, r, lag)
      PROVE  Kept
  <2>1. g # h \/ k # attempt[h] + 1 => log'[g][k] = log[g][k]
    BY <1>1, <1>3 DEF Claim, NextAttempt, StoreTypeOK
  <2>2. log[h][attempt[h] + 1] = NoRow
    BY <1>3 DEF Claim, NextAttempt
  <2> QED BY <2>1, <2>2
<1>4. ASSUME NEW h \in Hashes, NEW r \in Runners, NEW lag \in Lags, Heartbeat(h, r, lag)
      PROVE  Kept
  BY <1>4 DEF Heartbeat
<1>5. ASSUME NEW h \in Hashes, NEW r \in Runners, Leased(h, r),
             NEW result \in {"succeeded", "failed_retryable", "failed_terminal"},
             NEW art \in Artifacts \cup {NoArtifact},
             CloseAttempt(h, r, result, art)
      PROVE  Kept
  <2>1. /\ \A f \in Hashes \ {h} : log'[f] = log[f]
        /\ \A n \in 1..MaxAttempts : n # attempt[h] => log'[h][n] = log[h][n]
        /\ log'[h][attempt[h]] = [runner |-> r, status |-> result, artifact |-> art]
    BY <1>5, CloseAttemptFacts
  <2>2. log[h][attempt[h]].status = "running" /\ log[h][attempt[h]].runner = r
    BY <1>5 DEF IInv, LeaseMatchesAttempt, Leased
  <2> QED BY <2>1, <2>2
<1>6. ASSUME NEW h \in Hashes, NEW r \in Runners, NEW art \in Artifacts, Complete(h, r, art)
      PROVE  Kept
  BY <1>5, <1>6 DEF Complete
<1>7. ASSUME NEW h \in Hashes, NEW r \in Runners, NEW retryable \in BOOLEAN,
             NEW lag \in Lags, Fail(h, r, retryable, lag)
      PROVE  Kept
  BY <1>5, <1>7 DEF Fail
<1>8. ASSUME NEW lag \in Lags, Reclaim(lag)
      PROVE  Kept
  BY <1>8 DEF Reclaim
<1>9. CASE Tick
  BY <1>9 DEF Tick
<1>10. CASE UNCHANGED storeVars
  BY <1>10 DEF storeVars
<1> QED BY <1>2, <1>3, <1>4, <1>6, <1>7, <1>8, <1>9, <1>10 DEF StoreNext

\* Closed attempts are never rewritten and no attempt changes its runner.
THEOREM HistoryKept == StoreSpec => ClosedAttemptsKept
<1>1. IInv /\ [StoreNext]_storeVars =>
         [\A h \in Hashes, k \in 1..MaxAttempts :
             /\ log[h][k].status \notin {"none", "running"} => log'[h][k] = log[h][k]
             /\ log[h][k] # NoRow => log'[h][k].runner = log[h][k].runner]_storeVars
  <2>1. NoRow.status = "none"
    BY DEF NoRow
  <2> QED BY <2>1, LogStep
<1> QED BY <1>1, StoreInvariant, PTL DEF StoreSpec, ClosedAttemptsKept

\* What a step can do to a stage whose lease has not expired.
LEMMA LiveLeaseStep ==
    ASSUME IInv, [StoreNext]_storeVars, NEW g \in Hashes,
           status[g] = "running", leaseLeft[g] >= 0
    PROVE  \/ owner'[g] = owner[g] /\ attempt'[g] = attempt[g]
           \/ status'[g] \in {"succeeded", "failed_retryable", "failed_terminal"}
<1> DEFINE Kept == \/ owner'[g] = owner[g] /\ attempt'[g] = attempt[g]
                   \/ status'[g] \in {"succeeded", "failed_retryable", "failed_terminal"}
<1>1. StoreTypeOK
  BY DEF IInv
<1>2. ASSUME NEW h \in Hashes, NEW pos \in Positions, InsertStage(h, pos)
      PROVE  Kept
  BY <1>2 DEF InsertStage
<1>3. ASSUME NEW h \in Hashes, NEW r \in Runners, NEW lag \in Lags, Claim(h, r, lag)
      PROVE  Kept
  <2>1. h # g
    BY <1>1, <1>3, FirstRunnableFacts DEF Claim, Selectable
  <2> QED BY <1>1, <1>3, <2>1 DEF Claim, StoreTypeOK
<1>4. ASSUME NEW h \in Hashes, NEW r \in Runners, NEW lag \in Lags, Heartbeat(h, r, lag)
      PROVE  Kept
  BY <1>4 DEF Heartbeat
<1>5. ASSUME NEW h \in Hashes, NEW r \in Runners, NEW art \in Artifacts, Complete(h, r, art)
      PROVE  Kept
  BY <1>1, <1>5 DEF Complete, StoreTypeOK
<1>6. ASSUME NEW h \in Hashes, NEW r \in Runners, NEW retryable \in BOOLEAN,
             NEW lag \in Lags, Fail(h, r, retryable, lag)
      PROVE  Kept
  BY <1>1, <1>6 DEF Fail, StoreTypeOK
<1>7. ASSUME NEW lag \in Lags, Reclaim(lag)
      PROVE  Kept
  <2>1. lag \in Nat /\ leaseLeft[g] \in Int
    BY <1>1, StoreAssumption DEF Lags, StoreTypeOK
  <2>2. g \notin Expired(lag)
    BY <2>1 DEF Expired
  <2> QED BY <1>7, <2>2 DEF Reclaim
<1>8. CASE Tick
  BY <1>8 DEF Tick
<1>9. CASE UNCHANGED storeVars
  BY <1>9 DEF storeVars
<1> QED BY <1>2, <1>3, <1>4, <1>5, <1>6, <1>7, <1>8, <1>9 DEF StoreNext

\* No one takes a stage away from a runner whose lease has not expired.
THEOREM LeaseProtects == StoreSpec => LiveLeaseKept
<1>1. IInv /\ [StoreNext]_storeVars =>
         [\A h \in Hashes : status[h] = "running" /\ leaseLeft[h] >= 0 =>
             \/ owner'[h] = owner[h] /\ attempt'[h] = attempt[h]
             \/ status'[h] \in {"succeeded", "failed_retryable",
                                "failed_terminal"}]_storeVars
  BY LiveLeaseStep
<1> QED BY <1>1, StoreInvariant, PTL DEF StoreSpec, LiveLeaseKept

-----------------------------------------------------------------------------
(***************************************************************************)
(* Refinement: completing a stage is a Finish of StageDataflow, failing it *)
(* for good a GiveUp, and everything else a stuttering step.               *)
(***************************************************************************)
LEMMA SameStatus ==
    ASSUME \A g \in Hashes : \/ status'[g] = status[g]
                             \/ /\ status[g] \notin {"succeeded", "failed_terminal"}
                                /\ status'[g] \notin {"succeeded", "failed_terminal"},
           artifact' = artifact
    PROVE  UNCHANGED <<Outcome, Output>>
BY DEF Outcome, Output

LEMMA RefinesInit == StoreInit => Promise!Init
BY DEF StoreInit, Promise!Init, Outcome, Output

\* A leased stage is open and its parents are done.
LEMMA LeasedIsReady ==
    ASSUME IInv, NEW h \in Hashes, NEW r \in Runners, Leased(h, r)
    PROVE  Promise!Ready(h)
<1>1. attempt[h] > 0
  BY DEF IInv, LeaseMatchesAttempt, Leased
<1>2. ParentsSucceeded(h)
  BY <1>1 DEF IInv, ParentsStaySucceeded
<1>3. \A p \in Parents[h] : p \in Hashes /\ Outcome[p] = "done"
  BY <1>2, StoreAssumption DEF ParentsSucceeded, Outcome
<1> QED BY <1>3 DEF Promise!Ready, Leased, Outcome

LEMMA CompleteRefines ==
    ASSUME IInv, NEW h \in Hashes, NEW r \in Runners, NEW art \in Artifacts,
           Complete(h, r, art)
    PROVE  Promise!Finish(h, art)
<1>1. Promise!Ready(h)
  BY LeasedIsReady DEF Complete
<1>2. /\ \A g \in Hashes : g # h => status'[g] = status[g] /\ artifact'[g] = artifact[g]
      /\ status'[h] = "succeeded" /\ artifact'[h] = art
  BY DEF IInv, StoreTypeOK, Complete
<1>3. Outcome' = [Outcome EXCEPT ![h] = "done"]
  BY <1>2 DEF Outcome
<1>4. Output' = [Output EXCEPT ![h] = art]
  BY <1>2 DEF Output
<1> QED BY <1>1, <1>3, <1>4 DEF Promise!Finish

LEMMA FailRefines ==
    ASSUME IInv, NEW h \in Hashes, NEW r \in Runners,
           NEW retryable \in BOOLEAN, NEW lag \in Lags,
           Fail(h, r, retryable, lag)
    PROVE  Promise!GiveUp(h) \/ UNCHANGED <<Outcome, Output>>
<1>1. /\ \A g \in Hashes : g # h => status'[g] = status[g]
      /\ status'[h] = IF retryable THEN "failed_retryable" ELSE "failed_terminal"
      /\ artifact' = artifact
      /\ status[h] = "running"
  BY DEF IInv, StoreTypeOK, Fail, Leased
<1>2. CASE retryable
  BY <1>1, <1>2, SameStatus
<1>3. CASE ~retryable
  <2>1. Promise!Ready(h)
    BY LeasedIsReady DEF Fail
  <2>2. Outcome' = [Outcome EXCEPT ![h] = "failed"]
    BY <1>1, <1>3 DEF Outcome
  <2>3. Output' = Output
    BY <1>1, <1>3 DEF Output
  <2> QED BY <2>1, <2>2, <2>3 DEF Promise!GiveUp
<1> QED BY <1>2, <1>3

LEMMA StepRefines ==
    ASSUME IInv, [StoreNext]_storeVars
    PROVE  [Promise!Next]_(Promise!vars)
<1> DEFINE Stutter == UNCHANGED <<Outcome, Output>>
<1>1. StoreTypeOK
  BY DEF IInv
<1>2. ASSUME NEW h \in Hashes, NEW pos \in Positions, InsertStage(h, pos)
      PROVE  Stutter
  BY <1>1, <1>2, SameStatus DEF InsertStage, StoreTypeOK
<1>3. ASSUME NEW h \in Hashes, NEW r \in Runners, NEW lag \in Lags, Claim(h, r, lag)
      PROVE  Stutter
  <2>1. status[h] \notin {"succeeded", "failed_terminal"}
    BY <1>1, <1>3, FirstRunnableFacts DEF Claim, Selectable
  <2> QED BY <1>1, <1>3, <2>1, SameStatus DEF Claim, StoreTypeOK
<1>4. ASSUME NEW h \in Hashes, NEW r \in Runners, NEW lag \in Lags, Heartbeat(h, r, lag)
      PROVE  Stutter
  BY <1>4, SameStatus DEF Heartbeat
<1>5. ASSUME NEW h \in Hashes, NEW r \in Runners, NEW art \in Artifacts, Complete(h, r, art)
      PROVE  Promise!Finish(h, art)
  BY <1>5, CompleteRefines
<1>6. ASSUME NEW h \in Hashes, NEW r \in Runners, NEW retryable \in BOOLEAN,
             NEW lag \in Lags, Fail(h, r, retryable, lag)
      PROVE  Promise!GiveUp(h) \/ Stutter
  BY <1>6, FailRefines
<1>7. ASSUME NEW lag \in Lags, Reclaim(lag)
      PROVE  Stutter
  BY <1>7, SameStatus DEF Reclaim, Expired
<1>8. ASSUME Tick PROVE Stutter
  BY <1>8, SameStatus DEF Tick
<1>9. ASSUME UNCHANGED storeVars PROVE Stutter
  BY <1>9, SameStatus DEF storeVars
<1>a. ASSUME NEW h \in Hashes, NEW art \in Artifacts, Promise!Finish(h, art)
      PROVE  Promise!Next
  BY <1>a DEF Promise!Next
<1>b. ASSUME NEW h \in Hashes, Promise!GiveUp(h)
      PROVE  Promise!Next
  BY <1>b DEF Promise!Next
<1> HIDE DEF Stutter
<1>c. ASSUME NEW h \in Hashes, NEW r \in Runners, NEW art \in Artifacts, Complete(h, r, art)
      PROVE  Promise!Next
  BY <1>5, <1>a, <1>c
<1>d. ASSUME NEW h \in Hashes, NEW r \in Runners, NEW retryable \in BOOLEAN,
             NEW lag \in Lags, Fail(h, r, retryable, lag)
      PROVE  Promise!Next \/ Stutter
  BY <1>6, <1>b, <1>d
<1>10. Stutter \/ Promise!Next
  BY <1>2, <1>3, <1>4, <1>c, <1>d, <1>7, <1>8, <1>9 DEF StoreNext
<1> QED BY <1>10 DEF Stutter, Promise!vars

\* The store implements StageDataflow: whatever its callers do, a stage is
\* settled at most once and only when all its parents have succeeded.
THEOREM StoreImplementsDataflow == StoreSpec => ImplementsDataflow
<1>1. StoreInit => Promise!Init
  BY RefinesInit
<1>2. IInv /\ [StoreNext]_storeVars => [Promise!Next]_(Promise!vars)
  BY StepRefines
<1> QED BY <1>1, <1>2, StoreInvariant, PTL DEF StoreSpec, ImplementsDataflow, Promise!Spec
=============================================================================
