------------------------- MODULE ArtifactStoreProofs -------------------------
(***************************************************************************)
(* Proofs about ArtifactStore, for any threads and contents, and any       *)
(* number of deaths of the process and of the machine.                     *)
(***************************************************************************)
EXTENDS ArtifactStore, TLAPS

\* A call that goes on has not been refused anything, one that is in its
\* finally clause at most one thing.
RefusalsCounted ==
    \A w \in Writers :
        /\ pc[w] \in {"check", "return"} \cup Writing => refused[w] = 0
        /\ pc[w] = "finally" => refused[w] \in {0, 1}

\* Only files that were fsynced are renamed to their final path.
WholeInv ==
    /\ ArtifactTypeOK
    /\ FinalFilesWhole
    /\ \A w \in Writers : pc[w] = "replace" => temp[w] = "full"
    /\ RefusalsCounted

\* A call that returns has seen its file at the final path, and what the file
\* system has written back is there.
StayInv ==
    /\ WholeInv
    /\ RecordedArtifactsReadable
    /\ \A c \in named : file[c] = "full"
    /\ \A w \in Writers :
          \/ pc[w] = "return"
          \/ pc[w] = "finally" /\ refused[w] = 0
          => file[content[w]] = "full"

USE ArtifactAssumption DEF FileState, Writing

LEMMA InitWhole == Init => WholeInv
  BY DEF Init, WholeInv, ArtifactTypeOK, FinalFilesWhole, RefusalsCounted

\* Every step of a writer keeps WholeInv: the only one that touches a final
\* path is Replace.
LEMMA WriterWhole ==
  ASSUME WholeInv, NEW w \in Writers, WriterStep(w)
  PROVE  WholeInv'
<1> USE DEF WholeInv, ArtifactTypeOK, FinalFilesWhole, RefusalsCounted, Goto
<1>1. CASE \E c \in Contents : PutBytes(w, c)
  BY <1>1 DEF PutBytes
<1>2. CASE Check(w)
  BY <1>2 DEF Check
<1>3. CASE Open(w)
  BY <1>3 DEF Open
<1>4. CASE Write(w)
  BY <1>4 DEF Write
<1>5. CASE Fsync(w)
  BY <1>5 DEF Fsync
<1>6. CASE Replace(w)
  BY <1>6 DEF Replace
<1>7. CASE Refused(w)
  BY <1>7 DEF Refused, Refusal
<1>8. CASE Finally(w)
  BY <1>8 DEF Finally, LeaveFinally
<1>9. CASE CleanupRefused(w)
  BY <1>9 DEF CleanupRefused, Refusal
<1>10. CASE ReturnRef(w)
  BY <1>10 DEF ReturnRef
<1> QED BY <1>1, <1>2, <1>3, <1>4, <1>5, <1>6, <1>7, <1>8, <1>9, <1>10 DEF WriterStep

LEMMA NextWhole == WholeInv /\ [Next]_vars => WholeInv'
<1> SUFFICES ASSUME WholeInv, [Next]_vars PROVE WholeInv'
  OBVIOUS
<1>1. CASE \E w \in Writers : WriterStep(w)
  BY <1>1, WriterWhole
<1>2. CASE \E c \in Contents : WriteBack(c)
  BY <1>2 DEF WriteBack, WholeInv, ArtifactTypeOK, FinalFilesWhole, RefusalsCounted
<1>3. CASE Crash
  BY <1>3 DEF Crash, Die, WholeInv, ArtifactTypeOK, FinalFilesWhole, RefusalsCounted
<1>4. CASE PowerLoss
  BY <1>4 DEF PowerLoss, Die, WholeInv, ArtifactTypeOK, FinalFilesWhole, RefusalsCounted
<1>5. CASE UNCHANGED vars
  BY <1>5 DEF vars, WholeInv, ArtifactTypeOK, FinalFilesWhole, RefusalsCounted
<1> QED BY <1>1, <1>2, <1>3, <1>4, <1>5 DEF Next

\* Whatever crashes, a file at a final path is all there: a put that finds
\* it, and a reader, can rely on it.
THEOREM FinalFilesAlwaysWhole == ArtifactSpec => []FinalFilesWhole
<1>1. ArtifactSpec => []WholeInv
  BY InitWhole, NextWhole, PTL DEF ArtifactSpec
<1>2. WholeInv => FinalFilesWhole
  BY DEF WholeInv
<1> QED BY <1>1, <1>2, PTL

-----------------------------------------------------------------------------
\* Unless the machine goes down, no step takes a whole file away: a final
\* path is only ever replaced by another whole file.
LEMMA StepKeepsFiles ==
  ASSUME WholeInv, [Next]_vars, outages' = outages, NEW c \in Contents, file[c] = "full"
  PROVE  file'[c] = "full"
<1> USE DEF WholeInv, ArtifactTypeOK
<1>1. CASE \E w \in Writers : WriterStep(w)
  BY <1>1 DEF WriterStep, PutBytes, Check, Open, Write, Fsync, Replace, Refused,
              Finally, CleanupRefused, ReturnRef
<1>2. CASE \E d \in Contents : WriteBack(d)
  BY <1>2 DEF WriteBack
<1>3. CASE Crash
  BY <1>3 DEF Crash
<1>4. CASE PowerLoss
  BY <1>4 DEF PowerLoss
<1>5. CASE UNCHANGED vars
  BY <1>5 DEF vars
<1> QED BY <1>1, <1>2, <1>3, <1>4, <1>5 DEF Next

LEMMA InitStay == Init => StayInv
  BY InitWhole DEF Init, StayInv, RecordedArtifactsReadable

LEMMA WriterStay ==
  ASSUME StayInv, NEW w \in Writers, WriterStep(w),
         \A c \in Contents : file[c] = "full" => file'[c] = "full"
  PROVE  /\ RecordedArtifactsReadable'
         /\ \A c \in named' : file'[c] = "full"
         /\ \A v \in Writers :
               \/ pc'[v] = "return"
               \/ pc'[v] = "finally" /\ refused'[v] = 0
               => file'[content'[v]] = "full"
<1> USE DEF StayInv, WholeInv, ArtifactTypeOK, FinalFilesWhole, RefusalsCounted,
            RecordedArtifactsReadable, Goto
<1>1. CASE \E c \in Contents : PutBytes(w, c)
  BY <1>1 DEF PutBytes
<1>2. CASE Check(w)
  BY <1>2 DEF Check
<1>3. CASE Open(w)
  BY <1>3 DEF Open
<1>4. CASE Write(w)
  BY <1>4 DEF Write
<1>5. CASE Fsync(w)
  BY <1>5 DEF Fsync
<1>6. CASE Replace(w)
  BY <1>6 DEF Replace
<1>7. CASE Refused(w)
  BY <1>7 DEF Refused, Refusal
<1>8. CASE Finally(w)
  BY <1>8 DEF Finally, LeaveFinally
<1>9. CASE CleanupRefused(w)
  BY <1>9 DEF CleanupRefused, Refusal
<1>10. CASE ReturnRef(w)
  BY <1>10 DEF ReturnRef
<1> QED BY <1>1, <1>2, <1>3, <1>4, <1>5, <1>6, <1>7, <1>8, <1>9, <1>10 DEF WriterStep

\* A crash of the machine keeps what was written back.
LEMMA PowerLossStay == StayInv /\ PowerLoss => StayInv'
<1> SUFFICES ASSUME StayInv, PowerLoss PROVE StayInv'
  OBVIOUS
<1>1. WholeInv'
  BY NextWhole DEF StayInv, Next
<1>2. \A c \in named' : c \in Contents /\ file'[c] = "full"
  BY DEF PowerLoss, Die, StayInv, WholeInv, ArtifactTypeOK
<1>3. RecordedArtifactsReadable'
  <2>1. outages' > 0
    BY DEF PowerLoss, StayInv, WholeInv, ArtifactTypeOK
  <2> QED BY <1>2, <2>1 DEF RecordedArtifactsReadable
<1>4. \A w \in Writers : pc'[w] = "idle"
  BY DEF PowerLoss, Die
<1> QED BY <1>1, <1>2, <1>3, <1>4 DEF StayInv

LEMMA NextStay == StayInv /\ [Next]_vars => StayInv'
<1> SUFFICES ASSUME StayInv, [Next]_vars PROVE StayInv'
  OBVIOUS
<1>1. WholeInv'
  BY NextWhole DEF StayInv
<1>2. ASSUME outages' = outages
      PROVE  \A c \in Contents : file[c] = "full" => file'[c] = "full"
  BY <1>2, StepKeepsFiles DEF StayInv
<1>3. CASE \E w \in Writers : WriterStep(w)
  <2>1. outages' = outages
    BY <1>3 DEF WriterStep, PutBytes, Check, Open, Write, Fsync, Replace, Refused,
                Finally, CleanupRefused, ReturnRef
  <2> QED BY <1>1, <1>2, <1>3, <2>1, WriterStay DEF StayInv
<1>4. CASE \E c \in Contents : WriteBack(c)
  BY <1>1, <1>4 DEF WriteBack, StayInv, WholeInv, FinalFilesWhole,
                    RecordedArtifactsReadable
<1>5. CASE Crash
  BY <1>1, <1>5 DEF Crash, Die, StayInv, RecordedArtifactsReadable
<1>6. CASE PowerLoss
  BY <1>6, PowerLossStay
<1>7. CASE UNCHANGED vars
  BY <1>1, <1>7 DEF vars, StayInv, RecordedArtifactsReadable
<1> QED BY <1>3, <1>4, <1>5, <1>6, <1>7 DEF Next

\* What a completed stage refers to can be read, until the machine goes down
\* before its name was written back.
THEOREM ArtifactsReadable == ArtifactSpec => []RecordedArtifactsReadable
<1>1. StayInv => RecordedArtifactsReadable
  BY DEF StayInv
<1> QED BY InitStay, NextStay, <1>1, PTL DEF ArtifactSpec

\* An artifact stays at its final path for good, unless the machine goes down.
THEOREM ArtifactsImmutable == ArtifactSpec => ArtifactsStay
<1>1. ArtifactSpec => []WholeInv
  BY InitWhole, NextWhole, PTL DEF ArtifactSpec
<1>2. WholeInv /\ [Next]_vars =>
         [outages' = outages =>
             \A c \in Contents : file[c] = "full" => file'[c] = "full"]_vars
  BY StepKeepsFiles
<1> QED BY <1>1, <1>2, PTL DEF ArtifactSpec, ArtifactsStay

\* A call makes its temporary file when it has been refused nothing, and is
\* past the finally clause with nothing refused only when the file is gone.
LitterInv ==
    /\ WholeInv
    /\ LitterTakesTwoRefusals
    /\ \A w \in Writers :
          \/ pc[w] = "open"
          \/ pc[w] = "finally" /\ refused[w] = 0
          => temp[w] = "none"

LEMMA WriterLitter ==
  ASSUME LitterInv, WholeInv', NEW w \in Writers, WriterStep(w)
  PROVE  LitterInv'
<1> USE DEF LitterInv, WholeInv, ArtifactTypeOK, RefusalsCounted,
            LitterTakesTwoRefusals, Goto
<1>1. CASE \E c \in Contents : PutBytes(w, c)
  BY <1>1 DEF PutBytes
<1>2. CASE Check(w)
  BY <1>2 DEF Check
<1>3. CASE Open(w) \/ Write(w) \/ Fsync(w)
  BY <1>3 DEF Open, Write, Fsync
<1>4. CASE Replace(w)
  BY <1>4 DEF Replace
<1>5. CASE Refused(w)
  BY <1>5 DEF Refused, Refusal
<1>6. CASE Finally(w)
  BY <1>6 DEF Finally, LeaveFinally
<1>7. CASE CleanupRefused(w)
  BY <1>7 DEF CleanupRefused, Refusal
<1>8. CASE ReturnRef(w)
  BY <1>8 DEF ReturnRef
<1> QED BY <1>1, <1>2, <1>3, <1>4, <1>5, <1>6, <1>7, <1>8 DEF WriterStep

\* A call leaves a temporary file behind only when two calls of the file
\* system were refused, the second of them in the cleanup: one refusal, at
\* whatever line of _put_bytes_sync, leaves nothing (local_artifacts.py).
THEOREM OneRefusalLeavesNothing == ArtifactSpec => []LitterTakesTwoRefusals
<1>1. Init => LitterInv
  BY InitWhole DEF Init, LitterInv, LitterTakesTwoRefusals
<1>2. LitterInv /\ [Next]_vars => LitterInv'
  <2> SUFFICES ASSUME LitterInv, [Next]_vars PROVE LitterInv'
    OBVIOUS
  <2>1. WholeInv'
    BY NextWhole DEF LitterInv
  <2>2. CASE \E w \in Writers : WriterStep(w)
    BY <2>1, <2>2, WriterLitter
  <2>3. CASE \E c \in Contents : WriteBack(c)
    BY <2>1, <2>3 DEF WriteBack, LitterInv, LitterTakesTwoRefusals
  <2>4. CASE Crash \/ PowerLoss
    BY <2>1, <2>4 DEF Crash, PowerLoss, Die, LitterInv, LitterTakesTwoRefusals
  <2>5. CASE UNCHANGED vars
    BY <2>1, <2>5 DEF vars, LitterInv, LitterTakesTwoRefusals
  <2> QED BY <2>2, <2>3, <2>4, <2>5 DEF Next
<1>3. LitterInv => LitterTakesTwoRefusals
  BY DEF LitterInv
<1> QED BY <1>1, <1>2, <1>3, PTL DEF ArtifactSpec
=============================================================================
