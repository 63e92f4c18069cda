---------------------------- MODULE ArtifactStore ----------------------------
(***************************************************************************)
(* LocalArtifactStore (src/baroque/storage/local_artifacts.py): artifacts  *)
(* are files named by the hash of their bytes.  put_bytes runs in threads, *)
(* so several calls, also for the same bytes, run side by side; the file   *)
(* system may refuse any call, and the process may die at any step.        *)
(*                                                                         *)
(* A content stands for its bytes and its suffix (every handler uses one   *)
(* suffix for the kind of payload it writes), hence for one final path.    *)
(* Temporary files have unique names: there is one per call, and one that  *)
(* is left behind is never looked at again.                                *)
(*                                                                         *)
(* What a crash of the machine leaves is external: bytes that were not     *)
(* fsynced and directory entries the system has not written may be lost.   *)
(***************************************************************************)
EXTENDS Naturals

CONSTANTS
    Writers,     \* threads that run _put_bytes_sync
    Contents,    \* bytes to be stored
    NoContent,
    MaxCrashes,  \* bound: deaths of the process
    MaxOutages   \* bound: deaths of the machine

ASSUME ArtifactAssumption ==
    /\ NoContent \notin Contents
    /\ MaxCrashes \in Nat
    /\ MaxOutages \in Nat

VARIABLES
    file,      \* what is at the final path of each content
    named,     \* the directory entries that outlive a crash of the machine
    temp,      \* the temporary file of each writer
    pc,        \* where each writer is in _put_bytes_sync
    content,   \* what it is storing
    refused,   \* how many calls of its current put_bytes the file system refused
    recorded,  \* contents that complete_stage recorded as artifacts
    crashes,
    outages    \* deaths of the machine so far

vars == <<file, named, temp, pc, content, refused, recorded, crashes, outages>>

\* States of a file: its bytes are all there and on disk ("full"), all there
\* but not fsynced ("written"), or not all there ("partial").
FileState == {"none", "partial", "written", "full"}

Writing == {"open", "write", "fsync", "replace"}

Init ==
    /\ file = [c \in Contents |-> "none"]
    /\ named = {}
    /\ temp = [w \in Writers |-> "none"]
    /\ pc = [w \in Writers |-> "idle"]
    /\ content = [w \in Writers |-> NoContent]
    /\ refused = [w \in Writers |-> 0]
    /\ recorded = {}
    /\ crashes = 0
    /\ outages = 0

Goto(w, label) == pc' = [pc EXCEPT ![w] = label]

\* The new temporary file has another name; one that an earlier call left
\* behind is not followed further.
PutBytes(w, c) ==
    /\ pc[w] = "idle"
    /\ Goto(w, "check")
    /\ content' = [content EXCEPT ![w] = c]
    /\ refused' = [refused EXCEPT ![w] = 0]
    /\ temp' = [temp EXCEPT ![w] = "none"]
    /\ UNCHANGED <<file, named, recorded, crashes, outages>>

\* if not final_path.exists(): a file that is there is taken as it is.
Check(w) ==
    /\ pc[w] = "check"
    /\ Goto(w, IF file[content[w]] = "none" THEN "open" ELSE "return")
    /\ UNCHANGED <<file, named, temp, content, refused, recorded, crashes, outages>>

\* Mutated form of Open: the final path is opened.
OpenFinal(w) ==
    /\ pc[w] = "open"
    /\ file' = [file EXCEPT ![content[w]] = "partial"]
    /\ temp' = [temp EXCEPT ![w] = "partial"]
    /\ Goto(w, "write")
    /\ UNCHANGED <<named, content, refused, recorded, crashes, outages>>

Open(w) ==
    /\ pc[w] = "open"
    /\ temp' = [temp EXCEPT ![w] = "partial"]
    /\ Goto(w, "write")
    /\ UNCHANGED <<file, named, content, refused, recorded, crashes, outages>>

Write(w) ==
    /\ pc[w] = "write"
    /\ temp' = [temp EXCEPT ![w] = "written"]
    /\ Goto(w, "fsync")
    /\ UNCHANGED <<file, named, content, refused, recorded, crashes, outages>>

\* Mutated form of Fsync: handle.flush() alone.
FlushOnly(w) ==
    /\ pc[w] = "fsync"
    /\ Goto(w, "replace")
    /\ UNCHANGED <<file, named, temp, content, refused, recorded, crashes, outages>>

Fsync(w) ==
    /\ pc[w] = "fsync"
    /\ temp' = [temp EXCEPT ![w] = "full"]
    /\ Goto(w, "replace")
    /\ UNCHANGED <<file, named, content, refused, recorded, crashes, outages>>

\* Mutated form of Replace: the bytes are copied (shutil.copyfile).
ReplaceByCopying(w) ==
    /\ pc[w] = "replace"
    /\ file' = [file EXCEPT ![content[w]] = temp[w]]
    /\ Goto(w, "finally")
    /\ UNCHANGED <<named, temp, content, refused, recorded, crashes, outages>>

\* os.replace(temp_path, final_path), atomic, also over a file that another
\* writer of the same bytes has put there since the check.
Replace(w) ==
    /\ pc[w] = "replace"
    /\ file' = [file EXCEPT ![content[w]] = temp[w]]
    /\ temp' = [temp EXCEPT ![w] = "none"]
    /\ Goto(w, "finally")
    /\ UNCHANGED <<named, content, refused, recorded, crashes, outages>>

Refusal(w) == refused' = [refused EXCEPT ![w] = @ + 1]

\* The file system refuses a call before the cleanup; whatever was written so
\* far stays.  The mkdir before the check is outside the try statement.
Refused(w) ==
    /\ pc[w] \in Writing \cup {"check"}
    /\ Refusal(w)
    /\ Goto(w, IF pc[w] = "check" THEN "idle" ELSE "finally")
    /\ UNCHANGED <<file, named, temp, content, recorded, crashes, outages>>

\* What follows the finally clause when it ends of itself: the exception that
\* was on its way, or the return statement.
LeaveFinally(w) == Goto(w, IF refused[w] > 0 THEN "idle" ELSE "return")

\* Mutated form of Finally: what is at the final path is removed as well.
FinallyRemovingFinal(w) ==
    /\ pc[w] = "finally"
    /\ temp' = [temp EXCEPT ![w] = "none"]
    /\ file' = IF refused[w] > 0 THEN [file EXCEPT ![content[w]] = "none"] ELSE file
    /\ LeaveFinally(w)
    /\ UNCHANGED <<named, content, refused, recorded, crashes, outages>>

\* if temp_path.exists(): temp_path.unlink()
Finally(w) ==
    /\ pc[w] = "finally"
    /\ temp' = [temp EXCEPT ![w] = "none"]
    /\ LeaveFinally(w)
    /\ UNCHANGED <<file, named, content, refused, recorded, crashes, outages>>

\* exists() or unlink() raises out of the finally clause, in place of the
\* exception that was on its way, or of the return.
CleanupRefused(w) ==
    /\ pc[w] = "finally"
    /\ Refusal(w)
    /\ Goto(w, "idle")
    /\ UNCHANGED <<file, named, temp, content, recorded, crashes, outages>>

\* The ArtifactRef is returned; the handler's runner completes its stage with
\* it, or cannot (the lease is lost, the task is cancelled).
ReturnRef(w) ==
    /\ pc[w] = "return"
    /\ Goto(w, "idle")
    /\ \/ recorded' = recorded \cup {content[w]}
       \/ UNCHANGED recorded
    /\ UNCHANGED <<file, named, temp, content, refused, crashes, outages>>

\* The system writes a directory back when it pleases: the code does not
\* fsync it.
WriteBack(c) ==
    /\ file[c] # "none"
    /\ c \notin named
    /\ named' = named \cup {c}
    /\ UNCHANGED <<file, temp, pc, content, refused, recorded, crashes, outages>>

\* Threads are gone.  What they leave in temporary files nobody reads or
\* removes: names have a uuid.  It is not followed further.
Die ==
    /\ temp' = [w \in Writers |-> "none"]
    /\ pc' = [w \in Writers |-> "idle"]
    /\ content' = [w \in Writers |-> NoContent]
    /\ refused' = [w \in Writers |-> 0]
    /\ UNCHANGED <<named, recorded>>

Crash ==
    /\ crashes < MaxCrashes
    /\ crashes' = crashes + 1
    /\ Die
    /\ UNCHANGED <<file, outages>>

PowerLoss ==
    /\ outages < MaxOutages
    /\ outages' = outages + 1
    /\ Die
    /\ file' = [c \in Contents |->
                   IF c \notin named THEN "none"
                   ELSE IF file[c] = "written" THEN "partial" ELSE file[c]]
    /\ UNCHANGED crashes

WriterStep(w) ==
    \/ \E c \in Contents : PutBytes(w, c)
    \/ Check(w)
    \/ Open(w)
    \/ Write(w)
    \/ Fsync(w)
    \/ Replace(w)
    \/ Refused(w)
    \/ Finally(w)
    \/ CleanupRefused(w)
    \/ ReturnRef(w)

Next ==
    \/ \E w \in Writers : WriterStep(w)
    \/ \E c \in Contents : WriteBack(c)
    \/ Crash
    \/ PowerLoss

ArtifactSpec == Init /\ [][Next]_vars

-----------------------------------------------------------------------------
\* Every variable holds a value the code and the file system can give it.
ArtifactTypeOK ==
    /\ file \in [Contents -> FileState]
    /\ named \subseteq Contents
    /\ temp \in [Writers -> FileState]
    /\ pc \in [Writers -> {"idle", "check", "finally", "return"} \cup Writing]
    /\ content \in [Writers -> Contents \cup {NoContent}]
    /\ \A w \in Writers : pc[w] # "idle" => content[w] # NoContent
    /\ refused \in [Writers -> 0..2]
    /\ recorded \subseteq Contents
    /\ crashes \in Nat
    /\ outages \in Nat

\* Whatever is at a final path is all there and on disk, however writers of
\* the same bytes race, fail and die: exists() of the final path is as good
\* as reading the file and hashing it.
FinalFilesWhole == \A c \in Contents : file[c] \in {"none", "full"}

\* A put_bytes that ends, also by an exception, leaves its temporary file
\* behind only if the file system refused two of its calls: one while the file
\* was there, and then the cleanup itself.  (One that dies with the process
\* leaves it as well.)
LitterTakesTwoRefusals ==
    \A w \in Writers : temp[w] # "none" =>
        pc[w] \in Writing \cup {"finally"} \/ (pc[w] = "idle" /\ refused[w] = 2)

\* An artifact is immutable: only a crash of the machine can take it from its
\* final path once it is there.
ArtifactsStay ==
    [][outages' = outages => \A c \in Contents : file[c] = "full" => file'[c] = "full"]_vars

\* "Atomically mark a stage complete after its artifacts are durable"
\* (interfaces.py:49): what a completed stage refers to can be read, by
\* get_bytes of the stages that depend on it, however many processes died.
\* A crash of the machine can take no more than the names the file system
\* had not written back yet: the code does not fsync the directory.
RecordedArtifactsReadable ==
    \A c \in recorded : file[c] = "full" \/ (outages > 0 /\ c \notin named)
=============================================================================
