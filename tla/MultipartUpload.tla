-------------------------- MODULE MultipartUpload ---------------------------
(***************************************************************************)
(* One multipart upload from the browser: browserMultipartUpload.ts.       *)
(*                                                                         *)
(* A file is sent by concurrent workers that take its parts from a shared  *)
(* cursor; a stream (a paste between contexts) by one worker, as the parts *)
(* come.  The calls go through the API or to S3 on signed URLs, and S3 is  *)
(* external: it may act on a call whose answer never arrives, late or not  *)
(* at all.  The user cancels, the session ends or the tab closes at any    *)
(* moment.                                                                 *)
(***************************************************************************)
EXTENDS Integers

CONSTANTS
    TotalParts,   \* Math.ceil(file.size / partSize)
    Workers       \* the concurrent part uploads; spare ones find no part

ASSUME UploadAssumption == TotalParts \in Nat \ {0} /\ Workers # {}

VARIABLES
    source,       \* "file" or "stream"
    phase,        \* what the upload's promise waits for
    cursor,       \* parts taken so far
    worker,       \* the workers of Promise.all
    completed,    \* completedParts
    userSignal,   \* the operation's AbortController
    transferSignal, \* transferController, which follows it
    failure,      \* what made the upload fail, if anything did
    outcome,      \* the operation's completion status
    put,          \* the PUT of each part, as S3 sees it
    call,         \* initiate, complete and abort, as S3 sees them
    upload,       \* S3: the multipart upload
    object        \* S3: the parts the object consists of; none, no object

clientVars == <<source, phase, cursor, worker, completed, userSignal,
                transferSignal, failure, outcome>>
s3Vars == <<put, call, upload, object>>
uploadVars == <<clientVars, s3Vars>>

Parts == 1..TotalParts
Calls == {"initiate", "complete", "abort"}
Busy == {"presign", "put"}

\* The types of the state; no worker takes a part past the end of the file,
\* and a worker that is sending has a part of it.
UploadTypeOK ==
    /\ source \in {"file", "stream"}
    /\ phase \in {"start", "initiate", "parts", "complete", "abort", "settled"}
    /\ cursor \in 0..TotalParts
    /\ worker \in [Workers -> [pc : {"idle", "free", "out"}, part : {0}] \cup [pc : Busy, part : Parts]]
    /\ completed \subseteq Parts
    /\ userSignal \in {"live", "aborted"} /\ transferSignal \in {"live", "aborted"}
    /\ failure \in {"none", "error", "AbortError"}
    /\ outcome \in {"running", "done", "cancelled", "failed", "closed"}
    /\ put \in [Parts -> {"none", "sent", "stored", "refused"}]
    /\ call \in [Calls -> {"none", "sent", "ok", "refused"}]
    /\ upload \in {"none", "open", "completed", "aborted"}
    /\ object \subseteq Parts

UploadInit ==
    /\ source \in {"file", "stream"}
    /\ phase = "start" /\ cursor = 0 /\ completed = {}
    /\ worker = [w \in Workers |-> [pc |-> "idle", part |-> 0]]
    /\ userSignal = "live" /\ transferSignal = "live"
    /\ failure = "none" /\ outcome = "running"
    /\ put = [p \in Parts |-> "none"] /\ call = [c \in Calls |-> "none"]
    /\ upload = "none" /\ object = {}

Running == outcome = "running"
IdArrived == \A w \in Workers : worker[w].pc # "idle"

\* The operation of a file reports what the upload rejects with.  A paste,
\* which a stream belongs to, reports "cancelled" whenever it was cancelled.
PasteCancelled == source = "stream" /\ userSignal = "aborted"
Reported(error) ==
    IF error = "AbortError" \/ PasteCancelled THEN "cancelled" ELSE "failed"

-----------------------------------------------------------------------------
(***************************************************************************)
(* Initiate, and the outer try of the upload.                              *)
(***************************************************************************)

\* throwIfAborted, for a file only, then initiate.  Before that there is no
\* upload to abort.
Begin ==
    /\ Running /\ phase = "start"
    /\ IF source = "file" /\ userSignal = "aborted"
       THEN /\ phase' = "settled" /\ outcome' = "cancelled" /\ failure' = "AbortError"
            /\ UNCHANGED call
       ELSE /\ phase' = "initiate" /\ call' = [call EXCEPT !["initiate"] = "sent"]
            /\ UNCHANGED <<outcome, failure>>
    /\ UNCHANGED <<source, cursor, worker, completed, userSignal, transferSignal,
                   put, upload, object>>

\* The upload id arrives and the workers start; a stream has one.
Initiated ==
    /\ Running /\ phase = "initiate" /\ call["initiate"] = "ok"
    /\ phase' = "parts"
    /\ \E first \in Workers :
          worker' = [w \in Workers |->
                        [pc |-> IF source = "file" \/ w = first THEN "free" ELSE "out",
                         part |-> 0]]
    /\ UNCHANGED <<source, cursor, completed, userSignal, transferSignal, failure,
                   outcome, s3Vars>>

\* Refused, lost or timed out: uploadId is null, so abortStartedUpload returns.
InitiateFails ==
    /\ Running /\ phase = "initiate"
    /\ phase' = "settled" /\ outcome' = Reported("error") /\ failure' = "error"
    /\ UNCHANGED <<source, cursor, worker, completed, userSignal, transferSignal, s3Vars>>

-----------------------------------------------------------------------------
(***************************************************************************)
(* The parts.                                                              *)
(***************************************************************************)

Goes(w, pc, part) == worker' = [worker EXCEPT ![w] = [pc |-> pc, part |-> part]]

\* Mutant of TakePart: cursor <= parts.length.
TakePartPastEnd(w) ==
    /\ Running /\ phase = "parts" /\ worker[w].pc = "free"
    /\ transferSignal = "live" /\ cursor <= TotalParts
    /\ cursor' = cursor + 1
    /\ Goes(w, "presign", cursor + 1)
    /\ UNCHANGED <<source, phase, completed, userSignal, transferSignal, failure,
                   outcome, s3Vars>>

\* while (!aborted && cursor < parts.length) take a part and ask for its URL.
\* A stream's next part has arrived, and flushPart found no abort.
TakePart(w) ==
    /\ Running /\ phase = "parts" /\ worker[w].pc = "free"
    /\ transferSignal = "live" /\ cursor < TotalParts
    /\ cursor' = cursor + 1
    /\ Goes(w, "presign", cursor + 1)
    /\ UNCHANGED <<source, phase, completed, userSignal, transferSignal, failure,
                   outcome, s3Vars>>

\* The loop of a worker ends; an aborted stream throws instead (StreamStops).
LeaveLoop(w) ==
    /\ Running /\ phase = "parts" /\ worker[w].pc = "free"
    /\ cursor = TotalParts \/ (source = "file" /\ transferSignal = "aborted")
    /\ Goes(w, "out", 0)
    /\ UNCHANGED <<source, phase, cursor, completed, userSignal, transferSignal,
                   failure, outcome, s3Vars>>

\* The signed URL is here: the part is sent, unless the transfer was aborted
\* meanwhile (see PartFails).
Presigned(w) ==
    /\ Running /\ worker[w].pc = "presign" /\ transferSignal = "live"
    /\ Goes(w, "put", worker[w].part)
    /\ put' = [put EXCEPT ![worker[w].part] = "sent"]
    /\ UNCHANGED <<source, phase, cursor, completed, userSignal, transferSignal,
                   failure, outcome, call, upload, object>>

\* A successful response with an ETag.  An abort rejects the fetch at once, so
\* none is read after it.
PartStored(w) ==
    /\ Running /\ worker[w].pc = "put" /\ transferSignal = "live"
    /\ put[worker[w].part] = "stored"
    /\ completed' = completed \cup {worker[w].part}
    /\ Goes(w, "free", 0)
    /\ UNCHANGED <<source, phase, cursor, userSignal, transferSignal, failure,
                   outcome, s3Vars>>

\* The first failure is kept, and ends the other workers' fetches and loops.
Fail(w, error) ==
    /\ failure' = IF failure = "none" THEN error ELSE failure
    /\ transferSignal' = "aborted"
    /\ Goes(w, IF source = "file" THEN "free" ELSE "out", 0)

\* A signed URL refused, an unanswered or refused PUT, a response without an
\* ETag; or the worker that sends it was closed because the session ended.
PartFails(w) ==
    /\ Running /\ worker[w].pc \in Busy
    /\ \/ Fail(w, "error")
       \/ worker[w].pc = "put" /\ Fail(w, "AbortError")
    /\ UNCHANGED <<source, phase, cursor, completed, userSignal, outcome, s3Vars>>

\* An aborted transfer rejects the PUT, and the signed URL is not used.
PartAborted(w) ==
    /\ Running /\ worker[w].pc \in Busy /\ transferSignal = "aborted"
    /\ Fail(w, "AbortError")
    /\ UNCHANGED <<source, phase, cursor, completed, userSignal, outcome, s3Vars>>

\* The stream breaks or ends at another size than announced; an aborted one
\* throws at its next part.
StreamStops(w) ==
    /\ Running /\ source = "stream" /\ phase = "parts" /\ worker[w].pc = "free"
    /\ Fail(w, IF userSignal = "aborted" THEN "AbortError" ELSE "error")
    /\ UNCHANGED <<source, phase, cursor, completed, userSignal, outcome, s3Vars>>

-----------------------------------------------------------------------------
(***************************************************************************)
(* Complete, abort, and the end.                                           *)
(***************************************************************************)

Send(c) == call' = [call EXCEPT ![c] = "sent"]

\* Mutant of AllWorkersOut: the failure is not looked at.
AllWorkersOutUnchecked ==
    /\ Running /\ phase = "parts" /\ \A w \in Workers : worker[w].pc = "out"
    /\ phase' = "complete" /\ Send("complete") /\ UNCHANGED failure
    /\ UNCHANGED <<source, cursor, worker, completed, userSignal, transferSignal,
                   outcome, put, upload, object>>

\* Promise.all is through: a failure, or a cancelled file, is aborted; the
\* rest is completed with the parts that were stored.
AllWorkersOut ==
    /\ Running /\ phase = "parts" /\ \A w \in Workers : worker[w].pc = "out"
    /\ LET error == IF failure = "none" /\ source = "file" /\ userSignal = "aborted"
                    THEN "AbortError" ELSE failure IN
       /\ failure' = error
       /\ IF error = "none"
          THEN phase' = "complete" /\ Send("complete")
          ELSE phase' = "abort" /\ Send("abort")
    /\ UNCHANGED <<source, cursor, worker, completed, userSignal, transferSignal,
                   outcome, put, upload, object>>

Completed ==
    /\ Running /\ phase = "complete" /\ call["complete"] = "ok"
    /\ phase' = "settled" /\ outcome' = IF PasteCancelled THEN "cancelled" ELSE "done"
    /\ UNCHANGED <<source, cursor, worker, completed, userSignal, transferSignal,
                   failure, s3Vars>>

\* Mutant of CompleteFails: the error is rethrown without aborting.
CompleteFailsUnaborted ==
    /\ Running /\ phase = "complete"
    /\ phase' = "settled" /\ outcome' = Reported("error") /\ failure' = "error"
    /\ UNCHANGED <<source, cursor, worker, completed, userSignal, transferSignal, s3Vars>>

\* Refused, lost or timed out: S3 may yet have published the object.
CompleteFails ==
    /\ Running /\ phase = "complete"
    /\ phase' = "abort" /\ failure' = "error" /\ Send("abort")
    /\ UNCHANGED <<source, cursor, worker, completed, userSignal, transferSignal,
                   outcome, put, upload, object>>

\* abortStartedUpload swallows its own errors; the first one is rethrown.
AbortAnswered ==
    /\ Running /\ phase = "abort"
    /\ phase' = "settled" /\ outcome' = Reported(failure)
    /\ UNCHANGED <<source, cursor, worker, completed, userSignal, transferSignal,
                   failure, s3Vars>>

\* Mutant of Cancel: the transfer's controller does not follow the user's.
CancelUnforwarded ==
    /\ Running /\ userSignal = "live"
    /\ userSignal' = "aborted"
    /\ UNCHANGED <<source, phase, cursor, worker, completed, transferSignal, failure,
                   outcome, s3Vars>>

\* The operation is cancelled, alone or with its group, or the page unmounts.
Cancel ==
    /\ Running /\ userSignal = "live"
    /\ userSignal' = "aborted" /\ transferSignal' = "aborted"
    /\ UNCHANGED <<source, phase, cursor, worker, completed, failure, outcome, s3Vars>>

CloseTab ==
    /\ Running
    /\ outcome' = "closed" /\ phase' = "settled"
    /\ UNCHANGED <<source, cursor, worker, completed, userSignal, transferSignal,
                   failure, s3Vars>>

-----------------------------------------------------------------------------
(***************************************************************************)
(* S3, behind complete_multipart_upload and its neighbours of the API: it  *)
(* refuses any call it likes, and every call on an upload that is over.    *)
(***************************************************************************)

Answer(c, answer) == call' = [call EXCEPT ![c] = answer]

Serve(c) ==
    /\ call[c] = "sent"
    /\ \/ Answer(c, "refused") /\ UNCHANGED <<upload, object>>
       \/ /\ c = "initiate" /\ Answer(c, "ok")
          /\ upload' = "open" /\ UNCHANGED object
       \/ /\ c = "complete" /\ upload = "open" /\ Answer(c, "ok")
          /\ completed # {} /\ \A p \in completed : put[p] = "stored"
          /\ upload' = "completed" /\ object' = completed
       \/ /\ c = "abort" /\ upload = "open" /\ Answer(c, "ok")
          /\ upload' = "aborted" /\ UNCHANGED object
    /\ UNCHANGED <<clientVars, put>>

ServePut(p) ==
    /\ put[p] = "sent"
    /\ \/ put' = [put EXCEPT ![p] = "refused"]
       \/ upload = "open" /\ put' = [put EXCEPT ![p] = "stored"]
    /\ UNCHANGED <<clientVars, call, upload, object>>

-----------------------------------------------------------------------------
WorkerStep(w) ==
    \/ TakePart(w) \/ LeaveLoop(w) \/ Presigned(w) \/ PartStored(w)
    \/ PartFails(w) \/ PartAborted(w) \/ StreamStops(w)

UploadNext ==
    \/ Begin \/ Initiated \/ InitiateFails
    \/ \E w \in Workers : WorkerStep(w)
    \/ AllWorkersOut \/ Completed \/ CompleteFails \/ AbortAnswered
    \/ Cancel \/ CloseTab
    \/ \E c \in Calls : Serve(c)
    \/ \E p \in Parts : ServePut(p)

UploadSpec == UploadInit /\ [][UploadNext]_uploadVars

\* The page's own steps follow one another, and a call of the API is answered
\* or breaks: the backend bounds its own calls to S3.  A PUT to S3 itself may
\* hang and a stream may stall: nothing is assumed of PartStored, of
\* StreamStops before an abort, of S3 or of the user.
FairUploadSpec ==
    /\ UploadSpec
    /\ WF_uploadVars(Begin) /\ WF_uploadVars(Initiated \/ InitiateFails)
    /\ \A w \in Workers :
          /\ WF_uploadVars(LeaveLoop(w)) /\ WF_uploadVars(PartAborted(w))
          /\ WF_uploadVars(source = "file" /\ TakePart(w))
          /\ WF_uploadVars(worker[w].pc = "presign" /\ (Presigned(w) \/ PartFails(w)))
          /\ WF_uploadVars(userSignal = "aborted" /\ StreamStops(w))
    /\ WF_uploadVars(AllWorkersOut)
    /\ WF_uploadVars(Completed \/ CompleteFails) /\ WF_uploadVars(AbortAnswered)

-----------------------------------------------------------------------------
(***************************************************************************)
(* Properties.                                                             *)
(***************************************************************************)

\* The upload implements AtomicUpload: however the workers interleave and
\* whatever is lost, cancelled or refused, only the whole file is ever
\* published, "done" means it was, and a file's "cancelled" that it never will
\* be.
Atomic == INSTANCE AtomicUpload WITH
    object <- IF object = {} THEN "absent" ELSE IF object = Parts THEN "whole" ELSE "torn"
ImplementsAtomicUpload == Atomic!Spec

\* uploadBrowserFileMultipart's catch: an upload whose id the page knew is left
\* open in S3 only when the abort itself was lost or refused.
NothingLeftOpen ==
    outcome \in {"done", "cancelled", "failed"} /\ IdArrived /\ upload = "open"
        => call["abort"] \in {"sent", "refused"}

\* A cancelled upload ends, even when a part's PUT hangs for ever: the signal
\* reaches every worker and nothing waits for S3 without a timeout.
CancelSettles == userSignal = "aborted" ~> ~Running
=============================================================================
