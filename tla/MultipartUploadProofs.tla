----------------------- MODULE MultipartUploadProofs ------------------------
(***************************************************************************)
(* A multipart upload is atomic, for any number of parts and workers.      *)
(***************************************************************************)
EXTENDS MultipartUpload, TLAPS

WorkerStates == [pc : {"idle", "free", "out"}, part : {0}] \cup [pc : Busy, part : Parts]
CallStates == {"none", "sent", "ok", "refused"}

\* Goes moves one worker and no other.
LEMMA GoesEffect ==
    ASSUME worker \in [Workers -> WorkerStates],
           NEW w \in Workers, NEW pc, NEW part, Goes(w, pc, part),
           \/ pc \in {"idle", "free", "out"} /\ part = 0
           \/ pc \in Busy /\ part \in Parts
    PROVE  /\ worker' \in [Workers -> WorkerStates]
           /\ worker'[w].pc = pc /\ worker'[w].part = part
           /\ \A v \in Workers \ {w} : worker'[v] = worker[v]
  BY DEF Goes, WorkerStates, Busy

\* A call that is sent or answered changes its own entry and no other.
LEMMA CallEffect ==
    ASSUME call \in [Calls -> CallStates], NEW c \in Calls, NEW answer \in CallStates,
           call' = [call EXCEPT ![c] = answer]
    PROVE  /\ call' \in [Calls -> CallStates]
           /\ call'[c] = answer
           /\ \A d \in Calls \ {c} : call'[d] = call[d]
  BY DEF CallStates

\* The calls by name, for the steps that name them.
LEMMA CallNames ==
    "initiate" \in Calls /\ "complete" \in Calls /\ "abort" \in Calls
  BY DEF Calls

\* The type invariant in the form the steps use.
LEMMA UploadTypesUsed ==
    ASSUME UploadTypeOK
    PROVE  worker \in [Workers -> WorkerStates] /\ call \in [Calls -> CallStates]
  BY DEF UploadTypeOK, WorkerStates, CallStates

-----------------------------------------------------------------------------
\* Every step of the upload keeps the types.
LEMMA UploadTypesStep ==
    ASSUME UploadTypeOK, [UploadNext]_uploadVars
    PROVE  UploadTypeOK'
<1> USE UploadAssumption, CallNames, UploadTypesUsed
<1>0. CASE UNCHANGED uploadVars
  BY <1>0 DEF UploadTypeOK, uploadVars, clientVars, s3Vars, Calls, Parts
<1>1. CASE Begin
  BY <1>1 DEF Begin, UploadTypeOK, Running, Calls, Parts
<1>2. CASE Initiated
  <2>1. worker' \in [Workers -> WorkerStates]
    BY <1>2 DEF Initiated, WorkerStates, Busy
  <2> QED
    BY <1>2, <2>1 DEF Initiated, UploadTypeOK, s3Vars, WorkerStates, Calls, Parts
<1>3. CASE InitiateFails
  BY <1>3 DEF InitiateFails, Reported, UploadTypeOK, s3Vars, Calls, Parts
<1>4. ASSUME NEW w \in Workers, TakePart(w) PROVE UploadTypeOK'
  <2>1. cursor + 1 \in Parts
    BY <1>4 DEF TakePart, UploadTypeOK, Parts
  <2>2. worker' \in [Workers -> WorkerStates]
    BY <1>4, <2>1, GoesEffect DEF TakePart, Busy
  <2> QED
    BY <1>4, <2>1, <2>2 DEF TakePart, UploadTypeOK, s3Vars, WorkerStates, Calls, Parts
<1>5. ASSUME NEW w \in Workers, LeaveLoop(w) PROVE UploadTypeOK'
  <2>1. worker' \in [Workers -> WorkerStates]
    BY <1>5, GoesEffect DEF LeaveLoop
  <2> QED
    BY <1>5, <2>1 DEF LeaveLoop, UploadTypeOK, s3Vars, WorkerStates, Calls, Parts
<1>6. ASSUME NEW w \in Workers, Presigned(w) PROVE UploadTypeOK'
  <2>1. worker[w].part \in Parts
    BY <1>6 DEF Presigned, WorkerStates, Busy
  <2>2. worker' \in [Workers -> WorkerStates]
    BY <1>6, <2>1, GoesEffect DEF Presigned, Busy
  <2> QED
    BY <1>6, <2>2 DEF Presigned, UploadTypeOK, WorkerStates, Calls, Parts
<1>7. ASSUME NEW w \in Workers, PartStored(w) PROVE UploadTypeOK'
  <2>1. worker' \in [Workers -> WorkerStates]
    BY <1>7, GoesEffect DEF PartStored
  <2>2. worker[w].part \in Parts
    BY <1>7 DEF PartStored, WorkerStates, Busy
  <2> QED
    BY <1>7, <2>1, <2>2 DEF PartStored, UploadTypeOK, s3Vars, WorkerStates, Calls, Parts
<1>8. ASSUME NEW w \in Workers, NEW error \in {"error", "AbortError"}, Fail(w, error),
             UNCHANGED <<source, phase, cursor, completed, userSignal, outcome, s3Vars>>
      PROVE UploadTypeOK'
  <2>1. worker' \in [Workers -> WorkerStates]
    BY <1>8, GoesEffect DEF Fail
  <2> QED
    BY <1>8, <2>1 DEF Fail, UploadTypeOK, s3Vars, WorkerStates, Calls, Parts
<1>9. ASSUME NEW w \in Workers, PartFails(w) \/ PartAborted(w) \/ StreamStops(w)
      PROVE UploadTypeOK'
  BY <1>8, <1>9 DEF PartFails, PartAborted, StreamStops
<1>10. CASE AllWorkersOut
  BY <1>10 DEF AllWorkersOut, Send, UploadTypeOK, Calls, Parts
<1>11. CASE Completed
  BY <1>11 DEF Completed, UploadTypeOK, s3Vars, Calls, Parts
<1>12. CASE CompleteFails
  BY <1>12 DEF CompleteFails, Send, UploadTypeOK, Calls, Parts
<1>13. CASE AbortAnswered
  BY <1>13 DEF AbortAnswered, Reported, UploadTypeOK, s3Vars, Calls, Parts
<1>14. CASE Cancel
  BY <1>14 DEF Cancel, UploadTypeOK, s3Vars, Calls, Parts
<1>15. CASE CloseTab
  BY <1>15 DEF CloseTab, UploadTypeOK, s3Vars, Calls, Parts
<1>16. ASSUME NEW c \in Calls, Serve(c) PROVE UploadTypeOK'
  <2>1. call' \in [Calls -> CallStates]
    BY <1>16, CallEffect DEF Serve, Answer, CallStates
  <2>2. upload' \in {"none", "open", "completed", "aborted"} /\ object' \subseteq Parts
    BY <1>16 DEF Serve, UploadTypeOK
  <2> QED
    BY <1>16, <2>1, <2>2 DEF Serve, UploadTypeOK, clientVars, CallStates, Parts
<1>17. ASSUME NEW p \in Parts, ServePut(p) PROVE UploadTypeOK'
  BY <1>17 DEF ServePut, UploadTypeOK, clientVars, Calls, Parts
<1> QED
  BY <1>0, <1>1, <1>2, <1>3, <1>4, <1>5, <1>6, <1>7, <1>9, <1>10, <1>11, <1>12, <1>13,
     <1>14, <1>15, <1>16, <1>17 DEF UploadNext, WorkerStep

\* The variables of the model keep their types, for any number of parts and
\* workers; with no part put or completed that the file does not have.
THEOREM UploadTypes == UploadSpec => []UploadTypeOK
<1>1. UploadInit => UploadTypeOK
  BY UploadAssumption DEF UploadInit, UploadTypeOK, Calls, Parts, Busy
<1> QED
  BY <1>1, UploadTypesStep, PTL DEF UploadSpec

-----------------------------------------------------------------------------
(***************************************************************************)
(* The inductive invariant.  Order ties the calls to the phases; Taken,    *)
(* Through and Follows say why a worker pool that ends without a failure   *)
(* has stored every part; the rest is what S3 then does with it.           *)
(***************************************************************************)
Order ==
    /\ phase = "start" => call["initiate"] = "none"
    /\ phase \in {"start", "initiate"} => cursor = 0 /\ \A w \in Workers : worker[w].pc = "idle"
    /\ phase \in {"start", "initiate", "parts"} => call["complete"] = "none" /\ call["abort"] = "none"
    /\ phase \in {"parts", "complete", "abort"} => call["initiate"] = "ok"
    /\ phase \in {"complete", "abort"} => \A w \in Workers : worker[w].pc = "out"
    /\ phase = "abort" => call["abort"] # "none"
    /\ phase = "complete" => call["abort"] = "none"
    /\ Running <=> phase # "settled"

Taken ==
    phase = "parts" /\ failure = "none" =>
        \A p \in 1..cursor : p \in completed \/ \E w \in Workers : worker[w].pc \in Busy /\ worker[w].part = p

Through ==
    phase = "parts" /\ failure = "none" /\ (\A w \in Workers : worker[w].pc = "out")
        => cursor = TotalParts \/ (source = "file" /\ transferSignal = "aborted")

Follows == transferSignal = "aborted" /\ failure = "none" => userSignal = "aborted"

Published ==
    /\ call["complete"] # "none" => completed = Parts
    /\ object = IF call["complete"] = "ok" THEN Parts ELSE {}
    /\ outcome = "done" => call["complete"] = "ok"
    /\ source = "file" /\ outcome = "cancelled" => call["complete"] = "none"
    /\ phase = "abort" /\ failure = "AbortError" => call["complete"] = "none"

Closing ==
    /\ upload = "none" <=> call["initiate"] # "ok"
    /\ call["complete"] = "ok" => upload = "completed"
    /\ call["abort"] = "ok" => upload = "aborted"
    /\ call["complete"] # "none" \/ call["abort"] # "none" => call["initiate"] = "ok"
    /\ outcome \in {"cancelled", "failed"} /\ IdArrived =>
          call["abort"] # "none" \/ call["complete"] = "ok"

UploadInv == Order /\ Taken /\ Through /\ Follows /\ Published /\ Closing

\* The facts in which a step that moves one worker, and leaves phase, calls and
\* S3 alone, is seen by the invariant.
LEMMA WorkerMoves ==
    ASSUME UploadTypeOK, UploadTypeOK', UploadInv, Running, phase = "parts",
           UNCHANGED <<source, phase, userSignal, outcome, call, upload, object>>,
           completed \subseteq completed', Taken', Through', Follows'
    PROVE  UploadInv'
<1> USE CallNames
<1>1. Order'
  BY DEF UploadInv, Order, Running
<1>2. Published'
  BY DEF UploadInv, Order, Published, Running, UploadTypeOK
<1>3. Closing'
  BY DEF UploadInv, Order, Closing, Running, IdArrived
<1> QED
  BY <1>1, <1>2, <1>3 DEF UploadInv

\* A worker that failed leaves nothing for Taken and Through to say.
LEMMA FailKeeps ==
    ASSUME UploadTypeOK, UploadTypeOK', UploadInv, Running, phase = "parts",
           NEW w \in Workers, NEW error \in {"error", "AbortError"}, Fail(w, error),
           UNCHANGED <<source, phase, cursor, completed, userSignal, outcome, s3Vars>>
    PROVE  UploadInv'
<1>1. failure' # "none"
  BY DEF Fail
<1>2. Taken' /\ Through' /\ Follows'
  BY <1>1 DEF Taken, Through, Follows
<1> QED
  BY <1>2, WorkerMoves DEF s3Vars

\* A worker is busy only while the parts are sent, as long as the page lives.
LEMMA BusyInParts ==
    ASSUME UploadTypeOK, UploadInv, Running, NEW w \in Workers, worker[w].pc \in Busy
    PROVE  phase = "parts"
  BY DEF UploadInv, Order, Busy, Running, UploadTypeOK

\* Every step keeps the invariant.
LEMMA UploadInvStep ==
    ASSUME UploadTypeOK, UploadTypeOK', UploadInv, [UploadNext]_uploadVars
    PROVE  UploadInv'
<1> USE UploadAssumption, CallNames, UploadTypesUsed
<1>0. CASE UNCHANGED uploadVars
  BY <1>0 DEF uploadVars, clientVars, s3Vars, UploadInv, Order, Taken, Through,
     Follows, Published, Closing, Running, IdArrived
<1>1. CASE Begin
  <2>1. CASE source = "file" /\ userSignal = "aborted"
    BY <1>1, <2>1 DEF Begin, UploadInv, Order, Taken, Through, Follows, Published,
       Closing, Running, IdArrived
  <2>2. CASE ~(source = "file" /\ userSignal = "aborted")
    <3>1. /\ call'["initiate"] = "sent" /\ call'["complete"] = call["complete"]
          /\ call'["abort"] = call["abort"]
      BY <1>1, <2>2, CallEffect DEF Begin, CallStates, Calls
    <3> QED
      BY <1>1, <2>2, <3>1 DEF Begin, UploadInv, Order, Taken, Through, Follows, Published,
         Closing, Running, IdArrived
  <2> QED
    BY <2>1, <2>2
<1>2. CASE Initiated
  <2>1. PICK first \in Workers :
           worker' = [w \in Workers |->
                        [pc |-> IF source = "file" \/ w = first THEN "free" ELSE "out", part |-> 0]]
    BY <1>2 DEF Initiated
  <2>2. worker'[first].pc = "free"
    BY <2>1
  <2>3. Taken' /\ Through'
    BY <1>2, <2>2 DEF Initiated, UploadInv, Order, Taken, Through
  <2> QED
    BY <1>2, <2>3 DEF Initiated, s3Vars, UploadInv, Order, Follows, Published,
       Closing, Running, IdArrived
<1>3. CASE InitiateFails
  BY <1>3 DEF InitiateFails, Reported, s3Vars, UploadInv, Order, Taken, Through, Follows, Published,
     Closing, Running, IdArrived
<1>4. ASSUME NEW w \in Workers, TakePart(w) PROVE UploadInv'
  <2>1. cursor + 1 \in Parts /\ "presign" \in Busy
    BY <1>4 DEF TakePart, UploadTypeOK, Parts, Busy
  <2>2. /\ worker'[w].pc = "presign" /\ worker'[w].part = cursor + 1
        /\ \A v \in Workers \ {w} : worker'[v] = worker[v]
    BY <1>4, <2>1, GoesEffect DEF TakePart
  <2>3. Taken'
    <3> SUFFICES ASSUME phase = "parts", failure = "none", NEW p \in 1..(cursor + 1)
                 PROVE  p \in completed \/ \E v \in Workers : worker'[v].pc \in Busy /\ worker'[v].part = p
      BY <1>4 DEF TakePart, Taken
    <3>1. CASE p = cursor + 1
      BY <3>1, <2>1, <2>2
    <3>2. CASE p # cursor + 1
      <4>1. p \in 1..cursor
        BY <3>2 DEF UploadTypeOK
      <4>2. p \in completed \/ \E v \in Workers : worker[v].pc \in Busy /\ worker[v].part = p
        BY <4>1 DEF UploadInv, Taken
      <4>3. worker[w].pc \notin Busy
        BY <1>4 DEF TakePart, Busy
      <4> QED
        BY <4>2, <4>3, <2>2
    <3> QED
      BY <3>1, <3>2
  <2>4. Through' /\ Follows'
    BY <1>4, <2>2 DEF TakePart, Through, Follows
  <2> QED
    BY <1>4, <2>3, <2>4, WorkerMoves DEF TakePart, s3Vars
<1>5. ASSUME NEW w \in Workers, LeaveLoop(w) PROVE UploadInv'
  <2>1. \A v \in Workers \ {w} : worker'[v] = worker[v]
    BY <1>5, GoesEffect DEF LeaveLoop
  <2>2. worker[w].pc \notin Busy
    BY <1>5 DEF LeaveLoop, Busy
  <2>3. Taken'
    BY <1>5, <2>1, <2>2 DEF LeaveLoop, UploadInv, Taken
  <2>4. Through' /\ Follows'
    BY <1>5 DEF LeaveLoop, UploadInv, Through, Follows
  <2> QED
    BY <1>5, <2>3, <2>4, WorkerMoves DEF LeaveLoop, s3Vars
<1>6. ASSUME NEW w \in Workers, Presigned(w) PROVE UploadInv'
  <2>1. worker[w].part \in Parts /\ "put" \in Busy /\ worker[w].pc \in Busy
    BY <1>6 DEF Presigned, WorkerStates, Busy
  <2>2. /\ worker'[w].pc = "put" /\ worker'[w].part = worker[w].part
        /\ \A v \in Workers \ {w} : worker'[v] = worker[v]
    BY <1>6, <2>1, GoesEffect DEF Presigned
  <2>3. phase = "parts"
    BY <1>6, <2>1, BusyInParts DEF Presigned
  <2>4. Taken'
    BY <1>6, <2>1, <2>2 DEF Presigned, UploadInv, Taken
  <2>5. Through' /\ Follows'
    BY <1>6, <2>2 DEF Presigned, UploadInv, Through, Follows
  <2> QED
    BY <1>6, <2>3, <2>4, <2>5, WorkerMoves DEF Presigned
<1>7. ASSUME NEW w \in Workers, PartStored(w) PROVE UploadInv'
  <2>1. worker[w].pc \in Busy
    BY <1>7 DEF PartStored, Busy
  <2>2. /\ worker'[w].pc = "free"
        /\ \A v \in Workers \ {w} : worker'[v] = worker[v]
    BY <1>7, GoesEffect DEF PartStored
  <2>3. phase = "parts"
    BY <1>7, <2>1, BusyInParts DEF PartStored
  <2>4. Taken'
    BY <1>7, <2>2 DEF PartStored, UploadInv, Taken
  <2>5. Through' /\ Follows'
    BY <1>7, <2>2 DEF PartStored, UploadInv, Through, Follows
  <2> QED
    BY <1>7, <2>3, <2>4, <2>5, WorkerMoves DEF PartStored, s3Vars
<1>8. ASSUME NEW w \in Workers, PartFails(w) \/ PartAborted(w) \/ StreamStops(w)
      PROVE UploadInv'
  <2>1. phase = "parts" /\ Running
    BY <1>8, BusyInParts DEF PartFails, PartAborted, StreamStops
  <2> QED
    BY <1>8, <2>1, FailKeeps DEF PartFails, PartAborted, StreamStops
<1>9. CASE AllWorkersOut
  <2> DEFINE error == IF failure = "none" /\ source = "file" /\ userSignal = "aborted"
                      THEN "AbortError" ELSE failure
  <2>1. CASE error = "none"
    <3>1. failure = "none" /\ ~(source = "file" /\ transferSignal = "aborted")
      BY <2>1 DEF UploadInv, Follows
    <3>2. cursor = TotalParts
      BY <1>9, <3>1 DEF AllWorkersOut, UploadInv, Through
    <3>3. completed = Parts
      BY <1>9, <3>1, <3>2 DEF AllWorkersOut, UploadInv, Taken, Busy, Parts, UploadTypeOK
    <3>4. phase' = "complete" /\ failure' = "none" /\ call' = [call EXCEPT !["complete"] = "sent"]
      BY <1>9, <2>1 DEF AllWorkersOut, Send
    <3>5. /\ call'["complete"] = "sent" /\ call'["initiate"] = call["initiate"]
          /\ call'["abort"] = call["abort"]
      BY <3>4, CallEffect DEF CallStates, Calls
    <3> QED
      BY <1>9, <3>3, <3>4, <3>5 DEF AllWorkersOut, UploadInv, Order, Taken, Through,
         Follows, Published, Closing, Running, IdArrived
  <2>2. CASE error # "none"
    <3>1. phase' = "abort" /\ failure' = error /\ call' = [call EXCEPT !["abort"] = "sent"]
      BY <1>9, <2>2 DEF AllWorkersOut, Send
    <3>2. /\ call'["abort"] = "sent" /\ call'["initiate"] = call["initiate"]
          /\ call'["complete"] = call["complete"]
      BY <3>1, CallEffect DEF CallStates, Calls
    <3> QED
      BY <1>9, <2>2, <3>1, <3>2 DEF AllWorkersOut, UploadInv, Order, Taken, Through,
         Follows, Published, Closing, Running, IdArrived
  <2> QED
    BY <2>1, <2>2
<1>10. CASE Completed
  BY <1>10 DEF Completed, PasteCancelled, s3Vars, UploadInv, Order, Taken, Through, Follows, Published,
     Closing, Running, IdArrived
<1>11. CASE CompleteFails
  <2>1. /\ call'["abort"] = "sent" /\ call'["initiate"] = call["initiate"]
        /\ call'["complete"] = call["complete"]
    BY <1>11, CallEffect DEF CompleteFails, Send, CallStates, Calls
  <2> QED
    BY <1>11, <2>1 DEF CompleteFails, UploadInv, Order, Taken, Through, Follows, Published,
       Closing, Running, IdArrived
<1>12. CASE AbortAnswered
  BY <1>12 DEF AbortAnswered, Reported, PasteCancelled, s3Vars, UploadInv, Order, Taken, Through, Follows,
     Published, Closing, Running, IdArrived
<1>13. CASE Cancel
  BY <1>13 DEF Cancel, s3Vars, UploadInv, Order, Taken, Through, Follows,
     Published, Closing, Running, IdArrived
<1>14. CASE CloseTab
  BY <1>14 DEF CloseTab, s3Vars, UploadInv, Order, Taken, Through, Follows,
     Published, Closing, Running, IdArrived
<1>15. ASSUME NEW c \in Calls, Serve(c) PROVE UploadInv'
  <2>1. PICK answer \in {"ok", "refused"} : call' = [call EXCEPT ![c] = answer]
    BY <1>15 DEF Serve, Answer
  <2>2. call'[c] = answer /\ \A d \in Calls \ {c} : call'[d] = call[d]
    BY <2>1, CallEffect DEF CallStates
  <2>3. Order' /\ Taken' /\ Through' /\ Follows'
    BY <1>15, <2>2 DEF Serve, clientVars, UploadInv, Order, Taken, Through, Follows, Running
  <2>4. Published'
    BY <1>15, <2>2 DEF Serve, Answer, clientVars, UploadInv, Published, Closing, Calls
  <2>5. Closing'
    BY <1>15, <2>2 DEF Serve, Answer, clientVars, UploadInv, Closing, Calls, IdArrived
  <2> QED
    BY <2>3, <2>4, <2>5 DEF UploadInv
<1>16. ASSUME NEW p \in Parts, ServePut(p) PROVE UploadInv'
  BY <1>16 DEF ServePut, clientVars, UploadInv, Order, Taken, Through, Follows,
     Published, Closing, Running, IdArrived
<1> QED
  BY <1>0, <1>1, <1>2, <1>3, <1>4, <1>5, <1>6, <1>7, <1>8, <1>9, <1>10, <1>11, <1>12, <1>13,
     <1>14, <1>15, <1>16 DEF UploadNext, WorkerStep

\* The initial states satisfy the invariant.
LEMMA UploadInvInit == UploadInit => UploadInv
  BY UploadAssumption, CallNames DEF UploadInit, UploadInv, Order, Taken, Through, Follows,
     Published, Closing, Running, IdArrived

\* The invariant holds in every reachable state.
LEMMA UploadInvariant == UploadSpec => [](UploadTypeOK /\ UploadInv)
<1>1. UploadTypeOK /\ UploadInv /\ [UploadNext]_uploadVars => (UploadTypeOK /\ UploadInv)'
  BY UploadTypesStep, UploadInvStep
<1>2. UploadInit => UploadTypeOK
  BY UploadAssumption DEF UploadInit, UploadTypeOK, Calls, Parts, Busy
<1> QED
  BY <1>1, <1>2, UploadInvInit, PTL DEF UploadSpec

-----------------------------------------------------------------------------
(***************************************************************************)
(* The refinement.                                                         *)
(***************************************************************************)
Mapped == IF object = {} THEN "absent" ELSE IF object = Parts THEN "whole" ELSE "torn"

\* Published seen through the refinement mapping.
LEMMA MappedObject ==
    ASSUME UploadInv
    PROVE  Mapped = IF call["complete"] = "ok" THEN "whole" ELSE "absent"
<1>1. 1 \in Parts
  BY UploadAssumption DEF Parts
<1> QED
  BY <1>1 DEF UploadInv, Published, Mapped

\* A step of the upload is a step of AtomicUpload or leaves its state alone.
LEMMA AtomicStep ==
    ASSUME UploadTypeOK, UploadTypeOK', UploadInv, UploadInv', [UploadNext]_uploadVars
    PROVE  [Atomic!Publish \/ Atomic!Settle]_<<source, Mapped, outcome>>
<1> USE CallNames
<1> DEFINE Step == [Atomic!Publish \/ Atomic!Settle]_<<source, Mapped, outcome>>
<1>1. ASSUME UNCHANGED <<source, object, outcome>> PROVE Step
  BY <1>1 DEF Mapped
<1>2. ASSUME UNCHANGED <<source, object>>, outcome = "running",
             \/ outcome' = "done" /\ call["complete"] = "ok"
             \/ outcome' = "cancelled" /\ (source = "file" => call["complete"] # "ok")
             \/ outcome' \in {"failed", "closed"}
      PROVE Step
  BY <1>2, MappedObject DEF Atomic!Settle, Mapped
<1>3. CASE Begin
  BY <1>1, <1>2, <1>3 DEF Begin, Running, UploadInv, Order
<1>4. CASE InitiateFails
  BY <1>2, <1>4 DEF InitiateFails, Reported, PasteCancelled, Running, s3Vars
<1>5. CASE Completed
  BY <1>2, <1>5 DEF Completed, PasteCancelled, Running, s3Vars
<1>6. CASE AbortAnswered
  BY <1>2, <1>6 DEF AbortAnswered, Running, Reported, PasteCancelled, s3Vars, UploadInv, Published
<1>7. CASE CloseTab
  BY <1>2, <1>7 DEF CloseTab, Running, s3Vars
<1>8. ASSUME NEW c \in Calls, Serve(c) PROVE Step
  <2>1. CASE UNCHANGED object
    BY <1>1, <1>8, <2>1 DEF Serve, clientVars
  <2>2. CASE ~(UNCHANGED object)
    <3>1. call["complete"] = "sent" /\ UNCHANGED <<source, outcome>> /\ call'["complete"] = "ok"
      <4>1. c = "complete" /\ call' = [call EXCEPT !["complete"] = "ok"] /\ call["complete"] = "sent"
        BY <1>8, <2>2 DEF Serve, Answer
      <4> QED
        BY <1>8, <4>1, CallEffect, UploadTypesUsed DEF Serve, clientVars, CallStates
    <3>2. Mapped = "absent" /\ Mapped' = "whole"
      <4>1. object = {} /\ object' = Parts
        BY <3>1 DEF UploadInv, Published
      <4>2. Parts # {}
        BY UploadAssumption DEF Parts
      <4> QED
        BY <4>1, <4>2 DEF Mapped, Parts
    <3>3. outcome \in Atomic!Undecided
      BY <3>1 DEF UploadInv, Published, UploadTypeOK, Atomic!Undecided
    <3> QED
      BY <3>1, <3>2, <3>3 DEF Atomic!Publish, Mapped
  <2> QED
    BY <2>1, <2>2
<1>9. CASE UNCHANGED uploadVars
  BY <1>1, <1>9 DEF uploadVars, clientVars, s3Vars
<1>10. CASE Initiated \/ AllWorkersOut \/ CompleteFails \/ Cancel
  BY <1>1, <1>10 DEF Initiated, AllWorkersOut, CompleteFails, Cancel, s3Vars
<1>11. ASSUME NEW w \in Workers, WorkerStep(w) PROVE Step
  BY <1>1, <1>11 DEF WorkerStep, TakePart, LeaveLoop, Presigned, PartStored, PartFails,
     PartAborted, StreamStops, s3Vars
<1>12. ASSUME NEW p \in Parts, ServePut(p) PROVE Step
  BY <1>1, <1>12 DEF ServePut, clientVars
<1> QED
  BY <1>3, <1>4, <1>5, <1>6, <1>7, <1>8, <1>9, <1>10, <1>11, <1>12 DEF UploadNext

\* browserMultipartUpload.ts implements AtomicUpload: for any number of parts
\* and of concurrent workers, and whatever is lost, refused or cancelled, only
\* the whole file is published, once, and it is if reported done and never if
\* the upload of a file is reported cancelled.
THEOREM UploadIsAtomic == UploadSpec => ImplementsAtomicUpload
<1>1. UploadInit => Atomic!Init
  BY DEF UploadInit, Atomic!Init
<1>2. UploadTypeOK /\ UploadInv /\ (UploadTypeOK /\ UploadInv)' /\ [UploadNext]_uploadVars
        => [Atomic!Publish \/ Atomic!Settle]_<<source, Mapped, outcome>>
  BY AtomicStep
<1> QED
  BY <1>1, <1>2, UploadInvariant, PTL DEF UploadSpec, ImplementsAtomicUpload, Atomic!Spec, Mapped

\* An upload the page knew of is left open in S3 only when its abort was lost or
\* refused, whichever of the page's error paths ended it.
THEOREM UploadsClosed == UploadSpec => []NothingLeftOpen
<1>1. UploadTypeOK /\ UploadInv => NothingLeftOpen
  <2> SUFFICES ASSUME UploadTypeOK, UploadInv, upload = "open", IdArrived,
                      outcome \in {"done", "cancelled", "failed"}
               PROVE  call["abort"] \in {"sent", "refused"}
    BY DEF NothingLeftOpen
  <2>1. call["abort"] \in CallStates
    BY UploadTypesUsed, CallNames
  <2>2. call["abort"] # "none" /\ call["abort"] # "ok"
    BY DEF UploadInv, Published, Closing
  <2> QED
    BY <2>1, <2>2 DEF CallStates
<1> QED
  BY <1>1, UploadInvariant, PTL
=============================================================================
