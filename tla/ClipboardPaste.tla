--------------------------- MODULE ClipboardPaste ---------------------------
(***************************************************************************)
(* Paste of copied or cut objects: useBrowserClipboard.ts, its transfer    *)
(* between contexts in browserClipboardTransfer.ts, and copy_object of the *)
(* backend, which copies within one context.                               *)
(*                                                                         *)
(* A paste runs its objects through runWithConcurrency; another paste of   *)
(* the same clipboard may be under way.  A place is where an object really *)
(* is (endpoint, bucket and key), whichever context it is reached through. *)
(* Every call may fail, and S3 or the backend may act on a call, even      *)
(* later, whose caller has given up.  An upload is one call here: it keeps *)
(* what AtomicUpload promises.                                             *)
(***************************************************************************)
EXTENDS Integers, FiniteSets, FiniteSetsExt

CONSTANTS
    Pastes,       \* bound: how often the clipboard is pasted
    Tasks,        \* the objects in the clipboard, 1..n in its order
    InFolder,     \* those that are there as part of a folder
    Places,
    Source,       \* where an object is
    Target,       \* where a paste puts it
    SameContext,  \* the pastes within the context of the clipboard
    SizeOf,
    Limit         \* parallelism

ASSUME PasteAssumption ==
    /\ Tasks \subseteq Nat \ {0} /\ InFolder \subseteq Tasks
    /\ Source \in [Tasks -> Places] /\ Target \in [Pastes -> [Tasks -> Places]]
    /\ SameContext \subseteq Pastes /\ Limit \in Nat \ {0}

VARIABLES
    store,        \* the object at each place; its content is named after its task
    clipboard,    \* the objects, cut ("move") or copied ("copy"); an "other"
                  \* selection; or "empty" after setClipboard(null)
    paste,        \* each paste's operation
    isMove,       \* whether it moves, by the clipboard it began with
    plan,         \* copyTasks
    signal,       \* the operation's AbortController
    stop,         \* the flag that ends runWithConcurrency (cancelled)
    task,         \* how far each object is, its size by the metadata, and what was downloaded
    call          \* its upload, delete or server-side copy, as the server sees it

pasteVars == <<store, clipboard, paste, isMove, plan, signal, stop, task, call>>

Absent == 0
Contents == Tasks \cup {Absent}
Selections == {"move", "copy", "other"}
Kinds == {"copy", "upload", "delete"}
Working == {"copying", "metadata", "download", "upload", "verify", "delete"}

\* The types of the state; what is uploaded is an object that was there to
\* download.
PasteTypeOK ==
    /\ store \in [Places -> Contents]
    /\ clipboard \in Selections \cup {"empty"} /\ isMove \in [Pastes -> BOOLEAN]
    /\ paste \in [Pastes -> {"idle", "running", "nothing", "done", "failed", "cancelled"}]
    /\ plan \in [Pastes -> SUBSET Tasks]
    /\ signal \in [Pastes -> {"live", "aborted"}] /\ stop \in [Pastes -> BOOLEAN]
    /\ task \in [Pastes -> [Tasks -> [pc : {"queued", "done", "failed", "cancelled"} \cup Working,
                                      size : {0} \cup {SizeOf[t] : t \in Tasks},
                                      data : Contents]]]
    /\ \A p \in Pastes, t \in Tasks : task[p][t].pc = "upload" => task[p][t].data # Absent
    /\ call \in [Pastes -> [Tasks -> [Kinds -> {"none", "sent", "copied", "verified", "ok"}]]]

PasteInit ==
    /\ store = [l \in Places |-> IF \E t \in Tasks : Source[t] = l
                                 THEN CHOOSE t \in Tasks : Source[t] = l ELSE Absent]
    /\ clipboard \in {"move", "copy"} /\ isMove = [p \in Pastes |-> FALSE]
    /\ paste = [p \in Pastes |-> "idle"] /\ plan = [p \in Pastes |-> {}]
    /\ signal = [p \in Pastes |-> "live"] /\ stop = [p \in Pastes |-> FALSE]
    /\ task = [p \in Pastes |-> [t \in Tasks |-> [pc |-> "queued", size |-> 0, data |-> Absent]]]
    /\ call = [p \in Pastes |-> [t \in Tasks |-> [k \in Kinds |-> "none"]]]

At(p, t, pc) == task[p][t].pc = pc
GoTo(p, t, pc) == task' = [task EXCEPT ![p][t].pc = pc]
Answer(p, t, kind, answer) == call' = [call EXCEPT ![p][t][kind] = answer]
WorkingTasks(p) == {t \in plan[p] : task[p][t].pc \in Working}
QueuedTasks(p) == {t \in plan[p] : At(p, t, "queued")}

-----------------------------------------------------------------------------
(***************************************************************************)
(* The paste and its tasks.                                                *)
(***************************************************************************)

\* cut and copy, of the same objects or of others, also while a paste runs.
Select(selection) ==
    /\ clipboard' = selection
    /\ UNCHANGED <<store, paste, isMove, plan, signal, stop, task, call>>

\* Folders are listed now; within one context what is already in place is
\* skipped.  With no task left there is no operation.
Paste(p) ==
    /\ clipboard \in {"move", "copy"} /\ paste[p] = "idle"
    /\ isMove' = [isMove EXCEPT ![p] = (clipboard = "move")]
    /\ LET tasks == {t \in Tasks :
                        /\ t \in InFolder => store[Source[t]] # Absent
                        /\ ~(p \in SameContext /\ Target[p][t] = Source[t])} IN
       /\ plan' = [plan EXCEPT ![p] = tasks]
       /\ paste' = [paste EXCEPT ![p] = IF tasks = {} THEN "nothing" ELSE "running"]
    /\ UNCHANGED <<store, clipboard, signal, stop, task, call>>

\* A worker of runWithConcurrency takes the next task.
NextTask(p) ==
    /\ paste[p] = "running" /\ ~stop[p]
    /\ Cardinality(WorkingTasks(p)) < Limit /\ QueuedTasks(p) # {}
    /\ LET t == Min(QueuedTasks(p)) IN
       IF signal[p] = "aborted"
       THEN /\ stop' = [stop EXCEPT ![p] = TRUE]
            /\ UNCHANGED <<task, call>>
       ELSE /\ UNCHANGED stop
            /\ IF p \in SameContext
               THEN GoTo(p, t, "copying") /\ Answer(p, t, "copy", "sent")
               ELSE GoTo(p, t, "metadata") /\ UNCHANGED call
    /\ UNCHANGED <<store, clipboard, paste, isMove, plan, signal>>

\* fetchObjectMetadata of the source; the transfer modes are resolved with it.
ReadMetadata(p, t) ==
    /\ At(p, t, "metadata") /\ signal[p] = "live" /\ store[Source[t]] # Absent
    /\ task' = [task EXCEPT ![p][t].pc = "download", ![p][t].size = SizeOf[store[Source[t]]]]
    /\ UNCHANGED <<store, clipboard, paste, isMove, plan, signal, stop, call>>

\* Mutant of Download: an object that is gone counts as downloaded.
DownloadAnything(p, t) ==
    /\ At(p, t, "download") /\ signal[p] = "live"
    /\ task' = [task EXCEPT ![p][t].pc = "upload", ![p][t].data = store[Source[t]]]
    /\ Answer(p, t, "upload", "sent")
    /\ UNCHANGED <<store, clipboard, paste, isMove, plan, signal, stop>>

\* downloadBlob or downloadStream, whose data the upload sends on.
Download(p, t) ==
    /\ At(p, t, "download") /\ signal[p] = "live" /\ store[Source[t]] # Absent
    /\ task' = [task EXCEPT ![p][t].pc = "upload", ![p][t].data = store[Source[t]]]
    /\ Answer(p, t, "upload", "sent")
    /\ UNCHANGED <<store, clipboard, paste, isMove, plan, signal, stop>>

\* Mutant of Uploaded: the source is deleted without asking the destination,
\* and without waiting for the upload.
UploadedUnverified(p, t) ==
    /\ At(p, t, "upload") /\ signal[p] = "live"
    /\ IF isMove[p]
       THEN GoTo(p, t, "delete") /\ Answer(p, t, "delete", "sent")
       ELSE GoTo(p, t, "done") /\ UNCHANGED call
    /\ UNCHANGED <<store, clipboard, paste, isMove, plan, signal, stop>>

Uploaded(p, t) ==
    /\ At(p, t, "upload") /\ call[p][t]["upload"] = "ok" /\ signal[p] = "live"
    /\ GoTo(p, t, IF isMove[p] THEN "verify" ELSE "done")
    /\ UNCHANGED <<store, clipboard, paste, isMove, plan, signal, stop, call>>

\* verifyObject compares sizes; only then the source is deleted, a call that
\* no abort interrupts.
Verify(p, t) ==
    /\ At(p, t, "verify") /\ signal[p] = "live"
    /\ LET found == store[Target[p][t]] IN
       found # Absent /\ SizeOf[found] = task[p][t].size
    /\ GoTo(p, t, "delete") /\ Answer(p, t, "delete", "sent")
    /\ UNCHANGED <<store, clipboard, paste, isMove, plan, signal, stop>>

SourceDeleted(p, t) ==
    /\ At(p, t, "delete") /\ call[p][t]["delete"] = "ok"
    /\ GoTo(p, t, "done")
    /\ UNCHANGED <<store, clipboard, paste, isMove, plan, signal, stop, call>>

\* copyObject, the call of the backend that does it all.
Copied(p, t) ==
    /\ At(p, t, "copying") /\ call[p][t]["copy"] = "ok" /\ signal[p] = "live"
    /\ GoTo(p, t, "done")
    /\ UNCHANGED <<store, clipboard, paste, isMove, plan, signal, stop, call>>

\* Any call fails: refused, lost, not found or mismatching.  Of an aborted
\* paste, or with the AbortError of a closed transfer, the task is cancelled,
\* and the paste with it.
TaskFails(p, t) ==
    /\ paste[p] = "running" /\ t \in WorkingTasks(p)
    /\ \/ /\ signal[p] = "live"
          /\ GoTo(p, t, "failed")
          /\ UNCHANGED <<signal, stop>>
       \/ /\ signal[p] = "aborted" \/ task[p][t].pc \in {"download", "upload"}
          /\ GoTo(p, t, "cancelled")
          /\ signal' = [signal EXCEPT ![p] = "aborted"]
          /\ stop' = [stop EXCEPT ![p] = TRUE]
    /\ UNCHANGED <<store, clipboard, paste, isMove, plan, call>>

CancelPaste(p) ==
    /\ paste[p] = "running" /\ signal[p] = "live"
    /\ signal' = [signal EXCEPT ![p] = "aborted"]
    /\ UNCHANGED <<store, clipboard, paste, isMove, plan, stop, task, call>>

FailedTasks(p) == {t \in plan[p] : At(p, t, "failed")}

\* Mutant of PasteEnds: failed tasks are forgotten.
PasteEndsRegardless(p) ==
    /\ paste[p] = "running" /\ WorkingTasks(p) = {}
    /\ stop[p] \/ QueuedTasks(p) = {}
    /\ paste' = [paste EXCEPT ![p] = IF stop[p] \/ signal[p] = "aborted" THEN "cancelled" ELSE "done"]
    /\ clipboard' = IF isMove[p] /\ paste'[p] = "done" THEN "empty" ELSE clipboard
    /\ UNCHANGED <<store, isMove, plan, signal, stop, task, call>>

\* Mutant of PasteEnds: every task must have been taken.
PasteEndsWhenComplete(p) ==
    /\ paste[p] = "running" /\ WorkingTasks(p) = {} /\ QueuedTasks(p) = {}
    /\ paste' = [paste EXCEPT ![p] = IF stop[p] \/ signal[p] = "aborted" THEN "cancelled"
                                     ELSE IF FailedTasks(p) # {} THEN "failed" ELSE "done"]
    /\ clipboard' = IF isMove[p] /\ paste'[p] = "done" THEN "empty" ELSE clipboard
    /\ UNCHANGED <<store, isMove, plan, signal, stop, task, call>>

\* runWithConcurrency is through and the listing is refreshed, which may fail.
\* After a move without a failure the clipboard is cleared, whatever it holds.
PasteEnds(p) ==
    /\ paste[p] = "running" /\ WorkingTasks(p) = {}
    /\ stop[p] \/ QueuedTasks(p) = {}
    /\ LET end == IF stop[p] \/ signal[p] = "aborted" THEN "cancelled"
                  ELSE IF FailedTasks(p) # {} THEN "failed" ELSE "done" IN
       \/ /\ paste' = [paste EXCEPT ![p] = end]
          /\ clipboard' = IF isMove[p] /\ end = "done" THEN "empty" ELSE clipboard
       \/ /\ end = "done" /\ paste' = [paste EXCEPT ![p] = "failed"]
          /\ UNCHANGED clipboard
    /\ UNCHANGED <<store, isMove, plan, signal, stop, task, call>>

-----------------------------------------------------------------------------
(***************************************************************************)
(* The servers.                                                            *)
(***************************************************************************)

\* Nothing obliges a server to take its step: a call it refuses, at any of its
\* stages, is one it never answers, and TaskFails.
ServeUpload(p, t) ==
    /\ call[p][t]["upload"] = "sent"
    /\ store' = [store EXCEPT ![Target[p][t]] = task[p][t].data]
    /\ Answer(p, t, "upload", "ok")
    /\ UNCHANGED <<clipboard, paste, isMove, plan, signal, stop, task>>

ServeDelete(p, t) ==
    /\ call[p][t]["delete"] = "sent"
    /\ store' = [store EXCEPT ![Source[t]] = Absent]
    /\ Answer(p, t, "delete", "ok")
    /\ UNCHANGED <<clipboard, paste, isMove, plan, signal, stop, task>>

\* copy_object: the copy, unless it would move an object onto itself,
CopyObject(p, t) ==
    /\ call[p][t]["copy"] = "sent" /\ store[Source[t]] # Absent
    /\ ~(isMove[p] /\ Target[p][t] = Source[t])
    /\ store' = [store EXCEPT ![Target[p][t]] = store[Source[t]]]
    /\ Answer(p, t, "copy", IF isMove[p] THEN "copied" ELSE "ok")
    /\ UNCHANGED <<clipboard, paste, isMove, plan, signal, stop, task>>

\* the comparison of sizes and ETags, and the removal of the source
\* (_verify_and_delete_move_source).
VerifyCopy(p, t) ==
    /\ call[p][t]["copy"] = "copied"
    /\ store[Source[t]] # Absent /\ store[Target[p][t]] = store[Source[t]]
    /\ Answer(p, t, "copy", "verified")
    /\ UNCHANGED <<store, clipboard, paste, isMove, plan, signal, stop, task>>

DeleteMoved(p, t) ==
    /\ call[p][t]["copy"] = "verified"
    /\ store' = [store EXCEPT ![Source[t]] = Absent]
    /\ Answer(p, t, "copy", "ok")
    /\ UNCHANGED <<clipboard, paste, isMove, plan, signal, stop, task>>

-----------------------------------------------------------------------------
TaskStep(p, t) ==
    \/ ReadMetadata(p, t) \/ Download(p, t) \/ Uploaded(p, t) \/ Verify(p, t)
    \/ SourceDeleted(p, t) \/ Copied(p, t) \/ TaskFails(p, t)

ServerStep(p, t) ==
    \/ ServeUpload(p, t) \/ ServeDelete(p, t)
    \/ CopyObject(p, t) \/ VerifyCopy(p, t) \/ DeleteMoved(p, t)

PasteNext ==
    \/ \E selection \in Selections : Select(selection)
    \/ \E p \in Pastes :
          \/ Paste(p) \/ NextTask(p) \/ CancelPaste(p) \/ PasteEnds(p)
          \/ \E t \in Tasks : TaskStep(p, t) \/ ServerStep(p, t)

PasteSpec == PasteInit /\ [][PasteNext]_pasteVars

\* A call is answered or breaks, and the page goes on with some task or with
\* the end of the paste.
FairPasteSpec ==
    /\ PasteSpec
    /\ \A p \in Pastes :
          WF_pasteVars(NextTask(p) \/ PasteEnds(p) \/ \E t \in Tasks : TaskStep(p, t))

-----------------------------------------------------------------------------
(***************************************************************************)
(* Properties.                                                             *)
(***************************************************************************)

\* No object in the clipboard is ever lost: whichever calls fail, are lost or
\* come late, and however two pastes of one clipboard and a cancel interleave,
\* its content is at some place.
NothingLost == \A t \in Tasks : \E l \in Places : store[l] = t

\* A move that reports "done" has moved every object it planned, and however
\* another paste of them or a late call goes on, each stays at its target and
\* gone from its source; and only such a move empties the clipboard: after a
\* failure or a cancel the objects can be pasted again.
DoneMeansMoved ==
    /\ \A p \in Pastes : isMove[p] /\ paste[p] = "done" =>
          \A t \in plan[p] : store[Target[p][t]] = t /\ store[Source[t]] = Absent
    /\ clipboard = "empty" => \E p \in Pastes : isMove[p] /\ paste[p] = "done"

\* A paste ends, the cancelled one with tasks still queued included.
PasteSettles == \A p \in Pastes : paste[p] = "running" ~> paste[p] # "running"

\* What one would expect of the clipboard and setClipboard(null) does not keep:
\* a selection made while a move runs outlives the end of that move.
SelectionKept == [][clipboard = "other" => clipboard' # "empty"]_pasteVars

\* The guide to the browser says "Cross-context move deletes the source only
\* after the destination copy is verified", and copy_object refuses to "move an
\* object onto itself": once the browser has sent the delete of a source, its
\* content is at another place too.
DeletesOnlyWhatIsCopied ==
    \A p \in Pastes, t \in Tasks :
        call[p][t]["delete"] # "none" => \E l \in Places \ {Source[t]} : store[l] = t
=============================================================================
