------------------------ MODULE ClipboardPasteProofs ------------------------
(***************************************************************************)
(* No paste loses an object, for any number of objects, pastes and places. *)
(***************************************************************************)
EXTENDS ClipboardPaste, WellFoundedInduction, TLAPS

Pcs == {"queued", "done", "failed", "cancelled"} \cup Working
Sizes == {0} \cup {SizeOf[t] : t \in Tasks}
TaskStates == [pc : Pcs, size : Sizes, data : Contents]
Answers == {"none", "sent", "copied", "verified", "ok"}

\* A worker takes a task that is queued: a set of natural numbers has a least
\* one.
LEMMA NextIsQueued ==
    ASSUME PasteTypeOK, NEW p \in Pastes, QueuedTasks(p) # {}
    PROVE  /\ Min(QueuedTasks(p)) \in Tasks /\ Min(QueuedTasks(p)) \in plan[p]
           /\ At(p, Min(QueuedTasks(p)), "queued")
<1>1. QueuedTasks(p) \subseteq Nat /\ QueuedTasks(p) \subseteq Tasks
  BY PasteAssumption DEF QueuedTasks, PasteTypeOK
<1> DEFINE Less == {ss \in Nat \X Nat : ss[1] < ss[2]}
<1>2. IsWellFoundedOn(Less, Nat)
  BY NatLessThanWellFounded, Zenon DEF OpToRel
<1>3. PICK t \in QueuedTasks(p) : \A u \in QueuedTasks(p) : t <= u
  <2>1. PICK t \in QueuedTasks(p) : \A u \in QueuedTasks(p) : ~(<<u, t>> \in Less)
    <3> HIDE DEF Less
    <3>1. QED
      BY <1>1, <1>2, WFMin
  <2>2. \A u \in QueuedTasks(p) : u \in Nat /\ t \in Nat /\ ~(u < t)
    BY <1>1, <2>1
  <2>3. QED
    BY <2>2
<1>4. Min(QueuedTasks(p)) \in QueuedTasks(p)
  BY <1>3 DEF Min
<1>5. QED
  BY <1>1, <1>4 DEF QueuedTasks

LEMMA TypeParts ==
    ASSUME PasteTypeOK
    PROVE  /\ task \in [Pastes -> [Tasks -> TaskStates]]
           /\ call \in [Pastes -> [Tasks -> [Kinds -> Answers]]]
  BY DEF PasteTypeOK, TaskStates, Pcs, Sizes, Answers

\* GoTo moves one task of one paste.
LEMMA GoToEffect ==
    ASSUME PasteTypeOK, NEW p \in Pastes, NEW t \in Tasks, NEW pc \in Pcs, GoTo(p, t, pc)
    PROVE  /\ task' \in [Pastes -> [Tasks -> TaskStates]]
           /\ task'[p][t].pc = pc /\ task'[p][t].data = task[p][t].data
           /\ \A q \in Pastes, u \in Tasks :
                 (q # p \/ u # t) => task'[q][u] = task[q][u]
<1>1. task \in [Pastes -> [Tasks -> TaskStates]]
  BY TypeParts
<1> DEFINE moved == [task[p][t] EXCEPT !.pc = pc]
<1>2. moved \in TaskStates /\ moved.pc = pc /\ moved.data = task[p][t].data
  BY <1>1 DEF TaskStates
<1>3. task' = [task EXCEPT ![p] = [task[p] EXCEPT ![t] = moved]]
  BY <1>1 DEF GoTo
<1> HIDE DEF moved
<1>4. QED
  BY <1>1, <1>2, <1>3

\* Answer changes one call of one task.
LEMMA AnswerEffect ==
    ASSUME PasteTypeOK, NEW p \in Pastes, NEW t \in Tasks, NEW k \in Kinds, NEW a \in Answers,
           Answer(p, t, k, a)
    PROVE  /\ call' \in [Pastes -> [Tasks -> [Kinds -> Answers]]]
           /\ call'[p][t][k] = a
           /\ \A j \in Kinds : j # k => call'[p][t][j] = call[p][t][j]
           /\ \A q \in Pastes, u \in Tasks :
                 (q # p \/ u # t) => call'[q][u] = call[q][u]
  BY DEF Answer, PasteTypeOK, Answers

\* The types are kept when the tasks and the calls are, and no task comes to
\* its upload without data.
LEMMA TypeFrom ==
    ASSUME PasteTypeOK,
           store' \in [Places -> Contents], isMove' \in [Pastes -> BOOLEAN],
           clipboard' \in Selections \cup {"empty"},
           paste' \in [Pastes -> {"idle", "running", "nothing", "done", "failed", "cancelled"}],
           plan' \in [Pastes -> SUBSET Tasks],
           signal' \in [Pastes -> {"live", "aborted"}], stop' \in [Pastes -> BOOLEAN],
           task' \in [Pastes -> [Tasks -> TaskStates]],
           call' \in [Pastes -> [Tasks -> [Kinds -> Answers]]],
           \A q \in Pastes, u \in Tasks : task'[q][u].pc = "upload" => task'[q][u].data # Absent
    PROVE  PasteTypeOK'
  BY DEF PasteTypeOK, TaskStates, Pcs, Sizes, Answers

LEMMA GoToType ==
    ASSUME PasteTypeOK, NEW p \in Pastes, NEW t \in Tasks,
           NEW pc \in Pcs \ {"upload"}, GoTo(p, t, pc)
    PROVE  /\ task' \in [Pastes -> [Tasks -> TaskStates]]
           /\ \A q \in Pastes, u \in Tasks :
                 task'[q][u].pc = "upload" => task'[q][u].data # Absent
<1>1. /\ task' \in [Pastes -> [Tasks -> TaskStates]] /\ task'[p][t].pc = pc
      /\ \A q \in Pastes, u \in Tasks :
            (q # p \/ u # t) => task'[q][u] = task[q][u]
  BY GoToEffect
<1>2. \A q \in Pastes, u \in Tasks : task[q][u].pc = "upload" => task[q][u].data # Absent
  BY DEF PasteTypeOK
<1>3. ASSUME NEW q \in Pastes, NEW u \in Tasks, task'[q][u].pc = "upload"
      PROVE  task'[q][u].data # Absent
  <2>1. q # p \/ u # t
    BY <1>1, <1>3
  <2>2. QED
    BY <1>1, <1>2, <1>3, <2>1
<1>4. QED
  BY <1>1, <1>3

LEMMA PasteInitType == PasteInit => PasteTypeOK
<1> SUFFICES ASSUME PasteInit PROVE PasteTypeOK
  OBVIOUS
<1>1. store \in [Places -> Contents]
  <2>1. ASSUME NEW l \in Places, \E t \in Tasks : Source[t] = l
        PROVE  (CHOOSE t \in Tasks : Source[t] = l) \in Tasks
    BY <2>1
  <2>2. QED
    BY <2>1 DEF PasteInit, Contents
<1>2. task \in [Pastes -> [Tasks -> TaskStates]]
  BY DEF PasteInit, TaskStates, Pcs, Sizes, Contents
<1>3. \A p \in Pastes, t \in Tasks : task[p][t].pc = "upload" => task[p][t].data # Absent
  BY DEF PasteInit
<1>4. QED
  BY <1>1, <1>2, <1>3 DEF PasteInit, PasteTypeOK, TaskStates, Pcs, Sizes, Kinds, Selections

\* Every action keeps the types.
LEMMA PasteStepType == PasteTypeOK /\ [PasteNext]_pasteVars => PasteTypeOK'
<1> SUFFICES ASSUME PasteTypeOK, [PasteNext]_pasteVars PROVE PasteTypeOK'
  OBVIOUS
<1>t. /\ task \in [Pastes -> [Tasks -> TaskStates]]
      /\ call \in [Pastes -> [Tasks -> [Kinds -> Answers]]]
      /\ \A q \in Pastes, u \in Tasks : task[q][u].pc = "upload" => task[q][u].data # Absent
  BY TypeParts DEF PasteTypeOK
<1>s. /\ store \in [Places -> Contents]
      /\ clipboard \in Selections \cup {"empty"} /\ isMove \in [Pastes -> BOOLEAN]
      /\ paste \in [Pastes -> {"idle", "running", "nothing", "done", "failed", "cancelled"}]
      /\ plan \in [Pastes -> SUBSET Tasks]
      /\ signal \in [Pastes -> {"live", "aborted"}] /\ stop \in [Pastes -> BOOLEAN]
  BY DEF PasteTypeOK
<1>1. CASE UNCHANGED pasteVars
  BY <1>1 DEF pasteVars, PasteTypeOK
<1>2. ASSUME NEW p \in Pastes, Paste(p) PROVE PasteTypeOK'
  <2>1. plan' \in [Pastes -> SUBSET Tasks]
    BY <1>2, <1>s DEF Paste
  <2>2. paste' \in [Pastes -> {"idle", "running", "nothing", "done", "failed", "cancelled"}]
    BY <1>2, <1>s DEF Paste
  <2>3. isMove' \in [Pastes -> BOOLEAN]
    BY <1>2, <1>s DEF Paste
  <2>4. QED
    BY <1>2, <1>t, <1>s, <2>1, <2>2, <2>3, TypeFrom DEF Paste
<1>3. ASSUME NEW p \in Pastes, NextTask(p) PROVE PasteTypeOK'
  <2> DEFINE t == Min(QueuedTasks(p))
  <2>1. t \in Tasks
    BY <1>3, NextIsQueued DEF NextTask
  <2>2. CASE signal[p] = "aborted"
    BY <1>3, <1>t, <1>s, <2>2, TypeFrom DEF NextTask
  <2>3. CASE signal[p] # "aborted" /\ p \in SameContext
    <3>1. GoTo(p, t, "copying") /\ Answer(p, t, "copy", "sent")
      BY <1>3, <2>3 DEF NextTask
    <3> HIDE DEF t
    <3>2. /\ task' \in [Pastes -> [Tasks -> TaskStates]]
          /\ \A q \in Pastes, u \in Tasks :
                task'[q][u].pc = "upload" => task'[q][u].data # Absent
      BY <2>1, <3>1, GoToType DEF Pcs, Working
    <3>3. call' \in [Pastes -> [Tasks -> [Kinds -> Answers]]]
      BY <2>1, <3>1, AnswerEffect DEF Kinds, Answers
    <3>4. QED
      BY <1>3, <1>s, <2>3, <3>2, <3>3, TypeFrom DEF NextTask
  <2>4. CASE signal[p] # "aborted" /\ p \notin SameContext
    <3>1. GoTo(p, t, "metadata") /\ UNCHANGED call
      BY <1>3, <2>4 DEF NextTask
    <3> HIDE DEF t
    <3>2. /\ task' \in [Pastes -> [Tasks -> TaskStates]]
          /\ \A q \in Pastes, u \in Tasks :
                task'[q][u].pc = "upload" => task'[q][u].data # Absent
      BY <2>1, <3>1, GoToType DEF Pcs, Working
    <3>3. QED
      BY <1>3, <1>s, <1>t, <2>4, <3>1, <3>2, TypeFrom DEF NextTask
  <2>5. QED
    BY <2>2, <2>3, <2>4
<1>4. ASSUME NEW p \in Pastes, CancelPaste(p) PROVE PasteTypeOK'
  BY <1>4, <1>t, <1>s, TypeFrom DEF CancelPaste
<1>5. ASSUME NEW p \in Pastes, PasteEnds(p) PROVE PasteTypeOK'
  <2>1. paste' \in [Pastes -> {"idle", "running", "nothing", "done", "failed", "cancelled"}]
    BY <1>5, <1>s DEF PasteEnds
  <2>2. clipboard' \in Selections \cup {"empty"}
    BY <1>5, <1>s DEF PasteEnds
  <2>3. QED
    BY <1>5, <1>t, <1>s, <2>1, <2>2, TypeFrom DEF PasteEnds
<1>6. ASSUME NEW p \in Pastes, NEW t \in Tasks, TaskStep(p, t) PROVE PasteTypeOK'
  <2>1. CASE ReadMetadata(p, t)
    <3>1. SizeOf[store[Source[t]]] \in Sizes
      BY <2>1, <1>s, PasteAssumption DEF ReadMetadata, Sizes, Contents
    <3> DEFINE moved == [task[p][t] EXCEPT !.pc = "download", !.size = SizeOf[store[Source[t]]]]
    <3>a. moved \in TaskStates /\ moved.pc = "download"
      <4>1. task[p][t] \in TaskStates /\ "download" \in Pcs
        BY <1>t DEF Pcs, Working
      <4>2. QED
        BY <3>1, <4>1 DEF TaskStates
    <3>b. task' = [task EXCEPT ![p] = [task[p] EXCEPT ![t] = moved]]
      BY <2>1, <1>t DEF ReadMetadata
    <3> HIDE DEF moved
    <3>2. task' \in [Pastes -> [Tasks -> TaskStates]]
      BY <1>t, <3>a, <3>b
    <3>3. \A q \in Pastes, u \in Tasks : task'[q][u].pc = "upload" => task'[q][u].data # Absent
      BY <1>t, <3>a, <3>b
    <3>4. QED
      BY <2>1, <1>t, <1>s, <3>2, <3>3, TypeFrom DEF ReadMetadata
  <2>2. CASE Download(p, t)
    <3>1. store[Source[t]] \in Contents /\ store[Source[t]] # Absent
      BY <2>2, <1>s, PasteAssumption DEF Download
    <3> DEFINE moved == [task[p][t] EXCEPT !.pc = "upload", !.data = store[Source[t]]]
    <3>a. moved \in TaskStates /\ moved.data = store[Source[t]]
      <4>1. task[p][t] \in TaskStates /\ "upload" \in Pcs
        BY <1>t DEF Pcs, Working
      <4>2. QED
        BY <3>1, <4>1 DEF TaskStates
    <3>b. task' = [task EXCEPT ![p] = [task[p] EXCEPT ![t] = moved]]
      BY <2>2, <1>t DEF Download
    <3> HIDE DEF moved
    <3>2. task' \in [Pastes -> [Tasks -> TaskStates]]
      BY <1>t, <3>a, <3>b
    <3>3. \A q \in Pastes, u \in Tasks : task'[q][u].pc = "upload" => task'[q][u].data # Absent
      BY <1>t, <3>1, <3>a, <3>b
    <3>4. call' \in [Pastes -> [Tasks -> [Kinds -> Answers]]]
      BY <2>2, AnswerEffect DEF Download, Kinds, Answers
    <3>5. QED
      BY <2>2, <1>s, <3>2, <3>3, <3>4, TypeFrom DEF Download
  <2>3. CASE Uploaded(p, t) \/ SourceDeleted(p, t) \/ Copied(p, t)
    <3>1. PICK pc \in Pcs \ {"upload"} : GoTo(p, t, pc)
      BY <2>3 DEF Uploaded, SourceDeleted, Copied, Pcs, Working
    <3>2. /\ task' \in [Pastes -> [Tasks -> TaskStates]]
          /\ \A q \in Pastes, u \in Tasks :
                task'[q][u].pc = "upload" => task'[q][u].data # Absent
      BY <3>1, GoToType
    <3>3. QED
      BY <2>3, <1>t, <1>s, <3>2, TypeFrom DEF Uploaded, SourceDeleted, Copied
  <2>4. CASE Verify(p, t)
    <3>1. /\ task' \in [Pastes -> [Tasks -> TaskStates]]
          /\ \A q \in Pastes, u \in Tasks :
                task'[q][u].pc = "upload" => task'[q][u].data # Absent
      BY <2>4, GoToType DEF Verify, Pcs, Working
    <3>2. call' \in [Pastes -> [Tasks -> [Kinds -> Answers]]]
      BY <2>4, AnswerEffect DEF Verify, Kinds, Answers
    <3>3. QED
      BY <2>4, <1>s, <3>1, <3>2, TypeFrom DEF Verify
  <2>5. CASE TaskFails(p, t)
    <3>1. PICK pc \in Pcs \ {"upload"} : GoTo(p, t, pc)
      BY <2>5 DEF TaskFails, Pcs, Working
    <3>2. /\ task' \in [Pastes -> [Tasks -> TaskStates]]
          /\ \A q \in Pastes, u \in Tasks :
                task'[q][u].pc = "upload" => task'[q][u].data # Absent
      BY <3>1, GoToType
    <3>3. signal' \in [Pastes -> {"live", "aborted"}] /\ stop' \in [Pastes -> BOOLEAN]
      BY <2>5, <1>s DEF TaskFails
    <3>4. QED
      BY <2>5, <1>t, <1>s, <3>2, <3>3, TypeFrom DEF TaskFails
  <2>6. QED
    BY <1>6, <2>1, <2>2, <2>3, <2>4, <2>5 DEF TaskStep
<1>7. ASSUME NEW p \in Pastes, NEW t \in Tasks, ServerStep(p, t) PROVE PasteTypeOK'
  <2>1. PICK k \in Kinds, a \in Answers : Answer(p, t, k, a)
    BY <1>7 DEF ServerStep, ServeUpload, ServeDelete, CopyObject, VerifyCopy, DeleteMoved,
                Kinds, Answers
  <2>2. call' \in [Pastes -> [Tasks -> [Kinds -> Answers]]]
    BY <2>1, AnswerEffect
  <2>3. task[p][t].data \in Contents /\ store[Source[t]] \in Contents /\ Absent \in Contents
    BY <1>t, <1>s, PasteAssumption DEF TaskStates, Contents
  <2>4. store' \in [Places -> Contents]
    BY <1>7, <1>s, <2>3 DEF ServerStep, ServeUpload, ServeDelete, CopyObject, VerifyCopy,
                            DeleteMoved
  <2>5. /\ UNCHANGED <<isMove, clipboard, paste, plan, signal, stop, task>>
    BY <1>7 DEF ServerStep, ServeUpload, ServeDelete, CopyObject, VerifyCopy, DeleteMoved
  <2>6. QED
    BY <1>t, <1>s, <2>2, <2>4, <2>5, TypeFrom
<1>8. ASSUME NEW selection \in Selections, Select(selection) PROVE PasteTypeOK'
  BY <1>8, <1>t, <1>s, TypeFrom DEF Select
<1>9. QED
  BY <1>1, <1>2, <1>3, <1>4, <1>5, <1>6, <1>7, <1>8 DEF PasteNext

\* Whatever the pastes, the servers and the user do, with any number of
\* objects: every task, call and object stays within its type, runWithConcurrency
\* hands out only tasks of its paste, and no upload is sent without the data of
\* an object that was there to download.
THEOREM PasteTypeCorrect == PasteSpec => []PasteTypeOK
<1>1. QED
  BY PasteInitType, PasteStepType, PTL DEF PasteSpec

-----------------------------------------------------------------------------
(***************************************************************************)
(* Nothing is lost.                                                        *)
(***************************************************************************)

\* What the results below assume of the places: the objects of the clipboard
\* are apart, no two of them are put at one place, and no target is a source,
\* but for the object that a paste within its context finds in place already.
\* Pastes may share their targets.
PlacesApart ==
    /\ \A t, u \in Tasks : Source[t] = Source[u] => t = u
    /\ \A p, q \in Pastes, t, u \in Tasks : Target[p][t] = Target[q][u] => t = u
    /\ \A p \in Pastes, t, u \in Tasks :
          Target[p][t] = Source[u] => t = u /\ p \in SameContext

\* Every place holds what belongs there, or nothing.
OwnContent ==
    \A t \in Tasks : /\ store[Source[t]] \in {t, Absent}
                     /\ \A p \in Pastes : store[Target[p][t]] \in {t, Absent}

\* Only planned tasks work and call, and none of them goes onto its source.
Planned ==
    \A p \in Pastes :
        /\ paste[p] = "idle" => plan[p] = {}
        /\ \A t \in Tasks :
              IF t \in plan[p] THEN \A u \in Tasks : Target[p][t] # Source[u]
              ELSE At(p, t, "queued") /\ \A k \in Kinds : call[p][t][k] = "none"

\* How far the calls of task t of paste p are says what is at its places: the
\* copy is there once an upload or a server-side copy was acted on and when
\* the delete is sent, and the source is gone once a deletion was acted on.
Arrived(p, t) ==
    /\ \/ call[p][t]["delete"] # "none"
       \/ call[p][t]["upload"] = "ok"
       \/ call[p][t]["copy"] \in {"copied", "verified", "ok"}
       => store[Target[p][t]] = t
    /\ \/ call[p][t]["delete"] = "ok"
       \/ isMove[p] /\ call[p][t]["copy"] = "ok"
       => store[Source[t]] = Absent

\* The data of a task is the object's.
OwnData(p, t) ==
    /\ task[p][t].data \in {t, Absent}
    /\ call[p][t]["upload"] # "none" => task[p][t].data = t

\* A source is gone only if a copy of it has arrived.
CopiedFirst ==
    \A t \in Tasks : store[Source[t]] = Absent => \E p \in Pastes : store[Target[p][t]] = t

\* What the end of a task and of a paste says.
Outcome(p, t) ==
    /\ isMove[p] /\ At(p, t, "done") =>
          store[Target[p][t]] = t /\ store[Source[t]] = Absent
    /\ At(p, t, "cancelled") => stop[p]
    /\ paste[p] = "done" /\ t \in plan[p] => At(p, t, "done")

Cleared == clipboard = "empty" => \E p \in Pastes : isMove[p] /\ paste[p] = "done"

PasteInv ==
    /\ PasteTypeOK /\ OwnContent /\ Planned /\ CopiedFirst /\ Cleared
    /\ \A p \in Pastes, t \in Tasks : Arrived(p, t) /\ OwnData(p, t) /\ Outcome(p, t)

\* A task that has called is planned, so its target is no source.
LEMMA CallersPlanned ==
    ASSUME PasteInv, NEW p \in Pastes, NEW t \in Tasks, NEW k \in Kinds,
           call[p][t][k] # "none"
    PROVE  t \in plan[p] /\ \A u \in Tasks : Target[p][t] # Source[u]
  BY DEF PasteInv, Planned

\* A step writes the object's own content at the target of a planned task, or
\* it deletes a source whose copy is at a target, or it leaves the store alone.
LEMMA StoreChanges ==
    ASSUME PasteInv, [PasteNext]_pasteVars
    PROVE  \/ UNCHANGED store
           \/ \E p \in Pastes, t \in Tasks :
                 /\ t \in plan[p] /\ store' = [store EXCEPT ![Target[p][t]] = t]
           \/ \E p \in Pastes, t \in Tasks :
                 /\ t \in plan[p] /\ store[Target[p][t]] = t
                 /\ store' = [store EXCEPT ![Source[t]] = Absent]
<1>1. CASE UNCHANGED pasteVars \/ \E selection \in Selections : Select(selection)
  BY <1>1 DEF pasteVars, Select
<1>2. ASSUME NEW p \in Pastes,
             \/ Paste(p) \/ NextTask(p) \/ CancelPaste(p) \/ PasteEnds(p)
             \/ \E t \in Tasks : TaskStep(p, t)
      PROVE  UNCHANGED store
  BY <1>2 DEF Paste, NextTask, CancelPaste, PasteEnds, TaskStep, ReadMetadata, Download,
              Uploaded, Verify, SourceDeleted, Copied, TaskFails
<1>3. ASSUME NEW p \in Pastes, NEW t \in Tasks, ServeUpload(p, t)
      PROVE  t \in plan[p] /\ store' = [store EXCEPT ![Target[p][t]] = t]
  BY <1>3, CallersPlanned DEF ServeUpload, PasteInv, OwnData, Kinds
<1>4. ASSUME NEW p \in Pastes, NEW t \in Tasks, ServeDelete(p, t)
      PROVE  /\ t \in plan[p] /\ store[Target[p][t]] = t
             /\ store' = [store EXCEPT ![Source[t]] = Absent]
  BY <1>4, CallersPlanned DEF ServeDelete, PasteInv, Arrived, Kinds
<1>5. ASSUME NEW p \in Pastes, NEW t \in Tasks, CopyObject(p, t)
      PROVE  t \in plan[p] /\ store' = [store EXCEPT ![Target[p][t]] = t]
  <2>1. store[Source[t]] = t
    BY <1>5 DEF CopyObject, PasteInv, OwnContent
  <2>2. QED
    BY <1>5, <2>1, CallersPlanned DEF CopyObject, Kinds
<1>6. ASSUME NEW p \in Pastes, NEW t \in Tasks, VerifyCopy(p, t)
      PROVE  UNCHANGED store
  BY <1>6 DEF VerifyCopy
<1>7. ASSUME NEW p \in Pastes, NEW t \in Tasks, DeleteMoved(p, t)
      PROVE  /\ t \in plan[p] /\ store[Target[p][t]] = t
             /\ store' = [store EXCEPT ![Source[t]] = Absent]
  BY <1>7, CallersPlanned DEF DeleteMoved, PasteInv, Arrived, Kinds
<1>8. QED
  BY <1>1, <1>2, <1>3, <1>4, <1>5, <1>6, <1>7 DEF PasteNext, ServerStep

\* What a step does to the store: the places keep to their own content, a
\* source that is gone does not come back, a copy stays, and a source goes
\* only if its copy is there.
LEMMA StoreStep ==
    ASSUME PlacesApart, PasteInv, [PasteNext]_pasteVars
    PROVE  /\ OwnContent' /\ CopiedFirst'
           /\ \A t \in Tasks : store[Source[t]] = Absent => store'[Source[t]] = Absent
           /\ \A p \in Pastes, t \in Tasks :
                 t \in plan[p] /\ store[Target[p][t]] = t => store'[Target[p][t]] = t
<1> USE PasteAssumption
<1>0. /\ store \in [Places -> Contents] /\ Absent \notin Tasks
      /\ \A p \in Pastes, t \in Tasks : t \in plan[p] => \A u \in Tasks : Target[p][t] # Source[u]
  BY DEF PasteInv, PasteTypeOK, Planned, Absent
<1>1. CASE UNCHANGED store
  BY <1>0, <1>1 DEF PasteInv, OwnContent, CopiedFirst
<1>2. ASSUME NEW p \in Pastes, NEW t \in Tasks, t \in plan[p],
             store' = [store EXCEPT ![Target[p][t]] = t]
      PROVE  /\ OwnContent' /\ CopiedFirst'
             /\ \A u \in Tasks : store[Source[u]] = Absent => store'[Source[u]] = Absent
             /\ \A q \in Pastes, u \in Tasks :
                   u \in plan[q] /\ store[Target[q][u]] = u => store'[Target[q][u]] = u
  <2>1. \A u \in Tasks : store'[Source[u]] = store[Source[u]]
    BY <1>0, <1>2
  <2>2. \A q \in Pastes, u \in Tasks :
            store'[Target[q][u]] = IF Target[q][u] = Target[p][t] THEN u ELSE store[Target[q][u]]
    BY <1>0, <1>2 DEF PlacesApart
  <2>3. OwnContent'
    BY <2>1, <2>2 DEF PasteInv, OwnContent
  <2>4. CopiedFirst'
    <3> SUFFICES ASSUME NEW u \in Tasks, store'[Source[u]] = Absent
                 PROVE  \E q \in Pastes : store'[Target[q][u]] = u
      BY DEF CopiedFirst
    <3>1. PICK q \in Pastes : store[Target[q][u]] = u
      BY <2>1 DEF PasteInv, CopiedFirst
    <3>2. QED
      BY <2>2, <3>1
  <2>5. QED
    BY <2>1, <2>2, <2>3, <2>4
<1>3. ASSUME NEW p \in Pastes, NEW t \in Tasks, t \in plan[p], store[Target[p][t]] = t,
             store' = [store EXCEPT ![Source[t]] = Absent]
      PROVE  /\ OwnContent' /\ CopiedFirst'
             /\ \A u \in Tasks : store[Source[u]] = Absent => store'[Source[u]] = Absent
             /\ \A q \in Pastes, u \in Tasks :
                   u \in plan[q] /\ store[Target[q][u]] = u => store'[Target[q][u]] = u
  <2>1. \A u \in Tasks : store'[Source[u]] = IF u = t THEN Absent ELSE store[Source[u]]
    BY <1>0, <1>3 DEF PlacesApart
  <2>2. \A q \in Pastes, u \in Tasks :
            store'[Target[q][u]] = IF Target[q][u] = Source[t] THEN Absent ELSE store[Target[q][u]]
    BY <1>0, <1>3
  <2>3. OwnContent'
    BY <2>1, <2>2 DEF PasteInv, OwnContent
  <2>4. \A q \in Pastes, u \in Tasks :
            u \in plan[q] /\ store[Target[q][u]] = u => store'[Target[q][u]] = u
    BY <1>0, <2>2
  <2>5. CopiedFirst'
    <3> SUFFICES ASSUME NEW u \in Tasks, store'[Source[u]] = Absent
                 PROVE  \E q \in Pastes : store'[Target[q][u]] = u
      BY DEF CopiedFirst
    <3>1. CASE u = t
      BY <1>3, <2>4, <3>1
    <3>2. CASE u # t
      <4>1. PICK q \in Pastes : store[Target[q][u]] = u
        BY <2>1, <3>2 DEF PasteInv, CopiedFirst
      <4>2. Target[q][u] # Source[t]
        BY <3>2 DEF PlacesApart
      <4>3. QED
        BY <2>2, <4>1, <4>2
    <3>3. QED
      BY <3>1, <3>2
  <2>6. QED
    BY <2>1, <2>3, <2>4, <2>5
<1>4. QED
  BY <1>1, <1>2, <1>3, StoreChanges

-----------------------------------------------------------------------------
(***************************************************************************)
(* One action changes at most one task and its calls.                      *)
(***************************************************************************)

\* What is left alone of a task and its calls keeps its part of the invariant.
LEMMA TaskFrame ==
    ASSUME PlacesApart, PasteInv, [PasteNext]_pasteVars,
           NEW q \in Pastes, NEW u \in Tasks, isMove'[q] = isMove[q]
    PROVE  /\ call'[q][u] = call[q][u] => Arrived(q, u)'
           /\ call'[q][u] = call[q][u] /\ task'[q][u].data = task[q][u].data => OwnData(q, u)'
           /\ task'[q][u].pc = task[q][u].pc =>
                 /\ isMove'[q] /\ At(q, u, "done")' =>
                       store'[Target[q][u]] = u /\ store'[Source[u]] = Absent
                 /\ At(q, u, "cancelled")' => stop[q]
<1>1. /\ store[Source[u]] = Absent => store'[Source[u]] = Absent
      /\ u \in plan[q] /\ store[Target[q][u]] = u => store'[Target[q][u]] = u
  BY StoreStep
<1>2. ASSUME call'[q][u] = call[q][u] PROVE Arrived(q, u)'
  <2>1. \/ u \in plan[q]
        \/ call[q][u]["delete"] = "none" /\ call[q][u]["upload"] = "none" /\ call[q][u]["copy"] = "none"
    BY DEF PasteInv, Planned, Kinds
  <2>2. Arrived(q, u)
    BY DEF PasteInv
  <2>3. QED
    BY <1>1, <1>2, <2>1, <2>2 DEF Arrived
<1>3. ASSUME call'[q][u] = call[q][u], task'[q][u].data = task[q][u].data PROVE OwnData(q, u)'
  BY <1>3 DEF PasteInv, OwnData
<1>4. ASSUME task'[q][u].pc = task[q][u].pc
      PROVE  /\ isMove'[q] /\ At(q, u, "done")' =>
                   store'[Target[q][u]] = u /\ store'[Source[u]] = Absent
             /\ At(q, u, "cancelled")' => stop[q]
  <2>1. At(q, u, "done") => u \in plan[q]
    BY DEF PasteInv, Planned, At
  <2>2. Outcome(q, u)
    BY DEF PasteInv
  <2>3. QED
    BY <1>1, <1>4, <2>1, <2>2 DEF Outcome, At
<1>5. QED
  BY <1>2, <1>3, <1>4

\* The parts of the invariant that concern the tasks and the end of a paste.
TasksInv == \A p \in Pastes, t \in Tasks : Arrived(p, t) /\ OwnData(p, t) /\ Outcome(p, t)

\* A step of task t of paste p: what it has to show of itself, and what the
\* frame gives for all the others.
LEMMA TaskChange ==
    ASSUME PlacesApart, PasteInv, [PasteNext]_pasteVars,
           NEW p \in Pastes, NEW t \in Tasks, t \in plan[p],
           UNCHANGED <<isMove, clipboard, paste, plan>>,
           \A q \in Pastes : stop[q] => stop'[q],
           \A q \in Pastes, u \in Tasks : (q # p \/ u # t) =>
               task'[q][u] = task[q][u] /\ call'[q][u] = call[q][u],
           task[p][t].pc # "done" \/ task'[p][t].pc = "done",
           Arrived(p, t)', OwnData(p, t)',
           isMove[p] /\ task'[p][t].pc = "done" =>
               store'[Target[p][t]] = t /\ store'[Source[t]] = Absent,
           task'[p][t].pc = "cancelled" => stop'[p]
    PROVE  TasksInv' /\ Planned' /\ Cleared'
<1>1. ASSUME NEW q \in Pastes, NEW u \in Tasks, q # p \/ u # t
      PROVE  Arrived(q, u)' /\ OwnData(q, u)' /\ Outcome(q, u)'
  <2>1. /\ Arrived(q, u)' /\ OwnData(q, u)'
        /\ isMove'[q] /\ At(q, u, "done")' =>
                       store'[Target[q][u]] = u /\ store'[Source[u]] = Absent
        /\ At(q, u, "cancelled")' => stop[q]
    BY <1>1, TaskFrame
  <2>2. paste[q] = "done" /\ u \in plan[q] => At(q, u, "done")
    BY DEF PasteInv, Outcome
  <2>3. QED
    BY <1>1, <2>1, <2>2 DEF Outcome, At
<1>2. Outcome(p, t)'
  <2>1. paste[p] = "done" /\ t \in plan[p] => At(p, t, "done")
    BY DEF PasteInv, Outcome
  <2>2. QED
    BY <2>1 DEF Outcome, At
<1>3. TasksInv'
  BY <1>1, <1>2 DEF TasksInv
<1>4. Planned'
  <2>1. ASSUME NEW q \in Pastes, NEW u \in Tasks, u \notin plan[q]
        PROVE  At(q, u, "queued")' /\ \A k \in Kinds : call'[q][u][k] = "none"
    BY <2>1 DEF PasteInv, Planned, At
  <2>2. QED
    BY <2>1 DEF PasteInv, Planned
<1>5. Cleared'
  BY DEF PasteInv, Cleared
<1>6. QED
  BY <1>3, <1>4, <1>5

\* A task that has left the queue is planned.
LEMMA TakenPlanned ==
    ASSUME PasteInv, NEW p \in Pastes, NEW t \in Tasks, task[p][t].pc # "queued"
    PROVE  t \in plan[p]
  BY DEF PasteInv, Planned, At

LEMMA NextTaskInv ==
    ASSUME PlacesApart, PasteInv, NEW p \in Pastes, NextTask(p)
    PROVE  TasksInv' /\ Planned' /\ Cleared'
<1>0. PasteTypeOK /\ [PasteNext]_pasteVars
  BY DEF PasteInv, PasteNext
<1>1. PICK t \in Tasks : t = Min(QueuedTasks(p)) /\ t \in plan[p] /\ task[p][t].pc = "queued"
  BY <1>0, NextIsQueued DEF NextTask, At
<1>2. UNCHANGED <<store, isMove, clipboard, paste, plan>> /\ \A q \in Pastes : stop[q] => stop'[q]
  BY <1>0 DEF NextTask, PasteTypeOK
<1>3. CASE signal[p] = "aborted"
  <2>1. UNCHANGED <<task, call>>
    BY <1>3 DEF NextTask
  <2>2. Arrived(p, t)' /\ OwnData(p, t)'
    BY <1>0, <1>1, <1>2, <2>1, TaskFrame
  <2>3. QED
    BY <1>0, <1>1, <1>2, <2>1, <2>2, TaskChange
<1>4. CASE signal[p] # "aborted"
  <2>1. \/ GoTo(p, t, "copying") /\ Answer(p, t, "copy", "sent")
        \/ GoTo(p, t, "metadata") /\ UNCHANGED call
    BY <1>1, <1>4 DEF NextTask
  <2>2. /\ task'[p][t].pc \in {"copying", "metadata"} /\ task'[p][t].data = task[p][t].data
        /\ \A q \in Pastes, u \in Tasks : (q # p \/ u # t) => task'[q][u] = task[q][u]
    BY <1>0, <1>1, <2>1, GoToEffect DEF Pcs, Working
  <2>3. /\ call'[p][t]["upload"] = call[p][t]["upload"]
        /\ call'[p][t]["delete"] = call[p][t]["delete"]
        /\ call'[p][t]["copy"] \in {call[p][t]["copy"], "sent"}
        /\ \A q \in Pastes, u \in Tasks : (q # p \/ u # t) => call'[q][u] = call[q][u]
    BY <1>0, <1>1, <2>1, AnswerEffect DEF Kinds, Answers
  <2>4. Arrived(p, t)' /\ OwnData(p, t)'
    BY <1>1, <1>2, <2>2, <2>3 DEF PasteInv, Arrived, OwnData
  <2>5. QED
    BY <1>0, <1>1, <1>2, <2>2, <2>3, <2>4, TaskChange
<1>5. QED
  BY <1>3, <1>4

LEMMA TaskStepInv ==
    ASSUME PlacesApart, PasteInv, NEW p \in Pastes, NEW t \in Tasks, TaskStep(p, t)
    PROVE  TasksInv' /\ Planned' /\ Cleared'
<1>0. PasteTypeOK /\ [PasteNext]_pasteVars /\ task \in [Pastes -> [Tasks -> TaskStates]]
  BY TypeParts DEF PasteInv, PasteNext
<1>1. t \in plan[p]
  BY TakenPlanned DEF TaskStep, ReadMetadata, Download, Uploaded, Verify, SourceDeleted, Copied,
                      TaskFails, WorkingTasks, At
<1>2. Arrived(p, t) /\ OwnData(p, t) /\ OwnContent
  BY DEF PasteInv
<1>3. CASE ReadMetadata(p, t)
  <2>1. /\ UNCHANGED <<store, isMove, clipboard, paste, plan, stop, call>>
        /\ task[p][t].pc = "metadata"
        /\ task'[p][t].pc = "download" /\ task'[p][t].data = task[p][t].data
        /\ \A q \in Pastes, u \in Tasks : (q # p \/ u # t) => task'[q][u] = task[q][u]
    BY <1>0, <1>3 DEF ReadMetadata, TaskStates, At
  <2>2. Arrived(p, t)' /\ OwnData(p, t)'
    BY <1>0, <2>1, TaskFrame
  <2>3. QED
    BY <1>0, <1>1, <2>1, <2>2, TaskChange
<1>4. CASE Download(p, t)
  <2>1. /\ UNCHANGED <<store, isMove, clipboard, paste, plan, stop>>
        /\ task[p][t].pc = "download" /\ store[Source[t]] # Absent
        /\ task'[p][t].pc = "upload" /\ task'[p][t].data = store[Source[t]]
        /\ \A q \in Pastes, u \in Tasks : (q # p \/ u # t) => task'[q][u] = task[q][u]
    BY <1>0, <1>4 DEF Download, TaskStates, At
  <2>2. /\ call'[p][t]["upload"] = "sent"
        /\ call'[p][t]["delete"] = call[p][t]["delete"]
        /\ call'[p][t]["copy"] = call[p][t]["copy"]
        /\ \A q \in Pastes, u \in Tasks : (q # p \/ u # t) => call'[q][u] = call[q][u]
    BY <1>0, <1>4, AnswerEffect DEF Download, Kinds, Answers
  <2>3. Arrived(p, t)'
    BY <1>2, <2>1, <2>2 DEF Arrived
  <2>4. OwnData(p, t)'
    BY <1>2, <2>1, <2>2 DEF OwnData, OwnContent
  <2>5. QED
    BY <1>0, <1>1, <2>1, <2>2, <2>3, <2>4, TaskChange
<1>5. CASE Uploaded(p, t) \/ SourceDeleted(p, t) \/ Copied(p, t)
  <2>1. PICK pc \in {"verify", "done"} :
            /\ GoTo(p, t, pc)
            /\ pc = "done" /\ isMove[p] =>
                  call[p][t]["delete"] = "ok" \/ call[p][t]["copy"] = "ok"
    BY <1>5 DEF Uploaded, SourceDeleted, Copied
  <2>2. /\ UNCHANGED <<store, isMove, clipboard, paste, plan, stop, call>>
        /\ task[p][t].pc \in Working
    BY <1>5 DEF Uploaded, SourceDeleted, Copied, At, Working
  <2>3. /\ task'[p][t].pc = pc /\ task'[p][t].data = task[p][t].data
        /\ \A q \in Pastes, u \in Tasks : (q # p \/ u # t) => task'[q][u] = task[q][u]
    BY <1>0, <2>1, GoToEffect DEF Pcs, Working
  <2>4. Arrived(p, t)' /\ OwnData(p, t)'
    BY <1>0, <2>2, <2>3, TaskFrame
  <2>5. isMove[p] /\ pc = "done" => store[Target[p][t]] = t /\ store[Source[t]] = Absent
    BY <1>2, <2>1 DEF Arrived
  <2>6. QED
    BY <1>0, <1>1, <2>1, <2>2, <2>3, <2>4, <2>5, TaskChange DEF Working
<1>6. CASE Verify(p, t)
  <2>1. /\ UNCHANGED <<store, isMove, clipboard, paste, plan, stop>>
        /\ task[p][t].pc = "verify" /\ store[Target[p][t]] # Absent
    BY <1>6 DEF Verify, At
  <2>2. /\ task'[p][t].pc = "delete" /\ task'[p][t].data = task[p][t].data
        /\ \A q \in Pastes, u \in Tasks : (q # p \/ u # t) => task'[q][u] = task[q][u]
    BY <1>0, <1>6, GoToEffect DEF Verify, Pcs, Working
  <2>3. /\ call'[p][t]["delete"] = "sent"
        /\ call'[p][t]["upload"] = call[p][t]["upload"]
        /\ call'[p][t]["copy"] = call[p][t]["copy"]
        /\ \A q \in Pastes, u \in Tasks : (q # p \/ u # t) => call'[q][u] = call[q][u]
    BY <1>0, <1>6, AnswerEffect DEF Verify, Kinds, Answers
  <2>4. Arrived(p, t)'
    BY <1>2, <2>1, <2>3 DEF Arrived, OwnContent
  <2>5. OwnData(p, t)'
    BY <1>2, <2>2, <2>3 DEF OwnData
  <2>6. QED
    BY <1>0, <1>1, <2>1, <2>2, <2>3, <2>4, <2>5, TaskChange
<1>7. CASE TaskFails(p, t)
  <2>1. PICK pc \in {"failed", "cancelled"} :
            GoTo(p, t, pc) /\ (pc = "cancelled" => stop' = [stop EXCEPT ![p] = TRUE])
    BY <1>7 DEF TaskFails
  <2>2. /\ UNCHANGED <<store, isMove, clipboard, paste, plan, call>>
        /\ task[p][t].pc \in Working
        /\ stop' = stop \/ stop' = [stop EXCEPT ![p] = TRUE]
    BY <1>7 DEF TaskFails, WorkingTasks
  <2>3. /\ task'[p][t].pc = pc /\ task'[p][t].data = task[p][t].data
        /\ \A q \in Pastes, u \in Tasks : (q # p \/ u # t) => task'[q][u] = task[q][u]
    BY <1>0, <2>1, GoToEffect DEF Pcs
  <2>4. stop \in [Pastes -> BOOLEAN]
    BY <1>0 DEF PasteTypeOK
  <2>5. \A q \in Pastes : stop[q] => stop'[q]
    BY <2>2, <2>4
  <2>6. pc = "cancelled" => stop'[p]
    BY <2>1, <2>4
  <2>7. Arrived(p, t)' /\ OwnData(p, t)'
    BY <1>0, <2>2, <2>3, TaskFrame
  <2>8. QED
    BY <1>0, <1>1, <2>2, <2>3, <2>5, <2>6, <2>7, TaskChange DEF Working
<1>8. QED
  BY <1>3, <1>4, <1>5, <1>6, <1>7 DEF TaskStep

LEMMA ServerStepInv ==
    ASSUME PlacesApart, PasteInv, NEW p \in Pastes, NEW t \in Tasks, ServerStep(p, t)
    PROVE  TasksInv' /\ Planned' /\ Cleared'
<1>0. PasteTypeOK /\ [PasteNext]_pasteVars /\ store \in [Places -> Contents]
  BY DEF PasteInv, PasteTypeOK, PasteNext
<1>1. t \in plan[p] /\ \A u \in Tasks : Target[p][t] # Source[u]
  BY CallersPlanned DEF ServerStep, ServeUpload, ServeDelete, CopyObject, VerifyCopy,
                        DeleteMoved, Kinds
<1>2. Arrived(p, t) /\ OwnData(p, t)
  BY DEF PasteInv
<1>3. UNCHANGED <<isMove, clipboard, paste, plan, stop, task>>
  BY DEF ServerStep, ServeUpload, ServeDelete, CopyObject, VerifyCopy, DeleteMoved
<1>4. /\ store[Source[t]] = Absent => store'[Source[t]] = Absent
      /\ store[Target[p][t]] = t => store'[Target[p][t]] = t
  BY <1>0, <1>1, StoreStep
<1>5. isMove[p] /\ task'[p][t].pc = "done" =>
          store'[Target[p][t]] = t /\ store'[Source[t]] = Absent
  BY <1>3, <1>4 DEF PasteInv, Outcome, At
<1>6. task'[p][t].pc = "cancelled" => stop'[p]
  BY <1>3 DEF PasteInv, Outcome, At
<1>7. ASSUME NEW k \in Kinds, NEW a \in Answers, Answer(p, t, k, a),
             Arrived(p, t)', k = "upload" => call[p][t]["upload"] # "none"
      PROVE  TasksInv' /\ Planned' /\ Cleared'
  <2>1. /\ \A j \in Kinds : j # k => call'[p][t][j] = call[p][t][j]
        /\ \A q \in Pastes, u \in Tasks : (q # p \/ u # t) => call'[q][u] = call[q][u]
    BY <1>0, <1>7, AnswerEffect
  <2>2. OwnData(p, t)'
    BY <1>2, <1>3, <1>7, <2>1 DEF OwnData, Kinds
  <2>3. QED
    BY <1>0, <1>1, <1>3, <1>5, <1>6, <1>7, <2>1, <2>2, TaskChange
<1>8. CASE ServeUpload(p, t)
  <2>1. Answer(p, t, "upload", "ok") /\ call[p][t]["upload"] = "sent"
    BY <1>8 DEF ServeUpload
  <2>2. store'[Target[p][t]] = t
    BY <1>0, <1>2, <1>8, PasteAssumption DEF ServeUpload, OwnData
  <2>3. /\ call'[p][t]["copy"] = call[p][t]["copy"]
        /\ call'[p][t]["delete"] = call[p][t]["delete"]
    BY <1>0, <2>1, AnswerEffect DEF Kinds, Answers
  <2>4. Arrived(p, t)'
    BY <1>2, <1>3, <1>4, <2>2, <2>3 DEF Arrived
  <2>5. QED
    BY <1>7, <2>1, <2>4 DEF Kinds, Answers
<1>9. CASE ServeDelete(p, t)
  <2>1. Answer(p, t, "delete", "ok") /\ call[p][t]["delete"] = "sent"
    BY <1>9 DEF ServeDelete
  <2>2. store'[Source[t]] = Absent
    BY <1>0, <1>9, PasteAssumption DEF ServeDelete
  <2>3. store'[Target[p][t]] = t
    BY <1>2, <1>4, <2>1 DEF Arrived
  <2>4. QED
    BY <1>7, <2>1, <2>2, <2>3 DEF Arrived, Kinds, Answers
<1>10. CASE CopyObject(p, t)
  <2>1. PICK a \in {"copied", "ok"} : Answer(p, t, "copy", a) /\ (isMove[p] => a = "copied")
    BY <1>10 DEF CopyObject
  <2>2. store'[Target[p][t]] = t
    <3>1. store[Source[t]] = t
      BY <1>10 DEF CopyObject, PasteInv, OwnContent
    <3>2. QED
      BY <1>0, <1>10, <3>1, PasteAssumption DEF CopyObject
  <2>3. call'[p][t]["delete"] = call[p][t]["delete"] /\ call'[p][t]["copy"] = a
    BY <1>0, <2>1, AnswerEffect DEF Kinds, Answers
  <2>4. Arrived(p, t)'
    BY <1>2, <1>3, <1>4, <2>1, <2>2, <2>3 DEF Arrived
  <2>5. QED
    BY <1>7, <2>1, <2>4 DEF Kinds, Answers
<1>11. CASE VerifyCopy(p, t)
  <2>1. Answer(p, t, "copy", "verified") /\ call[p][t]["copy"] = "copied"
    BY <1>11 DEF VerifyCopy
  <2>2. store'[Target[p][t]] = t
    BY <1>2, <1>4, <2>1 DEF Arrived
  <2>3. call'[p][t]["delete"] = call[p][t]["delete"] /\ call'[p][t]["copy"] = "verified"
    BY <1>0, <2>1, AnswerEffect DEF Kinds, Answers
  <2>4. Arrived(p, t)'
    BY <1>2, <1>3, <1>4, <2>2, <2>3 DEF Arrived
  <2>5. QED
    BY <1>7, <2>1, <2>4 DEF Kinds, Answers
<1>12. CASE DeleteMoved(p, t)
  <2>1. Answer(p, t, "copy", "ok") /\ call[p][t]["copy"] = "verified"
    BY <1>12 DEF DeleteMoved
  <2>2. store'[Source[t]] = Absent
    BY <1>0, <1>12, PasteAssumption DEF DeleteMoved
  <2>3. store'[Target[p][t]] = t
    BY <1>2, <1>4, <2>1 DEF Arrived
  <2>4. QED
    BY <1>7, <2>1, <2>2, <2>3 DEF Arrived, Kinds, Answers
<1>13. QED
  BY <1>8, <1>9, <1>10, <1>11, <1>12 DEF ServerStep

\* The steps that move no task.
LEMMA PasteStepInv ==
    ASSUME PlacesApart, PasteInv, NEW p \in Pastes,
           \/ \E selection \in Selections : Select(selection)
           \/ Paste(p) \/ CancelPaste(p) \/ PasteEnds(p) \/ UNCHANGED pasteVars
    PROVE  TasksInv' /\ Planned' /\ Cleared'
<1>0. PasteTypeOK /\ [PasteNext]_pasteVars
  BY DEF PasteInv, PasteNext
<1>1. UNCHANGED <<store, stop, task, call>>
  BY DEF Select, Paste, CancelPaste, PasteEnds, pasteVars
<1>i. ASSUME NEW q \in Pastes
      PROVE  \/ isMove'[q] = isMove[q]
             \/ plan[q] = {} /\ paste[q] = "idle"
  BY <1>0 DEF Select, Paste, CancelPaste, PasteEnds, pasteVars, PasteInv, PasteTypeOK, Planned
<1>2. \A q \in Pastes, u \in Tasks :
          /\ Arrived(q, u)' /\ OwnData(q, u)'
          /\ isMove'[q] /\ At(q, u, "done")' =>
                store'[Target[q][u]] = u /\ store'[Source[u]] = Absent
          /\ At(q, u, "cancelled")' => stop'[q]
  <2> SUFFICES ASSUME NEW q \in Pastes, NEW u \in Tasks
               PROVE  /\ Arrived(q, u)' /\ OwnData(q, u)'
                      /\ isMove'[q] /\ At(q, u, "done")' =>
                            store'[Target[q][u]] = u /\ store'[Source[u]] = Absent
                      /\ At(q, u, "cancelled")' => stop'[q]
    OBVIOUS
  <2>1. CASE isMove'[q] = isMove[q]
    BY <1>0, <1>1, <2>1, TaskFrame
  <2>2. CASE plan[q] = {}
    <3>1. At(q, u, "queued") /\ \A k \in Kinds : call[q][u][k] = "none"
      BY <2>2 DEF PasteInv, Planned
    <3>2. QED
      BY <1>1, <3>1 DEF Arrived, OwnData, At, Kinds, PasteInv
  <2>3. QED
    BY <1>i, <2>1, <2>2
<1>3. CASE Paste(p)
  <2>1. /\ paste[p] = "idle" /\ plan[p] = {} /\ clipboard' # "empty"
        /\ paste'[p] \in {"nothing", "running"} /\ plan'[p] \subseteq Tasks
        /\ \A q \in Pastes \ {p} : paste'[q] = paste[q] /\ plan'[q] = plan[q]
        /\ \A t \in plan'[p] : ~(p \in SameContext /\ Target[p][t] = Source[t])
    BY <1>0, <1>3 DEF Paste, PasteTypeOK, PasteInv, Planned
  <2>2. Cleared'
    BY <2>1 DEF Cleared
  <2>3. ASSUME NEW q \in Pastes, NEW u \in Tasks
        PROVE  Outcome(q, u)'
    <3>1. paste'[q] = "done" /\ u \in plan'[q] => At(q, u, "done")
      BY <2>1 DEF PasteInv, Outcome
    <3>2. QED
      BY <1>1, <1>2, <3>1 DEF Outcome, At
  <2>4. ASSUME NEW q \in Pastes
        PROVE  /\ paste'[q] = "idle" => plan'[q] = {}
               /\ \A t \in Tasks :
                     IF t \in plan'[q] THEN \A u \in Tasks : Target[q][t] # Source[u]
                     ELSE At(q, t, "queued")' /\ \A k \in Kinds : call'[q][t][k] = "none"
    <3>1. CASE q # p
      BY <1>1, <2>1, <3>1 DEF PasteInv, Planned, At
    <3>2. CASE q = p
      <4>1. \A t \in Tasks : At(p, t, "queued") /\ \A k \in Kinds : call[p][t][k] = "none"
        BY <2>1 DEF PasteInv, Planned
      <4>2. \A t \in plan'[p], u \in Tasks : Target[p][t] # Source[u]
        BY <2>1 DEF PlacesApart
      <4>3. QED
        BY <1>1, <2>1, <3>2, <4>1, <4>2 DEF At
    <3>3. QED
      BY <3>1, <3>2
  <2>5. Planned'
    BY <2>4 DEF Planned
  <2>6. QED
    BY <1>2, <2>2, <2>3, <2>5 DEF TasksInv
<1>4. CASE CancelPaste(p) \/ UNCHANGED pasteVars \/ \E selection \in Selections : Select(selection)
  <2>1. /\ UNCHANGED <<store, isMove, paste, plan, stop, task, call>>
        /\ clipboard' = "empty" => clipboard = "empty"
    BY <1>4 DEF CancelPaste, Select, Selections, pasteVars
  <2>2. \A q \in Pastes, u \in Tasks : Outcome(q, u)'
    BY <1>2, <2>1 DEF PasteInv, Outcome, At
  <2>3. Planned' /\ Cleared'
    BY <2>1 DEF PasteInv, Planned, Cleared, At
  <2>4. QED
    BY <1>2, <2>2, <2>3 DEF TasksInv
<1>5. CASE PasteEnds(p)
  <2>1. /\ plan' = plan /\ isMove' = isMove /\ paste[p] = "running"
        /\ paste'[p] \in {"cancelled", "failed", "done"}
        /\ \A q \in Pastes \ {p} : paste'[q] = paste[q]
        /\ clipboard' = "empty" =>
              clipboard = "empty" \/ (isMove[p] /\ paste'[p] = "done")
    BY <1>0, <1>5 DEF PasteEnds, PasteTypeOK
  <2>2. paste'[p] = "done" => /\ ~stop[p] /\ WorkingTasks(p) = {} /\ QueuedTasks(p) = {}
                              /\ FailedTasks(p) = {}
    BY <1>0, <1>5 DEF PasteEnds, PasteTypeOK
  <2>3. ASSUME paste'[p] = "done", NEW u \in Tasks, u \in plan[p]
        PROVE  At(p, u, "done")
    <3>1. task[p][u].pc \in Pcs
      BY <1>0, TypeParts DEF TaskStates
    <3>2. task[p][u].pc \notin {"queued", "failed"} \cup Working
      BY <2>2, <2>3 DEF WorkingTasks, QueuedTasks, FailedTasks, At
    <3>3. task[p][u].pc # "cancelled"
      BY <2>2, <2>3 DEF PasteInv, Outcome, At
    <3>4. QED
      BY <3>1, <3>2, <3>3 DEF Pcs, At
  <2>4. ASSUME NEW q \in Pastes, NEW u \in Tasks
        PROVE  Outcome(q, u)'
    <3>1. paste'[q] = "done" /\ u \in plan[q] => At(q, u, "done")
      BY <2>1, <2>3 DEF PasteInv, Outcome
    <3>2. QED
      BY <1>1, <1>2, <2>1, <3>1 DEF Outcome, At
  <2>5. Cleared'
    <3>1. CASE clipboard' = "empty" /\ clipboard = "empty"
      <4>1. PICK q \in Pastes : isMove[q] /\ paste[q] = "done"
        BY <3>1 DEF PasteInv, Cleared
      <4>2. paste'[q] = "done"
        BY <2>1, <4>1
      <4>3. QED
        BY <2>1, <4>1, <4>2 DEF Cleared
    <3>2. QED
      BY <2>1, <3>1 DEF Cleared
  <2>6. Planned'
    <3>1. \A q \in Pastes : paste'[q] = "idle" => paste[q] = "idle"
      BY <2>1
    <3>2. QED
      BY <1>1, <2>1, <3>1 DEF PasteInv, Planned, At
  <2>7. QED
    BY <1>2, <2>4, <2>5, <2>6 DEF TasksInv
<1>6. QED
  BY <1>3, <1>4, <1>5

LEMMA PasteInitInv ==
    ASSUME PlacesApart, PasteInit
    PROVE  PasteInv
<1>1. PasteTypeOK
  BY PasteInitType
<1>2. ASSUME NEW t \in Tasks PROVE store[Source[t]] = t
  <2>1. (CHOOSE u \in Tasks : Source[u] = Source[t]) = t
    BY DEF PlacesApart
  <2>2. QED
    BY <2>1, PasteAssumption DEF PasteInit
<1>3. ASSUME NEW p \in Pastes, NEW t \in Tasks PROVE store[Target[p][t]] \in {t, Absent}
  <2>1. CASE \E u \in Tasks : Source[u] = Target[p][t]
    <3>1. PICK u \in Tasks : Source[u] = Target[p][t]
      BY <2>1
    <3>2. u = t
      BY <3>1 DEF PlacesApart
    <3>3. QED
      BY <1>2, <3>1, <3>2
  <2>2. CASE ~ \E u \in Tasks : Source[u] = Target[p][t]
    BY <2>2, PasteAssumption DEF PasteInit
  <2>3. QED
    BY <2>1, <2>2
<1>4. OwnContent
  BY <1>2, <1>3 DEF OwnContent
<1>5. CopiedFirst
  BY <1>2, PasteAssumption DEF CopiedFirst, Absent
<1>6. Planned
  BY DEF PasteInit, Planned, At
<1>7. Cleared
  BY DEF PasteInit, Cleared
<1>8. \A p \in Pastes, t \in Tasks : Arrived(p, t) /\ OwnData(p, t) /\ Outcome(p, t)
  BY DEF PasteInit, Arrived, OwnData, Outcome, At, Kinds
<1>9. QED
  BY <1>1, <1>4, <1>5, <1>6, <1>7, <1>8 DEF PasteInv

\* PasteInv is inductive.
THEOREM PasteInvariant == PlacesApart /\ PasteSpec => []PasteInv
<1> SUFFICES ASSUME PlacesApart PROVE PasteSpec => []PasteInv
  OBVIOUS
<1>1. PasteInit => PasteInv
  BY PasteInitInv
<1>2. PasteInv /\ [PasteNext]_pasteVars => PasteInv'
  <2> SUFFICES ASSUME PasteInv, [PasteNext]_pasteVars PROVE PasteInv'
    OBVIOUS
  <2>1. PasteTypeOK'
    BY PasteStepType DEF PasteInv
  <2>2. OwnContent' /\ CopiedFirst'
    BY StoreStep
  <2>3. CASE \E p \in Pastes :
                \/ Paste(p) \/ NextTask(p) \/ CancelPaste(p) \/ PasteEnds(p)
                \/ \E t \in Tasks : TaskStep(p, t) \/ ServerStep(p, t)
    <3>1. PICK p \in Pastes :
              \/ Paste(p) \/ NextTask(p) \/ CancelPaste(p) \/ PasteEnds(p)
              \/ \E t \in Tasks : TaskStep(p, t) \/ ServerStep(p, t)
      BY <2>3
    <3>2. TasksInv' /\ Planned' /\ Cleared'
      BY <3>1, PasteStepInv, NextTaskInv, TaskStepInv, ServerStepInv
    <3>3. QED
      BY <2>1, <2>2, <3>2 DEF PasteInv, TasksInv
  <2>4. CASE UNCHANGED pasteVars \/ \E selection \in Selections : Select(selection)
    <3>1. CASE Pastes = {}
      <4>1. Planned' /\ TasksInv'
        BY <3>1 DEF Planned, TasksInv
      <4>2. Cleared'
        BY <2>4, <3>1 DEF pasteVars, Select, Selections, Cleared, PasteInv
      <4>3. QED
        BY <2>1, <2>2, <4>1, <4>2 DEF PasteInv, TasksInv
    <3>2. CASE Pastes # {}
      <4>1. TasksInv' /\ Planned' /\ Cleared'
        BY <2>4, <3>2, PasteStepInv
      <4>2. QED
        BY <2>1, <2>2, <4>1 DEF PasteInv, TasksInv
    <3>3. QED
      BY <3>1, <3>2
  <2>5. QED
    BY <2>3, <2>4 DEF PasteNext
<1>3. QED
  BY <1>1, <1>2, PTL DEF PasteSpec

\* No object in the clipboard is ever lost, with any number of objects, of
\* pastes under way at once and of workers: whichever calls of
\* browserClipboardTransfer.ts and copy_object fail, are lost or are acted on
\* after their paste was cancelled, as long as the places are apart.  (Where
\* another context reaches the very source, MCMoveOntoItself shows the loss.)
THEOREM NothingLostAlways == PlacesApart /\ PasteSpec => []NothingLost
<1>1. PasteInv => NothingLost
  <2> SUFFICES ASSUME PasteInv, NEW t \in Tasks PROVE \E l \in Places : store[l] = t
    BY DEF NothingLost
  <2>1. CASE store[Source[t]] = t
    BY <2>1, PasteAssumption
  <2>2. CASE store[Source[t]] = Absent
    <3>1. PICK p \in Pastes : store[Target[p][t]] = t
      BY <2>2 DEF PasteInv, CopiedFirst
    <3>2. QED
      BY <3>1, PasteAssumption
  <2>3. QED
    BY <2>1, <2>2 DEF PasteInv, OwnContent
<1>2. QED
  BY <1>1, PasteInvariant, PTL

\* A move that reports done has moved every object it planned: each is at its
\* target and gone from its source, and stays so, whatever another paste of the
\* same objects does, whatever is cut or copied meanwhile and however late a call
\* of either is acted on; and setClipboard(null) comes only with such a move.
THEOREM DoneMeansMovedAlways == PlacesApart /\ PasteSpec => []DoneMeansMoved
<1>1. PasteInv => DoneMeansMoved
  <2> SUFFICES ASSUME PasteInv PROVE DoneMeansMoved
    OBVIOUS
  <2>1. ASSUME NEW p \in Pastes, isMove[p], paste[p] = "done", NEW t \in plan[p]
        PROVE  store[Target[p][t]] = t /\ store[Source[t]] = Absent
    <3>1. t \in Tasks
      BY DEF PasteInv, PasteTypeOK
    <3>2. QED
      BY <2>1, <3>1 DEF PasteInv, Outcome
  <2>2. clipboard = "empty" => \E p \in Pastes : isMove[p] /\ paste[p] = "done"
    BY DEF PasteInv, Cleared
  <2>3. QED
    BY <2>1, <2>2 DEF DoneMeansMoved
<1>2. QED
  BY <1>1, PasteInvariant, PTL
=============================================================================
