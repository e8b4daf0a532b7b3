----------------------- MODULE DocumentPipeline_proofs -----------------------
(***************************************************************************)
(* Safety of DocumentPipeline for any number of documents, tasks, workers  *)
(* and requests and for every value of its bounds.  IInv is inductive:     *)
(* InitEstablishes and StepKeepsIInv.  Its type part (TypeStep) is proved  *)
(* alone and first; the other parts are proved action by action with       *)
(* lemmas about what the code's steps have in common: leaving all rows     *)
(* alone, making a task inactive or active, moving inside the locked block *)
(* and leaving it.  The refinement of DocumentIndex comes last.            *)
(***************************************************************************)
EXTENDS DocumentPipeline, TLAPS

USE DocumentOfAssumption, UploadTasksAssumption, BoundsAssumption, NullAssumption

LEMMA InitEstablishes == Init => IInv
  BY DEF Init, IInv, TypeOK, OneActiveTask, SuccessMeansIndexed, TasksHaveDocuments,
         MissingIsEmpty, KeyIffLocked, CommitIsSafe, Active, ActiveStatuses, Present,
         DocumentStatus, TaskStatus, WorkerPc, LockedPc, RaisedPc, ClientPc, Message

-----------------------------------------------------------------------------
(* Types.                                                                  *)

\* What a request does to its own variables keeps their types.
LEMMA ContinueType ==
  ASSUME TypeOK, NEW c \in Clients, NEW at \in ClientPc, NEW t \in Tasks,
         NEW id \in 0..MaxDispatches, at = "record" => id # 0, Continue(c, at, t, id)
  PROVE  /\ cpc' \in [Clients -> ClientPc]
         /\ ctask' \in [Clients -> Tasks \cup {NoTask}]
         /\ \A k \in Clients : cpc'[k] # "idle" => ctask'[k] \in Tasks
         /\ cid' \in [Clients -> 0..MaxDispatches]
         /\ \A k \in Clients : cpc'[k] = "record" => cid'[k] # 0
  BY DEF TypeOK, Continue

LEMMA RespondType ==
  ASSUME TypeOK, NEW c \in Clients, Respond(c)
  PROVE  /\ cpc' \in [Clients -> ClientPc]
         /\ ctask' \in [Clients -> Tasks \cup {NoTask}]
         /\ \A k \in Clients : cpc'[k] # "idle" => ctask'[k] \in Tasks
         /\ cid' \in [Clients -> 0..MaxDispatches]
         /\ \A k \in Clients : cpc'[k] = "record" => cid'[k] # 0
  BY DEF TypeOK, Respond, Continue, ClientPc

LEMMA GotoType ==
  ASSUME TypeOK, NEW w \in Workers, NEW to \in WorkerPc, Goto(w, to),
         pc[w] # "idle", message' = message
  PROVE  /\ pc' \in [Workers -> WorkerPc]
         /\ \A v \in Workers : pc'[v] # "idle" => message'[v] \in Message
         /\ message' \in [Workers -> Message \cup {NoMessage}]
  BY DEF TypeOK, Goto

LEMMA IdleType ==
  ASSUME TypeOK, NEW w \in Workers, Idle(w)
  PROVE  /\ pc' \in [Workers -> WorkerPc]
         /\ \A v \in Workers : pc'[v] # "idle" => message'[v] \in Message
         /\ message' \in [Workers -> Message \cup {NoMessage}]
         /\ had' \in [Workers -> BOOLEAN]
  BY DEF TypeOK, Idle, Goto, WorkerPc

LEMMA SetStatusType ==
  ASSUME TypeOK, NEW t \in Tasks, NEW s \in TaskStatus, SetStatus(t, s)
  PROVE  status' \in [Tasks -> TaskStatus]
  BY DEF TypeOK, SetStatus

LEMMA FailDocumentType ==
  ASSUME TypeOK, NEW t \in Tasks, FailDocumentOf(t)
  PROVE  docStatus' \in [Documents -> DocumentStatus]
  BY DEF TypeOK, FailDocumentOf, DocumentStatus

\* A worker that holds a message works on a task and a document.
LEMMA MessageType ==
  ASSUME TypeOK, NEW w \in Workers, pc[w] # "idle"
  PROVE  /\ message[w] \in Message
         /\ TaskOf(w) \in Tasks
         /\ DocOf(w) \in Documents
  BY DEF TypeOK, Message, TaskOf, DocOf

LEMMA LockType ==
  ASSUME TypeOK, NEW w \in Workers, ReleaseLock(w) \/ AbandonLock(w)
  PROVE  lock' \in [Documents -> Workers \cup {Free, Orphaned}]
  BY DEF TypeOK, ReleaseLock, AbandonLock

LEMMA ClientStepType ==
  ASSUME TypeOK, NEW c \in Clients, ClientStep(c) PROVE TypeOK'
<1> USE DEF ClientPc, TaskStatus, ActiveStatuses, docVars, brokerVars, workerVars
<1>1. ASSUME NEW t \in Tasks, Upload(c, t) PROVE TypeOK'
  BY <1>1, ContinueType DEF Upload, TypeOK, DocumentStatus
<1>2. ASSUME NEW t \in Tasks, Reprocess(c, t) PROVE TypeOK'
  BY <1>2, ContinueType DEF Reprocess, CreateTask, TypeOK
<1>3. ASSUME NEW t \in Tasks, ReprocessExisting(c, t) PROVE TypeOK'
  BY <1>3, ContinueType DEF ReprocessExisting, TypeOK
<1>4. ASSUME NEW t \in Tasks, RetryRead(c, t) PROVE TypeOK'
  BY <1>4, ContinueType DEF RetryRead, TypeOK
<1>5. ASSUME NEW t \in Tasks, CancelRead(c, t) PROVE TypeOK'
  BY <1>5, ContinueType DEF CancelRead, TypeOK
<1>6. ASSUME NEW t \in Tasks, RetryCreates(c, t) PROVE TypeOK'
  BY <1>6, ContinueType DEF RetryCreates, CreateTask, TypeOK
<1>7. CASE RetryReset(c)
  BY <1>7, ContinueType DEF RetryReset, TypeOK
<1>8. CASE CancelNow(c)
  <2> DEFINE t == ctask[c]
  <2>1. t \in Tasks /\ celeryId[t] \in 0..MaxDispatches
    BY <1>8 DEF CancelNow, TypeOK
  <2>2. \/ Continue(c, "failThenRevoke", t, 0) \/ Continue(c, "failDocument", t, 0)
        \/ Continue(c, "revoke", t, celeryId[t]) \/ Respond(c)
    BY <1>8 DEF CancelNow
  <2>3. /\ cpc' \in [Clients -> ClientPc]
        /\ ctask' \in [Clients -> Tasks \cup {NoTask}]
        /\ \A k \in Clients : cpc'[k] # "idle" => ctask'[k] \in Tasks
        /\ cid' \in [Clients -> 0..MaxDispatches]
        /\ \A k \in Clients : cpc'[k] = "record" => cid'[k] # 0
    BY <2>1, <2>2, ContinueType, RespondType
  <2>4. status' \in [Tasks -> TaskStatus]
    BY <1>8, <2>1, SetStatusType DEF CancelNow
  <2> QED
    BY <1>8, <2>3, <2>4 DEF CancelNow, TypeOK
<1>9. CASE CancelRequest(c)
  BY <1>9, ContinueType DEF CancelRequest, TypeOK
<1>10. CASE FailDocument(c)
  BY <1>10, ContinueType, RespondType, FailDocumentType DEF FailDocument, TypeOK
<1>11. CASE Revoke(c)
  BY <1>11, RespondType DEF Revoke, TypeOK
<1>12. CASE Publish(c)
  <2> DEFINE m == [id |-> sent + 1, task |-> ctask[c], retries |-> 0]
  <2>1. ctask[c] \in Tasks /\ sent + 1 \in 1..MaxDispatches
    BY <1>12 DEF Publish, TypeOK
  <2>2. m \in Message
    BY <2>1 DEF Message
  <2>3. queue' \subseteq Message
    BY <1>12, <2>2 DEF Publish, TypeOK
  <2>4. Continue(c, "record", ctask[c], sent + 1) /\ sent + 1 # 0 /\ sent + 1 \in 0..MaxDispatches
    BY <1>12, <2>1 DEF Publish
  <2> HIDE DEF m
  <2> QED
    BY <1>12, <2>1, <2>3, <2>4, ContinueType DEF Publish, TypeOK
<1>13. CASE Record(c)
  BY <1>13, RespondType DEF Record, TypeOK
<1>14. CASE DispatchFails(c)
  BY <1>14, ContinueType, RespondType, SetStatusType DEF DispatchFails, TypeOK
<1>15. CASE RequestAborts(c)
  BY <1>15, RespondType DEF RequestAborts, TypeOK
<1> QED
  BY <1>1, <1>2, <1>3, <1>4, <1>5, <1>6, <1>7, <1>8, <1>9, <1>10, <1>11, <1>12, <1>13,
     <1>14, <1>15 DEF ClientStep

LEMMA WorkType ==
  ASSUME TypeOK, NEW w \in Workers, Work(w) PROVE TypeOK'
<1> USE MessageType DEF WorkerPc, LockedPc, RaisedPc, docVars, brokerVars, workerVars, clientVars
<1>1. CASE CheckDone(w)
  BY <1>1, GotoType DEF CheckDone, TypeOK
<1>2. ASSUME pc[w] # "idle", MarkCancelled(w) PROVE TypeOK'
  BY <1>2, GotoType, SetStatusType DEF MarkCancelled, TypeOK, TaskStatus
<1>3. CASE WorkerFailsDocument(w)
  BY <1>3, GotoType, FailDocumentType DEF WorkerFailsDocument, TypeOK
<1>4. CASE CheckRuns(w)
  BY <1>4, GotoType DEF CheckRuns, TypeOK
<1>5. CASE AcquireLock(w)
  BY <1>5, GotoType DEF AcquireLock, TypeOK
<1>6. CASE LockRefused(w)
  BY <1>6, GotoType DEF LockRefused, TypeOK
<1>7. CASE StartRejected(w)
  BY <1>7, GotoType, LockType DEF StartRejected, TypeOK
<1>8. CASE StartDone(w)
  BY <1>8, GotoType DEF StartDone, TypeOK
<1>9. CASE StartCancelled(w)
  <2>1. docStatus' \in [Documents -> DocumentStatus]
    BY <1>9, FailDocumentType DEF StartCancelled, TypeOK
  <2>2. status' \in [Tasks -> TaskStatus]
    BY <1>9, SetStatusType DEF StartCancelled, TaskStatus
  <2> QED
    BY <1>9, <2>1, <2>2, GotoType DEF StartCancelled, TypeOK
<1>10. CASE Start(w)
  BY <1>10, GotoType DEF Start, TypeOK, TaskStatus, ActiveStatuses
<1>11. CASE StartFails(w)
  BY <1>11, GotoType, LockType DEF StartFails, TypeOK
<1>12. CASE Load(w)
  BY <1>12, GotoType DEF Load, TypeOK, DocumentStatus
<1>13. CASE LoadRejected(w)
  BY <1>13, GotoType, LockType DEF LoadRejected, TypeOK
<1>14. CASE RunFails(w)
  BY <1>14, GotoType, LockType DEF RunFails, TypeOK
<1>15. CASE Build(w)
  BY <1>15, GotoType DEF Build, TypeOK
<1>16. CASE Commit(w)
  BY <1>16, GotoType DEF Commit, TypeOK, DocumentStatus
<1>17. CASE BuildCancelled(w)
  BY <1>17, GotoType, LockType DEF BuildCancelled, TypeOK
<1>18. ASSUME NEW kind \in {"retryable", "fatal"}, BuildFails(w, kind) PROVE TypeOK'
  <2>1. docStatus' \in [Documents -> DocumentStatus]
    BY <1>18 DEF BuildFails, TypeOK, DocumentStatus
  <2> QED
    BY <1>18, <2>1, GotoType, LockType DEF BuildFails, TypeOK
<1>19. CASE Finish(w)
  BY <1>19, GotoType, SetStatusType DEF Finish, TypeOK, TaskStatus
<1>20. CASE Release(w)
  BY <1>20, GotoType, LockType DEF Release, TypeOK
<1>21. ASSUME NEW published \in BOOLEAN, RetryTask(w, published) PROVE TypeOK'
  <2>1. pc[w] # "idle" /\ message[w].retries + 1 \in 0..MaxRetries
    BY <1>21 DEF RetryTask, MayRetry, Message
  <2>2. [message[w] EXCEPT !.retries = @ + 1] \in Message
    BY <2>1 DEF Message
  <2>3. queue' \subseteq Message
    BY <1>21, <2>2 DEF RetryTask, TypeOK
  <2>4. status' \in [Tasks -> TaskStatus]
    BY <1>21, <2>1, SetStatusType DEF RetryTask, TaskStatus, ActiveStatuses
  <2> QED
    BY <1>21, <2>1, <2>3, <2>4, GotoType DEF RetryTask, TypeOK
<1>22. CASE RetryRejected(w)
  BY <1>22, GotoType DEF RetryRejected, MayRetry, TypeOK
<1>23. CASE FailTask(w)
  BY <1>23, GotoType, SetStatusType DEF FailTask, TypeOK, TaskStatus
<1>24. CASE Ack(w)
  BY <1>24, IdleType DEF Ack, TypeOK
<1> QED
  BY <1>1, <1>2, <1>3, <1>4, <1>5, <1>6, <1>7, <1>8, <1>9, <1>10, <1>11, <1>12, <1>13,
     <1>14, <1>15, <1>16, <1>17, <1>18, <1>19, <1>20, <1>21, <1>22, <1>23, <1>24
     DEF Work, CheckCancelled, Cancelled

LEMMA TypeStep == TypeOK /\ [Next]_vars => TypeOK'
<1> SUFFICES ASSUME TypeOK, [Next]_vars PROVE TypeOK'
  OBVIOUS
<1> USE DEF docVars, brokerVars, workerVars, clientVars
<1>1. ASSUME NEW d \in Documents, DeleteDocument(d) PROVE TypeOK'
  BY <1>1 DEF DeleteDocument, TypeOK, DocumentStatus, TaskStatus
<1>2. ASSUME NEW w \in Workers, NEW m \in queue, Fetch(w, m) PROVE TypeOK'
  BY <1>2 DEF Fetch, Goto, TypeOK, WorkerPc
<1>3. ASSUME NEW w \in Workers, WorkerLost(w) PROVE TypeOK'
  BY <1>3, IdleType, MessageType, LockType DEF WorkerLost, TypeOK
<1>4. ASSUME NEW w \in Workers, HardTimeLimit(w) PROVE TypeOK'
  BY <1>4, IdleType, LockType DEF HardTimeLimit, TypeOK
<1>5. ASSUME NEW d \in Documents, LockExpires(d) PROVE TypeOK'
  BY <1>5 DEF LockExpires, TypeOK
<1>6. ASSUME NEW t \in Tasks, Reconcile(t) PROVE TypeOK'
  BY <1>6 DEF Reconcile, TypeOK, DocumentStatus, TaskStatus
<1>7. CASE UNCHANGED vars
  BY <1>7 DEF vars, TypeOK
<1> QED
  BY <1>1, <1>2, <1>3, <1>4, <1>5, <1>6, <1>7, ClientStepType, WorkType DEF Next

-----------------------------------------------------------------------------
(* Rows: what the updates do to the conjuncts about documents and tasks.   *)

RowsInv == OneActiveTask /\ SuccessMeansIndexed /\ TasksHaveDocuments /\ MissingIsEmpty

RunsInv == KeyIffLocked /\ CommitIsSafe

LEMMA RowsUnchanged ==
  ASSUME RowsInv, UNCHANGED <<docStatus, index, status>> PROVE RowsInv'
  BY DEF RowsInv, OneActiveTask, SuccessMeansIndexed, TasksHaveDocuments, MissingIsEmpty,
         Active, Present

\* An update to a status that is not active cannot break anything.
LEMMA Deactivation ==
  ASSUME TypeOK, RowsInv, NEW t \in Tasks, NEW s \in TaskStatus \ (ActiveStatuses \cup {"ABSENT"}),
         SetStatus(t, s), UNCHANGED <<docStatus, index>>
  PROVE  RowsInv'
  BY DEF TypeOK, RowsInv, SetStatus, OneActiveTask, SuccessMeansIndexed, TasksHaveDocuments,
         MissingIsEmpty, Active, Present

\* An update to an active status is safe for what the constraint lets through.
LEMMA Activation ==
  ASSUME TypeOK, RowsInv, NEW t \in Tasks, NEW s \in ActiveStatuses,
         ~ActiveElsewhere(t), Present(DocumentOf[t]),
         status' = [status EXCEPT ![t] = s], UNCHANGED <<docStatus, index>>
  PROVE  RowsInv'
<1>1. OneActiveTask'
  BY DEF TypeOK, RowsInv, OneActiveTask, ActiveElsewhere, Siblings, Active
<1>2. TasksHaveDocuments'
  BY DEF TypeOK, RowsInv, TasksHaveDocuments, Present
<1> QED
  BY <1>1, <1>2 DEF RowsInv, SuccessMeansIndexed, MissingIsEmpty, Present

LEMMA DocumentFailure ==
  ASSUME TypeOK, RowsInv, NEW t \in Tasks, FailDocumentOf(t), UNCHANGED <<index, status>>
  PROVE  RowsInv'
  BY DEF TypeOK, RowsInv, FailDocumentOf, OneActiveTask, SuccessMeansIndexed,
         TasksHaveDocuments, MissingIsEmpty, Active, Present

-----------------------------------------------------------------------------
(* Runs: the key and the position of a worker.                             *)

\* No document appears, disappears or changes its chunks.
DocumentsStay ==
  /\ index' = index
  /\ \A d \in Documents : Present(d) => Present(d)'
  /\ \A d \in Documents : docStatus[d] = "DELETED" => docStatus'[d] = "DELETED"

LEMMA StatusesStay ==
  ASSUME UNCHANGED <<docStatus, index>> PROVE DocumentsStay
  BY DEF DocumentsStay, Present

LEMMA FailureStays ==
  ASSUME TypeOK, NEW t \in Tasks, FailDocumentOf(t), UNCHANGED index PROVE DocumentsStay
  BY DEF TypeOK, FailDocumentOf, DocumentsStay, Present

\* A run between its replacing transaction and its SUCCESS stays safe.
LEMMA CommitsStaySafe ==
  ASSUME TypeOK, CommitIsSafe, DocumentsStay,
         \A v \in Workers : pc'[v] \in {"commit", "committed"} =>
            pc'[v] = pc[v] /\ message'[v] = message[v]
  PROVE  CommitIsSafe'
<1> SUFFICES ASSUME NEW v \in Workers, pc'[v] \in {"commit", "committed"}
             PROVE  /\ pc'[v] = "commit" => Present(DocOf(v))'
                    /\ pc'[v] = "committed" =>
                         (index[DocOf(v)] = TaskOf(v) \/ docStatus[DocOf(v)] = "DELETED")'
  BY DEF CommitIsSafe
<1>1. pc'[v] = pc[v] /\ DocOf(v)' = DocOf(v) /\ TaskOf(v)' = TaskOf(v)
  BY DEF DocOf, TaskOf
<1>2. DocOf(v) \in Documents
  BY <1>1, MessageType
<1>3. Present(DocOf(v)) => Present(DocOf(v))'
  BY <1>1, <1>2 DEF DocumentsStay, Present
<1> QED
  BY <1>1, <1>2, <1>3 DEF CommitIsSafe, DocumentsStay

LEMMA WorkersUnchanged ==
  ASSUME TypeOK, RunsInv, UNCHANGED <<pc, message, lock>>, DocumentsStay
  PROVE  RunsInv'
<1>1. KeyIffLocked'
  BY DEF RunsInv, KeyIffLocked, DocOf, TaskOf
<1> QED
  BY <1>1, CommitsStaySafe DEF RunsInv

\* A worker moves inside the locked block, or outside of it.
LEMMA MoveKeepsRuns ==
  ASSUME TypeOK, RunsInv, NEW w \in Workers, NEW to \in WorkerPc \ {"commit", "committed"},
         Goto(w, to), pc[w] \in LockedPc <=> to \in LockedPc,
         UNCHANGED <<message, lock>>, DocumentsStay
  PROVE  RunsInv'
<1>1. KeyIffLocked'
  BY DEF TypeOK, RunsInv, KeyIffLocked, Goto, DocOf, TaskOf
<1> QED
  BY <1>1, CommitsStaySafe DEF RunsInv, TypeOK, Goto

\* A worker leaves the locked block and releases the key.
LEMMA LeaveKeepsRuns ==
  ASSUME TypeOK, RunsInv, NEW w \in Workers, NEW to \in WorkerPc \ LockedPc,
         pc[w] \in LockedPc, Goto(w, to), ReleaseLock(w),
         UNCHANGED message, DocumentsStay
  PROVE  RunsInv'
<1>1. pc[w] # "idle"
  BY DEF LockedPc
<1>2. DocOf(w) \in Documents /\ lock[DocOf(w)] = w
  BY <1>1, MessageType DEF RunsInv, KeyIffLocked
<1>3. lock' = [lock EXCEPT ![DocOf(w)] = Free]
  BY <1>2 DEF ReleaseLock
<1>4. KeyIffLocked'
  BY <1>2, <1>3 DEF TypeOK, RunsInv, KeyIffLocked, Goto, DocOf, TaskOf
<1>5. \A v \in Workers : pc'[v] \in {"commit", "committed"} => pc'[v] = pc[v]
  BY DEF TypeOK, Goto, LockedPc
<1> QED
  BY <1>4, <1>5, CommitsStaySafe DEF RunsInv

\* A process that dies leaves its key to nobody; one that is done has no key.
LEMMA IdleKeepsRuns ==
  ASSUME TypeOK, RunsInv, NEW w \in Workers, Idle(w), DocumentsStay,
         AbandonLock(w) \/ (pc[w] \notin LockedPc /\ UNCHANGED lock)
  PROVE  RunsInv'
<1>1. /\ pc'[w] = "idle"
      /\ \A v \in Workers \ {w} : pc'[v] = pc[v] /\ message'[v] = message[v]
  BY DEF TypeOK, Idle, Goto
<1>2. \A d \in Documents : lock'[d] # w /\ \A v \in Workers \ {w} : lock'[d] = v <=> lock[d] = v
  BY DEF TypeOK, RunsInv, KeyIffLocked, AbandonLock
<1>3. \A v \in Workers : pc'[v] \in LockedPc => v # w /\ DocOf(v) \in Documents
  BY <1>1, MessageType DEF LockedPc
<1>4. KeyIffLocked'
  <2>1. ASSUME NEW v \in Workers, pc'[v] \in LockedPc PROVE lock'[DocOf(v)'] = v
    <3>1. v # w /\ DocOf(v) \in Documents /\ pc[v] \in LockedPc /\ DocOf(v)' = DocOf(v)
      BY <1>1, <1>3, <2>1 DEF DocOf, TaskOf
    <3> QED
      BY <1>2, <3>1 DEF RunsInv, KeyIffLocked
  <2>2. ASSUME NEW d \in Documents, NEW v \in Workers, lock'[d] = v
        PROVE  pc'[v] \in LockedPc /\ DocOf(v)' = d
    BY <1>1, <1>2, <2>2 DEF RunsInv, KeyIffLocked, DocOf, TaskOf
  <2> QED
    BY <2>1, <2>2 DEF KeyIffLocked
<1>5. \A v \in Workers : pc'[v] \in {"commit", "committed"} =>
                           pc'[v] = pc[v] /\ message'[v] = message[v]
  BY <1>1
<1> QED
  BY <1>4, <1>5, CommitsStaySafe DEF RunsInv

-----------------------------------------------------------------------------
(* The inductive step, action by action.  A case names the lemma for the    *)
(* rows and the one for the runs.                                           *)

LEMMA ClientStepKeeps ==
  ASSUME IInv, NEW c \in Clients, ClientStep(c) PROVE RowsInv' /\ RunsInv'
<1> USE DEF docVars, brokerVars, workerVars
<1>0. TypeOK /\ RowsInv /\ RunsInv
  BY DEF IInv, RowsInv, RunsInv
<1>1. ASSUME NEW t \in Tasks, Upload(c, t) PROVE RowsInv' /\ RunsInv'
  <2> DEFINE d == DocumentOf[t]
  <2>1. d \in Documents /\ docStatus[d] = "ABSENT" /\ index[d] = NoIndex
    BY <1>0, <1>1 DEF Upload, RowsInv, MissingIsEmpty, Present
  <2>2. \A u \in Tasks : DocumentOf[u] = d => status[u] = "ABSENT"
    BY <1>0, <2>1 DEF RowsInv, TasksHaveDocuments, Present
  <2>3. OneActiveTask'
    BY <1>0, <1>1, <2>2 DEF Upload, RowsInv, OneActiveTask, Active, ActiveStatuses, TypeOK
  <2>4. SuccessMeansIndexed' /\ TasksHaveDocuments' /\ MissingIsEmpty'
    BY <1>0, <1>1, <2>1 DEF Upload, RowsInv, SuccessMeansIndexed, TasksHaveDocuments,
                           MissingIsEmpty, Present, TypeOK
  <2>5. DocumentsStay
    BY <1>0, <1>1, <2>1 DEF Upload, DocumentsStay, Present, TypeOK
  <2> QED
    BY <1>0, <1>1, <2>3, <2>4, <2>5, WorkersUnchanged DEF Upload, RowsInv
<1>2. ASSUME NEW t \in Tasks, CreateTask(t), UNCHANGED <<docVars, workerVars, lock>>
      PROVE  RowsInv' /\ RunsInv'
  BY <1>0, <1>2, Activation, StatusesStay, WorkersUnchanged DEF CreateTask, ActiveStatuses
<1>3. CASE RetryReset(c)
  BY <1>0, <1>3, Activation, StatusesStay, WorkersUnchanged
     DEF RetryReset, ActiveStatuses, TypeOK, RowsInv, TasksHaveDocuments
<1>4. CASE CancelNow(c)
  <2>1. ctask[c] \in Tasks
    BY <1>0, <1>4 DEF CancelNow, TypeOK
  <2> QED
    BY <1>0, <1>4, <2>1, Deactivation, StatusesStay, WorkersUnchanged
       DEF CancelNow, TaskStatus, ActiveStatuses
<1>5. CASE CancelRequest(c)
  BY <1>0, <1>5, Activation, StatusesStay, WorkersUnchanged
     DEF CancelRequest, ActiveStatuses, TypeOK, RowsInv, TasksHaveDocuments
<1>6. CASE FailDocument(c)
  <2>1. ctask[c] \in Tasks
    BY <1>0, <1>6 DEF FailDocument, TypeOK
  <2> QED
    BY <1>0, <1>6, <2>1, DocumentFailure, FailureStays, WorkersUnchanged DEF FailDocument
<1>7. CASE DispatchFails(c)
  <2>1. ctask[c] \in Tasks
    BY <1>0, <1>7 DEF DispatchFails, TypeOK
  <2> QED
    BY <1>0, <1>7, <2>1, Deactivation, StatusesStay, WorkersUnchanged
       DEF DispatchFails, TaskStatus, ActiveStatuses
<1>8. ASSUME UNCHANGED <<docVars, status, lock, workerVars>> PROVE RowsInv' /\ RunsInv'
  BY <1>0, <1>8, RowsUnchanged, StatusesStay, WorkersUnchanged
<1> QED
  BY <1>1, <1>2, <1>3, <1>4, <1>5, <1>6, <1>7, <1>8
     DEF ClientStep, Reprocess, ReprocessExisting, RetryRead, CancelRead, RetryCreates,
         Revoke, Publish, Record, RequestAborts

\* Steps of a worker outside the locked block.
LEMMA OutsideStepKeeps ==
  ASSUME IInv, NEW w \in Workers,
         \/ CheckDone(w) \/ CheckCancelled(w) \/ WorkerFailsDocument(w) \/ CheckRuns(w)
         \/ LockRefused(w) \/ Cancelled(w) \/ RetryTask(w, TRUE) \/ RetryTask(w, FALSE)
         \/ RetryRejected(w) \/ FailTask(w)
  PROVE  RowsInv' /\ RunsInv'
<1> USE DEF docVars, brokerVars, workerVars, clientVars, LockedPc, RaisedPc, WorkerPc
<1>0. TypeOK /\ RowsInv /\ RunsInv
  BY DEF IInv, RowsInv, RunsInv
<1>1. ASSUME NEW to \in WorkerPc \ LockedPc, Goto(w, to), pc[w] \notin LockedPc,
             UNCHANGED <<docVars, status, lock, message>>
      PROVE  RowsInv' /\ RunsInv'
  BY <1>0, <1>1, RowsUnchanged, StatusesStay, MoveKeepsRuns
<1>2. ASSUME pc[w] \notin LockedPc, pc[w] # "idle", MarkCancelled(w)
      PROVE  RowsInv' /\ RunsInv'
  <2>1. TaskOf(w) \in Tasks
    BY <1>0, <1>2, MessageType
  <2> QED
    BY <1>0, <1>2, <2>1, Deactivation, StatusesStay, MoveKeepsRuns
       DEF MarkCancelled, TaskStatus, ActiveStatuses
<1>3. CASE WorkerFailsDocument(w)
  <2>1. TaskOf(w) \in Tasks
    BY <1>0, <1>3, MessageType DEF WorkerFailsDocument
  <2> QED
    BY <1>0, <1>3, <2>1, DocumentFailure, FailureStays, MoveKeepsRuns DEF WorkerFailsDocument
<1>4. ASSUME NEW published \in BOOLEAN, RetryTask(w, published) PROVE RowsInv' /\ RunsInv'
  <2> DEFINE t == TaskOf(w)
  <2>1. t \in Tasks /\ pc[w] \notin LockedPc
    BY <1>0, <1>4, MessageType DEF RetryTask, MayRetry
  <2>2. RowsInv'
    <3>1. CASE status[t] = "ABSENT"
      BY <1>0, <1>4, <3>1, RowsUnchanged DEF RetryTask, SetStatus
    <3>2. CASE status[t] # "ABSENT"
      BY <1>0, <1>4, <2>1, <3>2, Activation
         DEF RetryTask, SetStatus, RowsInv, TasksHaveDocuments, ActiveStatuses
    <3> QED
      BY <3>1, <3>2
  <2>3. RunsInv'
    BY <1>0, <1>4, <2>1, StatusesStay, MoveKeepsRuns DEF RetryTask
  <2> QED
    BY <2>2, <2>3
<1>5. CASE FailTask(w)
  <2>1. TaskOf(w) \in Tasks
    BY <1>0, <1>5, MessageType DEF FailTask
  <2> QED
    BY <1>0, <1>5, <2>1, Deactivation, StatusesStay, MoveKeepsRuns
       DEF FailTask, TaskStatus, ActiveStatuses
<1> QED
  BY <1>1, <1>2, <1>3, <1>4, <1>5
     DEF CheckDone, CheckCancelled, CheckRuns, LockRefused, Cancelled, RetryRejected, MayRetry

\* Entering the locked block takes the free key.
LEMMA AcquireKeeps ==
  ASSUME IInv, NEW w \in Workers, AcquireLock(w) PROVE RowsInv' /\ RunsInv'
<1> USE DEF docVars, brokerVars, workerVars, clientVars
<1>0. TypeOK /\ RowsInv /\ RunsInv
  BY DEF IInv, RowsInv, RunsInv
<1>1. DocOf(w) \in Documents /\ pc[w] = "acquire" /\ lock[DocOf(w)] = Free
  BY <1>0, MessageType DEF AcquireLock
<1>2. KeyIffLocked'
  BY <1>0, <1>1 DEF AcquireLock, TypeOK, RunsInv, KeyIffLocked, Goto, DocOf, TaskOf, LockedPc
<1>3. CommitIsSafe'
  BY <1>0, StatusesStay, CommitsStaySafe DEF AcquireLock, RunsInv, Goto, TypeOK
<1> QED
  BY <1>0, <1>2, <1>3, RowsUnchanged DEF AcquireLock, RunsInv

\* Steps of a worker inside the locked block, and out of it.
LEMMA LockedStepKeeps ==
  ASSUME IInv, NEW w \in Workers,
         \/ StartRejected(w) \/ StartDone(w) \/ StartCancelled(w) \/ Start(w) \/ StartFails(w)
         \/ Load(w) \/ LoadRejected(w) \/ RunFails(w) \/ Build(w) \/ Commit(w)
         \/ BuildCancelled(w) \/ BuildFails(w, "retryable") \/ BuildFails(w, "fatal")
         \/ Finish(w) \/ Release(w)
  PROVE  RowsInv' /\ RunsInv'
<1> USE DEF docVars, brokerVars, workerVars, clientVars, LockedPc, RaisedPc, WorkerPc
<1>0. TypeOK /\ RowsInv /\ RunsInv
  BY DEF IInv, RowsInv, RunsInv
<1>1. pc[w] \in LockedPc /\ pc[w] # "idle" /\ TaskOf(w) \in Tasks /\ DocOf(w) \in Documents
  BY <1>0, MessageType DEF StartRejected, StartDone, StartCancelled, Start, StartFails, Load,
     LoadRejected, RunFails, Build, Commit, BuildCancelled, BuildFails, Finish, Release
<1>2. CASE StartRejected(w) \/ StartFails(w) \/ LoadRejected(w) \/ RunFails(w)
           \/ BuildCancelled(w) \/ Release(w)
  <2>1. PICK to \in WorkerPc \ LockedPc : Goto(w, to)
    BY <1>2 DEF StartRejected, StartFails, LoadRejected, RunFails, BuildCancelled, Release
  <2>2. ReleaseLock(w) /\ UNCHANGED <<docVars, status, message>>
    BY <1>2 DEF StartRejected, StartFails, LoadRejected, RunFails, BuildCancelled, Release
  <2> QED
    BY <1>0, <1>1, <2>1, <2>2, RowsUnchanged, StatusesStay, LeaveKeepsRuns
<1>3. CASE StartDone(w)
  BY <1>0, <1>3, RowsUnchanged, StatusesStay, MoveKeepsRuns DEF StartDone
<1>4. CASE StartCancelled(w)
  <2>1. RowsInv'
    BY <1>0, <1>1, <1>4 DEF StartCancelled, SetStatus, FailDocumentOf, TypeOK, RowsInv,
       OneActiveTask, SuccessMeansIndexed, TasksHaveDocuments, MissingIsEmpty, Active,
       ActiveStatuses, Present
  <2>2. DocumentsStay
    BY <1>0, <1>1, <1>4, FailureStays, StatusesStay DEF StartCancelled
  <2> QED
    BY <1>0, <1>1, <1>4, <2>1, <2>2, MoveKeepsRuns DEF StartCancelled
<1>5. CASE Start(w)
  BY <1>0, <1>1, <1>5, Activation, StatusesStay, MoveKeepsRuns
     DEF Start, ActiveStatuses, RowsInv, TasksHaveDocuments, DocOf
<1>6. CASE Load(w)
  <2>1. RowsInv'
    BY <1>0, <1>1, <1>6 DEF Load, TypeOK, RowsInv, OneActiveTask, SuccessMeansIndexed,
       TasksHaveDocuments, MissingIsEmpty, Active, Present
  <2>2. DocumentsStay
    BY <1>0, <1>1, <1>6 DEF Load, DocumentsStay, Present, TypeOK
  <2> QED
    BY <1>0, <1>1, <1>6, <2>1, <2>2, MoveKeepsRuns DEF Load
<1>7. CASE Build(w)
  <2>1. KeyIffLocked'
    BY <1>0, <1>7 DEF Build, TypeOK, RunsInv, KeyIffLocked, Goto, DocOf, TaskOf
  <2>2. CommitIsSafe'
    BY <1>0, <1>7 DEF Build, TypeOK, RunsInv, CommitIsSafe, Goto, DocOf, TaskOf, Present
  <2> QED
    BY <1>0, <1>7, <2>1, <2>2, RowsUnchanged DEF Build, RunsInv
<1>8. CASE Commit(w)
  <2>1. Present(DocOf(w)) /\ TaskOf(w) # NoIndex
    BY <1>0, <1>1, <1>8 DEF Commit, RunsInv, CommitIsSafe
  <2>2. RowsInv'
    BY <1>0, <1>1, <1>8, <2>1 DEF Commit, TypeOK, RowsInv, OneActiveTask, SuccessMeansIndexed,
       TasksHaveDocuments, MissingIsEmpty, Active, Present
  <2>3. KeyIffLocked'
    BY <1>0, <1>8 DEF Commit, TypeOK, RunsInv, KeyIffLocked, Goto, DocOf, TaskOf
  <2>4. ASSUME NEW v \in Workers, v # w, pc[v] \in LockedPc PROVE DocOf(v) # DocOf(w)
    BY <1>0, <1>1, <2>4 DEF RunsInv, KeyIffLocked
  <2>5. CommitIsSafe'
    BY <1>0, <1>1, <1>8, <2>1, <2>4 DEF Commit, TypeOK, RunsInv, CommitIsSafe, Goto, DocOf,
       TaskOf, Present
  <2> QED
    BY <2>2, <2>3, <2>5 DEF RunsInv
<1>9. ASSUME NEW kind \in {"retryable", "fatal"}, BuildFails(w, kind)
      PROVE  RowsInv' /\ RunsInv'
  <2>1. RowsInv'
    BY <1>0, <1>1, <1>9 DEF BuildFails, TypeOK, RowsInv, OneActiveTask, SuccessMeansIndexed,
       TasksHaveDocuments, MissingIsEmpty, Active, Present
  <2>2. DocumentsStay
    BY <1>0, <1>1, <1>9 DEF BuildFails, DocumentsStay, Present, TypeOK
  <2> QED
    BY <1>0, <1>1, <1>9, <2>1, <2>2, LeaveKeepsRuns DEF BuildFails
<1>10. CASE Finish(w)
  BY <1>0, <1>1, <1>10, Deactivation, StatusesStay, MoveKeepsRuns
     DEF Finish, TaskStatus, ActiveStatuses
<1> QED
  BY <1>2, <1>3, <1>4, <1>5, <1>6, <1>7, <1>8, <1>9, <1>10

\* Deleting waits for an open replacing transaction of the document.
LEMMA DeleteKeeps ==
  ASSUME IInv, NEW d \in Documents, DeleteDocument(d) PROVE RowsInv' /\ RunsInv'
<1> USE DEF docVars, brokerVars, workerVars, clientVars
<1>0. TypeOK /\ RowsInv /\ RunsInv
  BY DEF IInv, RowsInv, RunsInv
<1>1. RowsInv'
  BY <1>0 DEF DeleteDocument, TypeOK, RowsInv, OneActiveTask, SuccessMeansIndexed,
     TasksHaveDocuments, MissingIsEmpty, Active, ActiveStatuses, Present
<1>2. \A w \in Workers : pc[w] = "commit" => DocOf(w) # d
  BY DEF DeleteDocument, RowFree, DocOf, TaskOf
<1>3. CommitIsSafe'
  BY <1>0, <1>2 DEF DeleteDocument, TypeOK, RunsInv, CommitIsSafe, DocOf, TaskOf, Present
<1>4. KeyIffLocked'
  BY <1>0 DEF DeleteDocument, RunsInv, KeyIffLocked, DocOf, TaskOf
<1> QED
  BY <1>1, <1>3, <1>4 DEF RunsInv

LEMMA ReconcileKeeps ==
  ASSUME IInv, NEW t \in Tasks, Reconcile(t) PROVE RowsInv' /\ RunsInv'
<1> USE DEF docVars, brokerVars, workerVars, clientVars
<1>0. TypeOK /\ RowsInv /\ RunsInv
  BY DEF IInv, RowsInv, RunsInv
<1>1. Present(DocumentOf[t])
  BY <1>0 DEF Reconcile, Stale, Active, ActiveStatuses, RowsInv, TasksHaveDocuments
<1>2. RowsInv'
  BY <1>0, <1>1 DEF Reconcile, TypeOK, RowsInv, OneActiveTask, SuccessMeansIndexed,
     TasksHaveDocuments, MissingIsEmpty, Active, ActiveStatuses, Present
<1>3. DocumentsStay
  BY <1>0, <1>1 DEF Reconcile, DocumentsStay, Present, TypeOK
<1> QED
  BY <1>0, <1>2, <1>3, WorkersUnchanged DEF Reconcile

\* Messages, deaths and expiry: nothing happens to the rows.
LEMMA DeliveryKeeps ==
  ASSUME IInv, NEW w \in Workers,
         (\E m \in queue : Fetch(w, m)) \/ Ack(w) \/ WorkerLost(w) \/ HardTimeLimit(w)
  PROVE  RowsInv' /\ RunsInv'
<1> USE DEF docVars, brokerVars, workerVars, clientVars
<1>0. TypeOK /\ RowsInv /\ RunsInv
  BY DEF IInv, RowsInv, RunsInv
<1>1. RowsInv' /\ DocumentsStay
  BY <1>0, RowsUnchanged, StatusesStay DEF Fetch, Ack, WorkerLost, HardTimeLimit
<1>2. ASSUME NEW m \in queue, Fetch(w, m) PROVE RunsInv'
  <2>1. KeyIffLocked'
    BY <1>0, <1>2, MessageType
       DEF Fetch, TypeOK, RunsInv, KeyIffLocked, Goto, DocOf, TaskOf, LockedPc
  <2>2. CommitIsSafe'
    BY <1>0, <1>1, <1>2, CommitsStaySafe DEF Fetch, RunsInv, TypeOK, Goto
  <2> QED
    BY <2>1, <2>2 DEF RunsInv
<1>3. CASE Ack(w)
  BY <1>0, <1>1, <1>3, IdleKeepsRuns DEF Ack, LockedPc
<1>4. CASE WorkerLost(w) \/ HardTimeLimit(w)
  BY <1>0, <1>1, <1>4, IdleKeepsRuns DEF WorkerLost, HardTimeLimit
<1> QED
  BY <1>1, <1>2, <1>3, <1>4

\* Only the key of a dead holder expires: DocumentTaskLock_proofs.
LEMMA ExpiryKeeps ==
  ASSUME IInv, NEW d \in Documents, LockExpires(d) PROVE RowsInv' /\ RunsInv'
<1> USE DEF docVars, brokerVars, workerVars, clientVars
<1>0. TypeOK /\ RowsInv /\ RunsInv
  BY DEF IInv, RowsInv, RunsInv
<1>1. KeyIffLocked'
  BY <1>0 DEF LockExpires, TypeOK, RunsInv, KeyIffLocked, DocOf, TaskOf
<1>2. CommitIsSafe'
  BY <1>0, StatusesStay, CommitsStaySafe DEF LockExpires, RunsInv
<1> QED
  BY <1>0, <1>1, <1>2, RowsUnchanged DEF LockExpires, RunsInv

LEMMA StepKeepsIInv == IInv /\ [Next]_vars => IInv'
<1> SUFFICES ASSUME IInv, [Next]_vars PROVE IInv'
  OBVIOUS
<1>1. TypeOK'
  BY TypeStep DEF IInv
<1> SUFFICES RowsInv' /\ RunsInv'
  BY <1>1 DEF IInv, RowsInv, RunsInv
<1>2. ASSUME NEW w \in Workers, Work(w) PROVE RowsInv' /\ RunsInv'
  BY <1>2, OutsideStepKeeps, AcquireKeeps, LockedStepKeeps, DeliveryKeeps DEF Work
<1>3. CASE UNCHANGED vars
  <2>1. UNCHANGED <<docStatus, index, status, pc, message, lock>>
    BY <1>3 DEF vars, docVars, workerVars
  <2>2. TypeOK /\ RowsInv /\ RunsInv
    BY DEF IInv, RowsInv, RunsInv
  <2> QED
    BY <2>1, <2>2, RowsUnchanged, StatusesStay, WorkersUnchanged
<1>4. CASE Next
  <2>1. CASE \E c \in Clients : ClientStep(c)
    BY <2>1, ClientStepKeeps
  <2>2. CASE \E d \in Documents : DeleteDocument(d) \/ LockExpires(d)
    BY <2>2, DeleteKeeps, ExpiryKeeps
  <2>3. CASE \E w \in Workers : (\E m \in queue : Fetch(w, m)) \/ WorkerLost(w) \/ HardTimeLimit(w)
    BY <2>3, DeliveryKeeps
  <2>4. CASE \E t \in Tasks : Reconcile(t)
    BY <2>4, ReconcileKeeps
  <2> QED
    BY <1>2, <1>4, <2>1, <2>2, <2>3, <2>4 DEF Next
<1> QED
  BY <1>3, <1>4

-----------------------------------------------------------------------------
(* Theorems.                                                               *)

\* IInv holds in every reachable state, for all documents, tasks, workers,
\* requests and bounds.
THEOREM PipelineInvariant == Spec => []IInv
  BY InitEstablishes, StepKeepsIInv, PTL DEF Spec

\* Every variable stays in its type.
THEOREM TypeCorrect == Spec => []TypeOK
<1>1. IInv => TypeOK
  BY DEF IInv
<1> QED
  BY <1>1, PipelineInvariant, PTL

\* At most one task of a document is active.
THEOREM AtMostOneActiveTask == Spec => []OneActiveTask
<1>1. IInv => OneActiveTask
  BY DEF IInv
<1> QED
  BY <1>1, PipelineInvariant, PTL

\* Two runs never work on one document at once: both would hold its key.
THEOREM RunsExclude == Spec => []SingleBuilder
<1>1. IInv => SingleBuilder
  BY DEF IInv, KeyIffLocked, SingleBuilder
<1> QED
  BY <1>1, PipelineInvariant, PTL

\* A document that retrieval reads has chunks.
THEOREM SearchableIsIndexed == Spec => []SuccessMeansIndexed
<1>1. IInv => SuccessMeansIndexed
  BY DEF IInv
<1> QED
  BY <1>1, PipelineInvariant, PTL

\* A deleted document keeps no chunks and no tasks, whoever still works on it.
THEOREM DeletionIsFinal == Spec => []DeletedStaysDeleted
<1>1. IInv => DeletedStaysDeleted
  BY DEF IInv, MissingIsEmpty, TasksHaveDocuments, Present, DeletedStaysDeleted
<1> QED
  BY <1>1, PipelineInvariant, PTL

\* Chunks are taken away by the deletion of their document only.
THEOREM IndexIsKept == Spec => IndexNeverLost
<1>1. IInv /\ [Next]_vars =>
        [\A d \in Documents :
           index[d] # NoIndex => index'[d] # NoIndex \/ docStatus'[d] = "DELETED"]_vars
  <2> SUFFICES ASSUME IInv, [Next]_vars, NEW d \in Documents, index[d] # NoIndex
               PROVE  index'[d] # NoIndex \/ docStatus'[d] = "DELETED"
    OBVIOUS
  <2> USE DEF docVars, vars
  <2>1. ASSUME NEW w \in Workers, Commit(w) PROVE index'[d] # NoIndex
    <3>1. TaskOf(w) \in Tasks
      BY <2>1, MessageType DEF Commit, IInv
    <3> QED
      BY <2>1, <3>1 DEF Commit, IInv, TypeOK
  <2>2. ASSUME NEW e \in Documents, DeleteDocument(e)
        PROVE  index'[d] # NoIndex \/ docStatus'[d] = "DELETED"
    BY <2>2 DEF DeleteDocument, IInv, TypeOK
  <2>3. CASE UNCHANGED index
    BY <2>3
  <2> QED
    BY <2>1, <2>2, <2>3
       DEF Next, ClientStep, Work, Upload, Reprocess, ReprocessExisting, RetryRead, CancelRead,
           RetryCreates, RetryReset, CancelNow, CancelRequest, FailDocument, Revoke, Publish,
           Record, DispatchFails, RequestAborts, CheckDone, CheckCancelled, MarkCancelled,
           WorkerFailsDocument, CheckRuns, AcquireLock, LockRefused, StartRejected, StartDone,
           StartCancelled, Start, StartFails, Load, LoadRejected, RunFails, Build,
           BuildCancelled, BuildFails, Finish, Release, Cancelled, RetryTask, RetryRejected,
           FailTask, Ack, Fetch, WorkerLost, HardTimeLimit, LockExpires, Reconcile
<1> QED
  BY <1>1, PipelineInvariant, PTL DEF Spec, IndexNeverLost

\* Only Finish makes a task SUCCESS, and the key still protects the chunks its
\* run has committed.
THEOREM SuccessIsHonest == Spec => SuccessReportsOwnIndex
<1>1. IInv /\ [Next]_vars =>
        [\A t \in Tasks :
           status[t] # "SUCCESS" /\ status'[t] = "SUCCESS" => index[DocumentOf[t]] = t]_vars
  <2> SUFFICES ASSUME IInv, [Next]_vars, NEW t \in Tasks,
                      status[t] # "SUCCESS", status'[t] = "SUCCESS"
               PROVE  index[DocumentOf[t]] = t
    OBVIOUS
  <2> USE DEF docVars, vars
  <2>1. ASSUME NEW w \in Workers, Finish(w) PROVE index[DocumentOf[t]] = t
    <3>1. message[w] \in Message /\ TaskOf(w) \in Tasks
      BY <2>1, MessageType DEF Finish, IInv
    <3>2. t = TaskOf(w) /\ status[t] # "ABSENT"
      BY <2>1, <3>1 DEF Finish, SetStatus, IInv, TypeOK
    <3>3. index[DocOf(w)] = TaskOf(w) \/ docStatus[DocOf(w)] = "DELETED"
      BY <2>1 DEF Finish, IInv, CommitIsSafe
    <3>4. docStatus[DocumentOf[t]] # "DELETED"
      BY <3>2 DEF IInv, TasksHaveDocuments, Present
    <3> QED
      BY <3>2, <3>3, <3>4 DEF DocOf
  <2>2. ASSUME NEW u \in Tasks, NEW s \in TaskStatus \ {"SUCCESS"},
               status' = [status EXCEPT ![u] = s] \/ SetStatus(u, s)
        PROVE  FALSE
    BY <2>2 DEF SetStatus, IInv, TypeOK
  <2>3. {"PENDING", "PROCESSING", "RETRYING", "CANCEL_REQUESTED", "CANCELLED", "FAILURE",
         "ENQUEUE_FAILED"} \subseteq TaskStatus \ {"SUCCESS"}
    BY DEF TaskStatus, ActiveStatuses
  <2>4. ASSUME UNCHANGED status PROVE FALSE
    BY <2>4
  <2>5. ASSUME NEW c \in Clients, ClientStep(c) PROVE FALSE
    <3>1. cpc[c] # "idle" => ctask[c] \in Tasks
      BY DEF IInv, TypeOK
    <3> QED
      BY <2>2, <2>3, <2>4, <2>5, <3>1
         DEF ClientStep, Upload, Reprocess, CreateTask, ReprocessExisting, RetryRead, CancelRead,
             RetryCreates, RetryReset, CancelNow, CancelRequest, FailDocument, Revoke, Publish,
             Record, DispatchFails, RequestAborts
  <2>6. ASSUME NEW w \in Workers, Work(w), ~Finish(w) PROVE FALSE
    <3>1. pc[w] # "idle" => TaskOf(w) \in Tasks
      BY MessageType DEF IInv
    <3>2. \A kind \in {"retryable", "fatal"} : BuildFails(w, kind) => UNCHANGED status
      BY DEF BuildFails
    <3>3. \A p \in BOOLEAN : RetryTask(w, p) => pc[w] # "idle" /\ SetStatus(TaskOf(w), "RETRYING")
      BY DEF RetryTask, MayRetry
    <3> QED
      BY <2>2, <2>3, <2>4, <2>6, <3>1, <3>2, <3>3
         DEF Work, CheckDone, CheckCancelled, MarkCancelled, WorkerFailsDocument, CheckRuns,
             AcquireLock, LockRefused, StartRejected, StartDone, StartCancelled, Start,
             StartFails, Load, LoadRejected, RunFails, Build, Commit, BuildCancelled, Release,
             Cancelled, RetryRejected, FailTask, RaisedPc, Ack
  <2>7. ASSUME NEW u \in Tasks, Reconcile(u) PROVE FALSE
    <3>1. PICK s \in {"CANCELLED", "FAILURE"} : status' = [status EXCEPT ![u] = s]
      BY <2>7 DEF Reconcile, IInv, TypeOK
    <3> QED
      BY <2>2, <2>3, <3>1
  <2>8. ASSUME NEW d \in Documents, DeleteDocument(d) PROVE FALSE
    BY <2>8 DEF DeleteDocument, IInv, TypeOK
  <2> QED
    BY <2>1, <2>4, <2>5, <2>6, <2>7, <2>8 DEF Next, Fetch, WorkerLost, HardTimeLimit, LockExpires
<1> QED
  BY <1>1, PipelineInvariant, PTL DEF Spec, SuccessReportsOwnIndex

-----------------------------------------------------------------------------
(* DocumentPipeline implements DocumentIndex: its steps are steps of the   *)
(* contract, or do not show there.                                         *)
Exists == [d \in Documents |-> Existence(d)]
Readable == [d \in Documents |-> docStatus[d] = "SUCCESS"]
Builders == [d \in Documents |-> Builder(d)]
Outcomes == [t \in Tasks |-> Outcome(t)]

ContractStep == Contract!Next \/ UNCHANGED <<Exists, index, Readable, Builders, Outcomes>>

\* Who may replace a document's chunks is told by its key alone.
LEMMA KeysUnchanged ==
  ASSUME IInv, UNCHANGED lock,
         \A v \in Workers : pc[v] \in LockedPc => message'[v] = message[v]
  PROVE  UNCHANGED Builders
<1>1. ASSUME NEW d \in Documents, lock[d] \in Workers PROVE message'[lock[d]] = message[lock[d]]
  BY <1>1 DEF IInv, KeyIffLocked
<1> QED
  BY <1>1 DEF Builders, Builder, TaskOf

LEMMA RowsHidden ==
  ASSUME UNCHANGED <<docStatus, index, status>> PROVE UNCHANGED <<Exists, index, Readable, Outcomes>>
  BY DEF Exists, Readable, Outcomes, Existence, Outcome, Active, Present

\* An update of a task that makes it active is an Open.
LEMMA ActivationOpens ==
  ASSUME IInv, NEW t \in Tasks, NEW s \in ActiveStatuses, ~ActiveElsewhere(t),
         Present(DocumentOf[t]), status' = [status EXCEPT ![t] = s],
         UNCHANGED <<docStatus, index, Builders>>
  PROVE  ContractStep
<1>1. Exists[DocumentOf[t]] = "now"
  BY DEF Exists, Existence
<1>2. \A u \in Tasks \ {t} : DocumentOf[u] = DocumentOf[t] => Outcomes[u] # "open"
  BY DEF Outcomes, Outcome, ActiveElsewhere, Siblings
<1>3. Outcomes' = [Outcomes EXCEPT ![t] = "open"]
  BY DEF IInv, TypeOK, Outcomes, Outcome, Active, ActiveStatuses
<1>4. UNCHANGED <<Exists, index, Readable, Builders>>
  BY DEF Exists, Existence, Readable, Present
<1>5. Contract!Open(t)
  BY <1>1, <1>2, <1>3, <1>4 DEF Contract!Open, Exists, Readable, Builders, Outcomes
<1> QED
  BY <1>5 DEF Contract!Next, ContractStep

\* An update to a status that is neither active nor SUCCESS is a Stop.  The
\* document may get another status with it.
LEMMA UpdateStops ==
  ASSUME IInv, NEW t \in Tasks, NEW s \in TaskStatus \ (ActiveStatuses \cup {"ABSENT", "SUCCESS"}),
         status[t] # "ABSENT", status' = [status EXCEPT ![t] = s],
         NEW x \in {"SUCCESS", "FAILURE", docStatus[DocumentOf[t]]},
         docStatus' = [docStatus EXCEPT ![DocumentOf[t]] = x],
         x = "SUCCESS" => index[DocumentOf[t]] # NoIndex,
         UNCHANGED <<index, Builders>>
  PROVE  ContractStep
<1> DEFINE d == DocumentOf[t]
<1>1. Outcomes[t] # "none" /\ Outcomes' = [Outcomes EXCEPT ![t] = "stopped"]
  BY DEF IInv, TypeOK, Outcomes, Outcome, Active, ActiveStatuses
<1>2. Present(d)
  BY DEF IInv, TasksHaveDocuments
<1>3. UNCHANGED Exists
  BY <1>2 DEF IInv, TypeOK, Exists, Existence, Present
<1>4. Readable' = [Readable EXCEPT ![d] = (x = "SUCCESS") /\ index[d] # NoIndex]
  BY <1>2 DEF IInv, TypeOK, Readable
<1>5. Contract!Stop(t)
  BY <1>1, <1>3, <1>4 DEF Contract!Stop, Exists, Readable, Builders, Outcomes
<1> QED
  BY <1>5 DEF Contract!Next, ContractStep

LEMMA SetStatusStops ==
  ASSUME IInv, NEW t \in Tasks, NEW s \in TaskStatus \ (ActiveStatuses \cup {"ABSENT", "SUCCESS"}),
         SetStatus(t, s), UNCHANGED <<docStatus, index, Builders>>
  PROVE  ContractStep
<1>1. CASE status[t] = "ABSENT"
  BY <1>1, RowsHidden DEF SetStatus, ContractStep
<1>2. CASE status[t] # "ABSENT"
  <2>1. docStatus' = [docStatus EXCEPT ![DocumentOf[t]] = docStatus[DocumentOf[t]]]
    BY DEF IInv, TypeOK
  <2> QED
    BY <1>2, <2>1, UpdateStops DEF SetStatus, IInv, SuccessMeansIndexed
<1> QED
  BY <1>1, <1>2

\* A document that is marked as failed is hidden.
LEMMA FailureHides ==
  ASSUME IInv, NEW t \in Tasks, FailDocumentOf(t), UNCHANGED <<index, status, Builders>>
  PROVE  ContractStep
<1> DEFINE d == DocumentOf[t]
<1>1. CASE ~Present(d)
  BY <1>1, RowsHidden DEF FailDocumentOf, ContractStep
<1>2. CASE Present(d)
  <2>1. docStatus' = [docStatus EXCEPT ![d] = "FAILURE"]
    BY <1>2 DEF FailDocumentOf
  <2>2. Exists[d] = "now" /\ UNCHANGED <<Exists, Outcomes>>
    BY <1>2, <2>1 DEF IInv, TypeOK, Exists, Existence, Present, Outcomes, Outcome, Active
  <2>3. Readable' = [Readable EXCEPT ![d] = FALSE]
    BY <2>1 DEF IInv, TypeOK, Readable
  <2>4. Contract!Hide(d)
    BY <2>2, <2>3 DEF Contract!Hide, Exists, Readable, Builders, Outcomes
  <2> QED
    BY <2>4 DEF Contract!Next, ContractStep
<1> QED
  BY <1>1, <1>2

\* Giving up the key is an Unclaim, with the document's status if the code
\* writes it in the same step.
LEMMA ReleaseUnclaims ==
  ASSUME IInv, NEW w \in Workers, pc[w] \in LockedPc,
         ReleaseLock(w) \/ AbandonLock(w),
         \A v \in Workers \ {w} : message'[v] = message[v],
         NEW x \in {"SUCCESS", "FAILURE", docStatus[DocOf(w)]},
         docStatus' = [docStatus EXCEPT ![DocOf(w)] = x],
         x # docStatus[DocOf(w)] => Present(DocOf(w)),
         x = "SUCCESS" => index[DocOf(w)] # NoIndex,
         UNCHANGED <<index, status>>
  PROVE  ContractStep
<1>0. PICK d \in Documents : d = DocOf(w)
  BY MessageType DEF IInv, LockedPc
<1>1. d = DocOf(w) /\ TaskOf(w) \in Tasks /\ lock[d] = w
  BY <1>0, MessageType DEF IInv, KeyIffLocked, LockedPc
<1>2. \A e \in Documents \ {d} : lock[e] # w /\ lock'[e] = lock[e]
  BY <1>1 DEF IInv, TypeOK, KeyIffLocked, ReleaseLock, AbandonLock
<1>3. lock'[d] \notin Workers
  BY <1>1 DEF IInv, TypeOK, ReleaseLock, AbandonLock
<1>4. Builders[d] # NoTask
  BY <1>1 DEF Builders, Builder
<1>5. Builders' = [Builders EXCEPT ![d] = NoTask]
  <2>1. ASSUME NEW e \in Documents, e # d PROVE Builder(e)' = Builder(e)
    BY <1>2, <2>1 DEF Builder, TaskOf
  <2>2. Builder(d)' = NoTask
    BY <1>3 DEF Builder
  <2> QED
    BY <2>1, <2>2 DEF Builders
<1>6. UNCHANGED <<Exists, Outcomes>>
  BY <1>1 DEF IInv, TypeOK, Exists, Existence, Present, Outcomes, Outcome, Active
<1>7. Readable' = [Readable EXCEPT ![d] = (x = "SUCCESS") /\ index[d] # NoIndex]
  BY <1>1 DEF IInv, TypeOK, Readable
<1>8. Contract!Unclaim(d)
  BY <1>4, <1>5, <1>6, <1>7 DEF Contract!Unclaim, Exists, Readable, Builders, Outcomes
<1> QED
  BY <1>1, <1>8 DEF Contract!Next, ContractStep

-----------------------------------------------------------------------------

LEMMA ClientStepRefines ==
  ASSUME IInv, NEW c \in Clients, ClientStep(c) PROVE ContractStep
<1> USE DEF docVars, brokerVars, workerVars
<1>1. UNCHANGED Builders
  <2>1. UNCHANGED <<lock, message>>
    BY DEF ClientStep, Upload, Reprocess, ReprocessExisting, RetryRead, CancelRead,
       RetryCreates, RetryReset, CancelNow, CancelRequest, FailDocument, Revoke, Publish,
       Record, DispatchFails, RequestAborts
  <2> QED
    BY <2>1, KeysUnchanged
<1>2. ASSUME NEW t \in Tasks, Upload(c, t) PROVE ContractStep
  <2> DEFINE d == DocumentOf[t]
  <2>1. docStatus[d] = "ABSENT" /\ docStatus' = [docStatus EXCEPT ![d] = "PROCESSING"]
    BY <1>2 DEF Upload
  <2>2. Exists[d] = "never" /\ Exists' = [Exists EXCEPT ![d] = "now"]
    BY <2>1 DEF IInv, TypeOK, Exists, Existence, Present
  <2>3. UNCHANGED Readable
    BY <2>1 DEF IInv, TypeOK, Readable
  <2>4. Outcomes' = [Outcomes EXCEPT ![t] = "open"]
    BY <1>2 DEF Upload, IInv, TypeOK, Outcomes, Outcome, Active, ActiveStatuses
  <2>5. Contract!Add(t)
    BY <1>1, <1>2, <2>2, <2>3, <2>4
       DEF Upload, Contract!Add, Exists, Readable, Builders, Outcomes
  <2> QED
    BY <2>5 DEF Contract!Next, ContractStep
<1>3. ASSUME NEW t \in Tasks, CreateTask(t), UNCHANGED docVars PROVE ContractStep
  BY <1>1, <1>3, ActivationOpens DEF CreateTask, ActiveStatuses
<1>4. CASE RetryReset(c) \/ CancelRequest(c)
  <2>1. PICK t \in Tasks, s \in ActiveStatuses :
          /\ status[t] # "ABSENT" /\ ~ActiveElsewhere(t)
          /\ status' = [status EXCEPT ![t] = s]
          /\ UNCHANGED docVars
    BY <1>4 DEF RetryReset, CancelRequest, IInv, TypeOK, ActiveStatuses
  <2> QED
    BY <1>1, <2>1, ActivationOpens DEF IInv, TasksHaveDocuments
<1>5. CASE CancelNow(c) \/ DispatchFails(c)
  <2>1. PICK t \in Tasks, s \in {"CANCELLED", "ENQUEUE_FAILED"} :
          SetStatus(t, s) /\ UNCHANGED docVars
    BY <1>5 DEF CancelNow, DispatchFails, IInv, TypeOK
  <2> QED
    BY <1>1, <2>1, SetStatusStops DEF TaskStatus, ActiveStatuses
<1>6. CASE FailDocument(c)
  <2>1. ctask[c] \in Tasks
    BY <1>6 DEF FailDocument, IInv, TypeOK
  <2> QED
    BY <1>1, <1>6, <2>1, FailureHides DEF FailDocument
<1>7. ASSUME UNCHANGED <<docStatus, index, status>> PROVE ContractStep
  BY <1>1, <1>7, RowsHidden DEF ContractStep
<1> QED
  BY <1>2, <1>3, <1>4, <1>5, <1>6, <1>7
     DEF ClientStep, Reprocess, ReprocessExisting, RetryRead, CancelRead, RetryCreates,
         Revoke, Publish, Record, RequestAborts

LEMMA WorkRefines ==
  ASSUME IInv, NEW w \in Workers, Work(w) PROVE ContractStep
<1> USE DEF docVars, brokerVars, workerVars, clientVars, LockedPc, RaisedPc
<1>1. PICK t \in Tasks, d \in Documents : t = TaskOf(w) /\ d = DocOf(w) /\ d = DocumentOf[t]
  <2>1. pc[w] # "idle"
    BY DEF Work, CheckDone, CheckCancelled, WorkerFailsDocument, CheckRuns, AcquireLock,
       LockRefused, StartRejected, StartDone, StartCancelled, Start, StartFails, Load,
       LoadRejected, RunFails, Build, Commit, BuildCancelled, BuildFails, Finish, Release,
       Cancelled, RetryTask, RetryRejected, FailTask, MayRetry, Ack
  <2> QED
    BY <2>1, MessageType DEF IInv, DocOf
<1>2. ASSUME UNCHANGED <<docStatus, index, status, lock>>,
             UNCHANGED message \/ (pc[w] = "ack" /\ Idle(w))
      PROVE  ContractStep
  <2>1. \A v \in Workers : pc[v] \in LockedPc => message'[v] = message[v]
    BY <1>2 DEF Idle, IInv, TypeOK
  <2> QED
    BY <1>2, <2>1, KeysUnchanged, RowsHidden DEF ContractStep
<1>3. ASSUME NEW s \in TaskStatus \ (ActiveStatuses \cup {"ABSENT", "SUCCESS"}), SetStatus(t, s),
             UNCHANGED <<docStatus, index, lock, message>>
      PROVE  ContractStep
  BY <1>3, SetStatusStops, KeysUnchanged
<1>4. CASE WorkerFailsDocument(w)
  BY <1>1, <1>4, FailureHides, KeysUnchanged DEF WorkerFailsDocument
<1>5. CASE AcquireLock(w)
  <2>1. lock[d] = Free /\ lock' = [lock EXCEPT ![d] = w] /\ UNCHANGED message
    BY <1>1, <1>5 DEF AcquireLock
  <2>2. Builders[d] = NoTask /\ Builders' = [Builders EXCEPT ![d] = t]
    BY <1>1, <2>1 DEF IInv, TypeOK, Builders, Builder, TaskOf
  <2>3. UNCHANGED <<Exists, index, Readable, Outcomes>>
    BY <1>5, RowsHidden DEF AcquireLock
  <2>4. Contract!Claim(t)
    BY <1>1, <2>2, <2>3 DEF Contract!Claim, Exists, Readable, Builders, Outcomes
  <2> QED
    BY <2>4 DEF Contract!Next, ContractStep
<1>6. ASSUME pc[w] \in LockedPc, ReleaseLock(w), UNCHANGED <<docStatus, index, status, message>>
      PROVE  ContractStep
  <2>1. docStatus' = [docStatus EXCEPT ![DocOf(w)] = docStatus[DocOf(w)]]
    BY <1>1, <1>6 DEF IInv, TypeOK
  <2> QED
    BY <1>1, <1>6, <2>1, ReleaseUnclaims DEF IInv, SuccessMeansIndexed
<1>7. CASE StartCancelled(w)
  <2>1. UNCHANGED Builders
    BY <1>7, KeysUnchanged DEF StartCancelled
  <2>2. status[t] # "ABSENT" /\ status' = [status EXCEPT ![t] = "CANCELLED"] /\ UNCHANGED index
    BY <1>1, <1>7 DEF StartCancelled, SetStatus, CancelStatuses
  <2>3. Present(d)
    BY <1>1, <2>2 DEF IInv, TasksHaveDocuments
  <2>4. \/ docStatus' = [docStatus EXCEPT ![d] = "FAILURE"]
        \/ docStatus' = [docStatus EXCEPT ![d] = docStatus[d]]
    BY <1>1, <1>7, <2>3 DEF StartCancelled, FailDocumentOf, IInv, TypeOK
  <2> QED
    BY <1>1, <2>1, <2>2, <2>4, UpdateStops
       DEF TaskStatus, ActiveStatuses, IInv, SuccessMeansIndexed
<1>8. CASE Start(w)
  <2>1. status[t] # "ABSENT" /\ ~ActiveElsewhere(t) /\ status' = [status EXCEPT ![t] = "PROCESSING"]
    BY <1>1, <1>8 DEF Start
  <2>2. UNCHANGED <<docStatus, index, Builders>>
    BY <1>8, KeysUnchanged DEF Start
  <2> QED
    BY <2>1, <2>2, ActivationOpens DEF ActiveStatuses, IInv, TasksHaveDocuments
<1>9. CASE Load(w)
  <2>1. UNCHANGED Builders
    BY <1>9, KeysUnchanged DEF Load
  <2>2. Present(d) /\ UNCHANGED <<index, status>>
    BY <1>1, <1>9 DEF Load
  <2>3. \/ UNCHANGED docStatus
        \/ index[d] = NoIndex /\ docStatus' = [docStatus EXCEPT ![d] = "PROCESSING"]
    BY <1>1, <1>9 DEF Load
  <2>4. docStatus[d] = "SUCCESS" => index[d] # NoIndex
    BY DEF IInv, SuccessMeansIndexed
  <2>5. UNCHANGED <<Exists, Readable, Outcomes>>
    BY <2>2, <2>3, <2>4 DEF IInv, TypeOK, Exists, Existence, Present, Readable, Outcomes, Outcome, Active
  <2> QED
    BY <2>1, <2>2, <2>5 DEF ContractStep
<1>10. CASE Commit(w)
  <2>1. UNCHANGED Builders
    BY <1>10, KeysUnchanged DEF Commit
  <2>2. /\ index' = [index EXCEPT ![d] = t]
        /\ docStatus' = [docStatus EXCEPT ![d] = "SUCCESS"]
        /\ UNCHANGED status
    BY <1>1, <1>10 DEF Commit
  <2>3. Present(d) /\ lock[d] = w
    BY <1>1, <1>10 DEF Commit, IInv, CommitIsSafe, KeyIffLocked
  <2>4. Builders[d] = t /\ Exists[d] = "now"
    BY <1>1, <2>3 DEF Builders, Builder, Exists, Existence
  <2>5. Readable' = [Readable EXCEPT ![d] = TRUE] /\ UNCHANGED <<Exists, Outcomes>>
    BY <2>2, <2>3 DEF IInv, TypeOK, Readable, Exists, Existence, Present, Outcomes, Outcome, Active
  <2>6. Contract!Replace(t)
    BY <1>1, <2>1, <2>2, <2>4, <2>5 DEF Contract!Replace, Exists, Readable, Builders, Outcomes
  <2> QED
    BY <2>6 DEF Contract!Next, ContractStep
<1>11. ASSUME NEW kind \in {"retryable", "fatal"}, BuildFails(w, kind) PROVE ContractStep
  <2>1. PICK x \in {"SUCCESS", "FAILURE", docStatus[d]} :
          /\ docStatus' = [docStatus EXCEPT ![d] = x]
          /\ x # docStatus[d] => Present(d)
          /\ x = "SUCCESS" => index[d] # NoIndex
    <3>1. CASE Present(d)
      BY <1>1, <1>11, <3>1 DEF BuildFails
    <3>2. CASE ~Present(d)
      BY <1>1, <1>11, <3>2 DEF BuildFails, IInv, TypeOK, SuccessMeansIndexed
    <3> QED
      BY <3>1, <3>2
  <2>2. pc[w] \in LockedPc /\ ReleaseLock(w) /\ UNCHANGED <<index, status, message>>
    BY <1>11 DEF BuildFails
  <2> QED
    BY <1>1, <2>1, <2>2, ReleaseUnclaims
<1>12. CASE Finish(w)
  <2>1. UNCHANGED Builders
    BY <1>12, KeysUnchanged DEF Finish
  <2>2. CASE status[t] = "ABSENT"
    BY <1>1, <1>12, <2>1, <2>2, RowsHidden DEF Finish, SetStatus, ContractStep
  <2>3. CASE status[t] # "ABSENT"
    <3>1. status' = [status EXCEPT ![t] = "SUCCESS"] /\ UNCHANGED <<docStatus, index>>
      BY <1>1, <1>12, <2>3 DEF Finish, SetStatus
    <3>2. docStatus[d] # "DELETED" /\ lock[d] = w /\ index[d] = t
      <4>1. docStatus[d] # "DELETED"
        BY <1>1, <2>3 DEF IInv, TasksHaveDocuments, Present
      <4>2. lock[d] = w
        BY <1>1, <1>12 DEF Finish, IInv, KeyIffLocked
      <4>3. index[d] = t \/ docStatus[d] = "DELETED"
        BY <1>1, <1>12 DEF Finish, IInv, CommitIsSafe
      <4> QED
        BY <4>1, <4>2, <4>3
    <3>3. Builders[d] = t
      BY <1>1, <3>2 DEF Builders, Builder
    <3>4. Outcomes[t] # "none" /\ Outcomes' = [Outcomes EXCEPT ![t] = "succeeded"]
      BY <2>3, <3>1 DEF IInv, TypeOK, Outcomes, Outcome, Active, ActiveStatuses
    <3>5. UNCHANGED <<Exists, Readable>>
      BY <3>1 DEF Exists, Existence, Present, Readable
    <3>6. Contract!Succeed(t)
      BY <1>1, <2>1, <3>1, <3>2, <3>3, <3>4, <3>5
         DEF Contract!Succeed, Exists, Readable, Builders, Outcomes
    <3> QED
      BY <3>6 DEF Contract!Next, ContractStep
  <2> QED
    BY <2>2, <2>3
<1>13. ASSUME NEW published \in BOOLEAN, RetryTask(w, published) PROVE ContractStep
  <2>1. UNCHANGED <<docStatus, index, Builders>>
    BY <1>13, KeysUnchanged DEF RetryTask
  <2>2. ~ActiveElsewhere(t) /\ SetStatus(t, "RETRYING")
    BY <1>1, <1>13 DEF RetryTask
  <2>3. CASE status[t] = "ABSENT"
    BY <2>1, <2>2, <2>3, RowsHidden DEF SetStatus, ContractStep
  <2>4. CASE status[t] # "ABSENT"
    BY <2>1, <2>2, <2>4, ActivationOpens DEF SetStatus, ActiveStatuses, IInv, TasksHaveDocuments
  <2> QED
    BY <2>3, <2>4
<1>14. CASE CheckCancelled(w) \/ Cancelled(w) \/ FailTask(w)
  <2>1. "CANCELLED" \in TaskStatus \ (ActiveStatuses \cup {"ABSENT", "SUCCESS"})
    BY DEF TaskStatus, ActiveStatuses
  <2>2. "FAILURE" \in TaskStatus \ (ActiveStatuses \cup {"ABSENT", "SUCCESS"})
    BY DEF TaskStatus, ActiveStatuses
  <2> QED
    BY <1>1, <1>3, <1>14, <2>1, <2>2 DEF CheckCancelled, Cancelled, MarkCancelled, FailTask
<1>15. CASE CheckDone(w) \/ CheckRuns(w) \/ LockRefused(w) \/ StartDone(w) \/ Build(w)
            \/ RetryRejected(w) \/ Ack(w)
  <2>1. UNCHANGED <<docStatus, index, status, lock>>
    BY <1>15 DEF CheckDone, CheckRuns, LockRefused, StartDone, Build, RetryRejected, Ack
  <2>2. UNCHANGED message \/ (pc[w] = "ack" /\ Idle(w))
    BY <1>15 DEF CheckDone, CheckRuns, LockRefused, StartDone, Build, RetryRejected, Ack
  <2> QED
    BY <1>2, <2>1, <2>2
<1>16. CASE StartRejected(w) \/ StartFails(w) \/ LoadRejected(w) \/ RunFails(w)
            \/ BuildCancelled(w) \/ Release(w)
  BY <1>6, <1>16 DEF StartRejected, StartFails, LoadRejected, RunFails, BuildCancelled, Release
<1>17. CASE BuildFails(w, "retryable") \/ BuildFails(w, "fatal")
  BY <1>11, <1>17
<1>18. CASE RetryTask(w, TRUE) \/ RetryTask(w, FALSE)
  BY <1>13, <1>18
<1> QED
  BY <1>4, <1>5, <1>7, <1>8, <1>9, <1>10, <1>12, <1>14, <1>15, <1>16, <1>17, <1>18 DEF Work

\* Deleting a document.
LEMMA DeleteRefines ==
  ASSUME IInv, NEW d \in Documents, DeleteDocument(d) PROVE ContractStep
<1> USE DEF workerVars, clientVars
<1>1. UNCHANGED Builders
  BY KeysUnchanged DEF DeleteDocument
<1>2. Exists[d] = "now" /\ Exists' = [Exists EXCEPT ![d] = "deleted"]
  BY DEF DeleteDocument, IInv, TypeOK, Exists, Existence, Present
<1>3. Readable' = [Readable EXCEPT ![d] = FALSE]
  BY DEF DeleteDocument, IInv, TypeOK, Readable
<1>4. Outcomes' = [t \in Tasks |-> IF DocumentOf[t] = d THEN "none" ELSE Outcomes[t]]
  BY DEF DeleteDocument, IInv, TypeOK, Outcomes, Outcome, Active, ActiveStatuses
<1>5. index' = [index EXCEPT ![d] = NoIndex]
  BY DEF DeleteDocument
<1>6. Contract!Delete(d)
  BY <1>1, <1>2, <1>3, <1>4, <1>5 DEF Contract!Delete, Exists, Readable, Builders, Outcomes
<1> QED
  BY <1>6 DEF Contract!Next, ContractStep

LEMMA ReconcileRefines ==
  ASSUME IInv, NEW t \in Tasks, Reconcile(t) PROVE ContractStep
<1> USE DEF docVars, brokerVars, workerVars, clientVars
<1>1. UNCHANGED Builders
  BY KeysUnchanged DEF Reconcile
<1>2. PICK s \in {"CANCELLED", "FAILURE"} : status' = [status EXCEPT ![t] = s]
  BY DEF Reconcile, IInv, TypeOK
<1>3. PICK x \in {"SUCCESS", "FAILURE"} :
        /\ docStatus' = [docStatus EXCEPT ![DocumentOf[t]] = x]
        /\ x = "SUCCESS" => index[DocumentOf[t]] # NoIndex
  BY DEF Reconcile
<1>4. status[t] # "ABSENT" /\ UNCHANGED index
  BY DEF Reconcile, Stale, Active, ActiveStatuses
<1> QED
  BY <1>1, <1>2, <1>3, <1>4, UpdateStops DEF TaskStatus, ActiveStatuses

\* Deliveries do not show; a death is an Unclaim if the dead held a key, and
\* the expiry of its key does not show again.
LEMMA DeliveryRefines ==
  ASSUME IInv, NEW w \in Workers,
         (\E m \in queue : Fetch(w, m)) \/ WorkerLost(w) \/ HardTimeLimit(w)
  PROVE  ContractStep
<1> USE DEF docVars, brokerVars, workerVars, clientVars
<1>0. UNCHANGED <<docStatus, index, status>> /\ \A v \in Workers \ {w} : message'[v] = message[v]
  BY DEF Fetch, WorkerLost, HardTimeLimit, Idle, IInv, TypeOK
<1>1. ASSUME NEW m \in queue, Fetch(w, m) PROVE ContractStep
  <2>1. UNCHANGED Builders
    BY <1>0, <1>1, KeysUnchanged DEF Fetch, LockedPc
  <2> QED
    BY <1>0, <2>1, RowsHidden DEF ContractStep
<1>2. CASE WorkerLost(w) \/ HardTimeLimit(w)
  <2>1. AbandonLock(w) /\ pc[w] # "idle"
    BY <1>2 DEF WorkerLost, HardTimeLimit
  <2>2. CASE pc[w] \in LockedPc
    <3>1. DocOf(w) \in Documents
      BY <2>1, MessageType DEF IInv
    <3>2. docStatus' = [docStatus EXCEPT ![DocOf(w)] = docStatus[DocOf(w)]]
      BY <1>0, <3>1 DEF IInv, TypeOK
    <3> QED
      BY <1>0, <2>1, <2>2, <3>1, <3>2, ReleaseUnclaims DEF IInv, SuccessMeansIndexed
  <2>3. CASE pc[w] \notin LockedPc
    <3>1. \A d \in Documents : lock[d] # w
      BY <2>3 DEF IInv, KeyIffLocked
    <3>2. lock' = lock
      BY <2>1, <3>1 DEF AbandonLock, IInv, TypeOK
    <3>3. UNCHANGED Builders
      BY <1>0, <2>3, <3>2, KeysUnchanged
    <3> QED
      BY <1>0, <3>3, RowsHidden DEF ContractStep
  <2> QED
    BY <2>2, <2>3
<1> QED
  BY <1>1, <1>2

LEMMA ExpiryRefines ==
  ASSUME IInv, NEW d \in Documents, LockExpires(d) PROVE ContractStep
<1> USE DEF docVars, brokerVars, workerVars, clientVars
<1>1. \A e \in Documents : Builder(e)' = Builder(e)
  BY DEF LockExpires, Builder, TaskOf, IInv, TypeOK
<1>2. UNCHANGED Builders
  BY <1>1 DEF Builders
<1> QED
  BY <1>2, RowsHidden DEF LockExpires, ContractStep

\* The pipeline implements DocumentIndex for all constants: through every
\* crash, redelivery, race and expiry, one task at a time replaces a document's
\* chunks, succeeds over its own chunks only, and a deleted document stays empty.
THEOREM PipelineKeepsContract == Spec => KeepsContract
<1>1. Init => Contract!Init
  <2> SUFFICES ASSUME Init PROVE Contract!Init
    OBVIOUS
  <2>1. \A d \in Documents : docStatus[d] = "ABSENT" /\ lock[d] = Free
    BY DEF Init
  <2>2. \A t \in Tasks : status[t] = "ABSENT"
    BY DEF Init
  <2>3. \A d \in Documents : Existence(d) = "never" /\ Builder(d) = NoTask
    BY <2>1, NullAssumption DEF Existence, Present, Builder
  <2>4. \A t \in Tasks : Outcome(t) = "none"
    BY <2>2 DEF Outcome, Active, ActiveStatuses
  <2>5. \A d \in Documents : (docStatus[d] = "SUCCESS") = FALSE
    BY <2>1
  <2> QED
    BY <2>3, <2>4, <2>5, Zenon DEF Init, Contract!Init
<1>2. IInv /\ [Next]_vars => ContractStep
  <2> SUFFICES ASSUME IInv, [Next]_vars PROVE ContractStep
    OBVIOUS
  <2>1. CASE UNCHANGED vars
    <3>1. UNCHANGED <<docStatus, index, status, lock, message>>
      BY <2>1 DEF vars, docVars, workerVars
    <3> QED
      BY <3>1, RowsHidden, KeysUnchanged DEF ContractStep
  <2>2. CASE \E c \in Clients : ClientStep(c)
    BY <2>2, ClientStepRefines
  <2>3. CASE \E d \in Documents : DeleteDocument(d) \/ LockExpires(d)
    BY <2>3, DeleteRefines, ExpiryRefines
  <2>4. CASE \E w \in Workers : (\E m \in queue : Fetch(w, m)) \/ WorkerLost(w) \/ HardTimeLimit(w)
    BY <2>4, DeliveryRefines
  <2>5. CASE \E w \in Workers : Work(w)
    BY <2>5, WorkRefines
  <2>6. CASE \E t \in Tasks : Reconcile(t)
    BY <2>6, ReconcileRefines
  <2> QED
    BY <2>1, <2>2, <2>3, <2>4, <2>5, <2>6 DEF Next
<1>3. ContractStep => [Contract!Next]_(Contract!vars)
  BY DEF ContractStep, Contract!vars, Exists, Readable, Builders, Outcomes
<1> QED
  BY <1>1, <1>2, <1>3, PipelineInvariant, PTL DEF Spec, KeepsContract, Contract!Spec

=============================================================================
