-------------------------- MODULE DocumentPipeline --------------------------
(***************************************************************************)
(* The asynchronous document-processing pipeline: the web requests that    *)
(* create, retry, cancel and delete (views.py, document_tasks.py), the     *)
(* Celery worker that executes a task (tasks.py, document_tasks.py,        *)
(* document_processor.py) under the document lock (document_task_lock.py), *)
(* and the Beat job that stops stale tasks (task_recovery.py).             *)
(*                                                                         *)
(* One action is one database transaction, one broker call or one lock     *)
(* call of the code; whatever a process read before that step it carries   *)
(* in its own variables (cpc, ctask, cid, message, had), so that stale   *)
(* reads are part of the model.                                            *)
(*                                                                         *)
(* Definitions marked "Fault:" are no part of the model.  Each is what the *)
(* definition after it would be with a plausible bug, and is used to show  *)
(* that the properties notice the bug.                                     *)
(***************************************************************************)
EXTENDS Naturals

CONSTANTS
  Documents,      \* primary keys of Document rows
  Tasks,          \* primary keys of DocumentProcessingTask rows
  DocumentOf,     \* the document a task row belongs to
  UploadTasks,    \* the rows created with task_type UPLOAD; the others are REPROCESS
  Workers,        \* Celery worker processes
  Clients,        \* web requests that may be in progress at the same time
  MaxRetries,     \* process_document_task.max_retries (3 in the code)
  MaxDispatches,  \* bound: how often apply_async may be called
  MaxCrashes,     \* bound: how many worker processes may die
  NoIndex, NoTask, NoMessage, Free, Orphaned

ASSUME DocumentOfAssumption == DocumentOf \in [Tasks -> Documents]
ASSUME UploadTasksAssumption == UploadTasks \subseteq Tasks
ASSUME BoundsAssumption ==
  /\ MaxRetries \in Nat
  /\ MaxDispatches \in Nat
  /\ MaxCrashes \in Nat
ASSUME NullAssumption ==
  /\ NoIndex \notin Tasks
  /\ NoTask \notin Tasks
  /\ Free \notin Workers
  /\ Orphaned \notin Workers
  /\ Free # Orphaned

VARIABLES
  docStatus,  \* Document.status; "ABSENT" before the upload, "DELETED" after the delete
  index,      \* the task whose chunks and vectors the document holds, or NoIndex
  status,     \* DocumentProcessingTask.status; "ABSENT" where there is no row
  celeryId,   \* DocumentProcessingTask.celery_task_id; 0 is the empty string
  queue,      \* messages waiting in the broker
  sent,       \* number of apply_async calls so far: the last message id
  lock,       \* redis lock of a document: its holder, Free, or Orphaned by a dead holder
  crashes,    \* worker deaths so far
  pc,         \* where a worker stands in process_document_task
  message,    \* the message a worker is processing
  had,        \* process_document's local had_paragraphs
  cpc,        \* where a web request stands
  ctask,      \* the task row a web request works on
  cid         \* the id apply_async returned to the request

docVars    == <<docStatus, index>>
brokerVars == <<queue, sent>>
workerVars == <<pc, message, had>>
clientVars == <<cpc, ctask, cid>>
vars == <<docVars, status, celeryId, brokerVars, lock, crashes, workerVars, clientVars>>

-----------------------------------------------------------------------------

DocumentStatus == {"ABSENT", "PROCESSING", "SUCCESS", "FAILURE", "DELETED"}

ActiveStatuses == {"PENDING", "PROCESSING", "RETRYING", "CANCEL_REQUESTED"}

TaskStatus ==
  ActiveStatuses \cup {"ABSENT", "SUCCESS", "FAILURE", "ENQUEUE_FAILED", "CANCELLED"}

CancelStatuses == {"CANCEL_REQUESTED", "CANCELLED"}

Message == [id : 1..MaxDispatches, task : Tasks, retries : 0..MaxRetries]

\* Worker positions between acquiring and releasing the document lock.
LockedPc == {"start", "load", "build", "commit", "committed", "release"}

\* Positions from which an exception is turned into a retry or a failure.
RaisedPc == {"refused", "retryable", "fatal"}

WorkerPc == LockedPc \cup RaisedPc \cup {"idle", "check", "acquire", "cancelled", "failDocument", "ack"}

\* Positions of a run that has saved PROCESSING: the hard time limit ends such
\* a run before its heartbeat is old enough to be stale.
FreshPc == (LockedPc \ {"start"}) \cup {"retryable", "fatal", "cancelled"}

ClientPc ==
  {"idle", "reset", "recreate", "cancelUnsent", "cancelNow", "cancelRequest",
   "failDocument", "failThenRevoke", "revoke", "publish", "record"}

TypeOK ==
  /\ docStatus \in [Documents -> DocumentStatus]
  /\ index \in [Documents -> Tasks \cup {NoIndex}]
  /\ status \in [Tasks -> TaskStatus]
  /\ celeryId \in [Tasks -> 0..MaxDispatches]
  /\ queue \subseteq Message
  /\ sent \in 0..MaxDispatches
  /\ lock \in [Documents -> Workers \cup {Free, Orphaned}]
  /\ crashes \in 0..MaxCrashes
  /\ pc \in [Workers -> WorkerPc]
  /\ message \in [Workers -> Message \cup {NoMessage}]
  /\ \A w \in Workers : pc[w] # "idle" => message[w] \in Message
  /\ had \in [Workers -> BOOLEAN]
  /\ cpc \in [Clients -> ClientPc]
  /\ ctask \in [Clients -> Tasks \cup {NoTask}]
  /\ \A c \in Clients : cpc[c] # "idle" => ctask[c] \in Tasks
  /\ cid \in [Clients -> 0..MaxDispatches]
  /\ \A c \in Clients : cpc[c] = "record" => cid[c] # 0

-----------------------------------------------------------------------------
(* Rows, constraints and the updates the services share.                   *)

Present(d) == docStatus[d] \notin {"ABSENT", "DELETED"}

Active(t) == status[t] \in ActiveStatuses

Siblings(t) == {u \in Tasks \ {t} : DocumentOf[u] = DocumentOf[t]}

\* Fault: the constraint does not count CANCEL_REQUESTED.
ActiveElsewhereButCancelling(t) ==
  \E u \in Siblings(t) : Active(u) /\ status[u] # "CANCEL_REQUESTED"

\* unique_active_document_processing_task: making t active raises
\* IntegrityError while another task of its document is active.
ActiveElsewhere(t) == \E u \in Siblings(t) : Active(u)

\* A worker inside paragraph.replace holds the FOR UPDATE lock of its document.
RowFree(d) ==
  \A w \in Workers : pc[w] = "commit" => DocumentOf[message[w].task] # d

\* Fault: the status is stored with save(), which inserts a missing row.
SaveStatus(t, s) == status' = [status EXCEPT ![t] = s]

\* filter(pk=t).update(status=s): nothing happens to a row that is gone.
SetStatus(t, s) ==
  status' = IF status[t] = "ABSENT" THEN status ELSE [status EXCEPT ![t] = s]

\* mark_task_cancelled goes on to the document if the task is an upload and
\* there are no chunks; _mark_enqueue_failed if the task is an upload.  The
\* document is a write of its own, made from what was read before it.
LeavesNothing(t) == status[t] # "ABSENT" /\ t \in UploadTasks /\ index[DocumentOf[t]] = NoIndex

\* Document.objects.filter(pk=d).update(status=FAILURE).
FailDocumentOf(t) ==
  LET d == DocumentOf[t] IN
  /\ RowFree(d)
  /\ docStatus' = IF Present(d) THEN [docStatus EXCEPT ![d] = "FAILURE"] ELSE docStatus

Init ==
  /\ docStatus = [d \in Documents |-> "ABSENT"]
  /\ index = [d \in Documents |-> NoIndex]
  /\ status = [t \in Tasks |-> "ABSENT"]
  /\ celeryId = [t \in Tasks |-> 0]
  /\ queue = {}
  /\ sent = 0
  /\ lock = [d \in Documents |-> Free]
  /\ crashes = 0
  /\ pc = [w \in Workers |-> "idle"]
  /\ message = [w \in Workers |-> NoMessage]
  /\ had = [w \in Workers |-> FALSE]
  /\ cpc = [c \in Clients |-> "idle"]
  /\ ctask = [c \in Clients |-> NoTask]
  /\ cid = [c \in Clients |-> 0]

-----------------------------------------------------------------------------
(* Web requests.                                                           *)

\* The request c now stands at `at`, holding task t and the message id it got
\* from the broker.
Continue(c, at, t, id) ==
  /\ cpc' = [cpc EXCEPT ![c] = at]
  /\ ctask' = [ctask EXCEPT ![c] = t]
  /\ cid' = [cid EXCEPT ![c] = id]

Respond(c) == Continue(c, "idle", NoTask, 0)

\* DocumentListView.post: the document and its task are created in one
\* transaction; dispatch_processing_task runs when it has committed.
Upload(c, t) ==
  LET d == DocumentOf[t] IN
  /\ cpc[c] = "idle"
  /\ t \in UploadTasks
  /\ docStatus[d] = "ABSENT"
  /\ docStatus' = [docStatus EXCEPT ![d] = "PROCESSING"]
  /\ status' = [status EXCEPT ![t] = "PENDING"]
  /\ Continue(c, "publish", t, 0)
  /\ UNCHANGED <<index, celeryId, brokerVars, lock, crashes, workerVars>>

\* create_processing_task inserts a row, unless its document already has an
\* active task: then IntegrityError makes it return that task.
CreateTask(t) ==
  LET d == DocumentOf[t] IN
  /\ t \notin UploadTasks
  /\ Present(d)
  /\ status[t] = "ABSENT"
  /\ ~ActiveElsewhere(t)
  /\ status' = [status EXCEPT ![t] = "PENDING"]

\* DocumentReprocessView.post when the insert succeeds.
Reprocess(c, t) ==
  /\ cpc[c] = "idle"
  /\ CreateTask(t)
  /\ Continue(c, "publish", t, 0)
  /\ UNCHANGED <<docVars, celeryId, brokerVars, lock, crashes, workerVars>>

\* DocumentReprocessView.post when create_processing_task returns a task that
\* exists (the active one, or the one with the same idempotency key): it is
\* dispatched again if it is PENDING without a celery_task_id.
ReprocessExisting(c, t) ==
  /\ cpc[c] = "idle"
  /\ status[t] = "PENDING"
  /\ celeryId[t] = 0
  /\ Continue(c, "publish", t, 0)
  /\ UNCHANGED <<docVars, status, celeryId, brokerVars, lock, crashes, workerVars>>

\* DocumentProcessingTaskRetryView.post and GlobalTaskActionView read the task;
\* its status then decides what retry_processing_task does.
RetryRead(c, t) ==
  /\ cpc[c] = "idle"
  /\ \/ status[t] = "ENQUEUE_FAILED" /\ Continue(c, "reset", t, 0)
     \/ status[t] \in {"FAILURE", "CANCELLED"} /\ Continue(c, "recreate", t, 0)
  /\ UNCHANGED <<docVars, status, celeryId, brokerVars, lock, crashes, workerVars>>

\* A task read as ENQUEUE_FAILED: the row is locked, not checked again, and
\* reset unless another task is active (then RequestAborts).
RetryReset(c) ==
  LET t == ctask[c] IN
  /\ cpc[c] = "reset"
  /\ status[t] # "ABSENT"
  /\ ~ActiveElsewhere(t)
  /\ status' = [status EXCEPT ![t] = "PENDING"]
  /\ celeryId' = [celeryId EXCEPT ![t] = 0]
  /\ Continue(c, "publish", t, 0)
  /\ UNCHANGED <<docVars, brokerVars, lock, crashes, workerVars>>

\* A task read as FAILURE or CANCELLED: a REPROCESS task of its own is
\* created, unless another task is active (then RequestAborts).
RetryCreates(c, t) ==
  /\ cpc[c] = "recreate"
  /\ DocumentOf[t] = DocumentOf[ctask[c]]
  /\ CreateTask(t)
  /\ Continue(c, "publish", t, 0)
  /\ UNCHANGED <<docVars, celeryId, brokerVars, lock, crashes, workerVars>>

\* DocumentProcessingTaskCancelView.post and GlobalTaskActionView read the
\* task; its status then decides what request_task_cancel does.
CancelRead(c, t) ==
  /\ cpc[c] = "idle"
  /\ \/ status[t] = "ENQUEUE_FAILED" /\ Continue(c, "cancelUnsent", t, 0)
     \/ status[t] \in {"PENDING", "RETRYING"} /\ Continue(c, "cancelNow", t, 0)
     \/ /\ status[t] \in {"PROCESSING", "CANCEL_REQUESTED"}
        /\ Continue(c, "cancelRequest", t, celeryId[t])
  /\ UNCHANGED <<docVars, status, celeryId, brokerVars, lock, crashes, workerVars>>

\* mark_task_cancelled of a task read as not running ...
CancelNow(c) ==
  LET t == ctask[c] IN
  /\ cpc[c] \in {"cancelUnsent", "cancelNow"}
  /\ SetStatus(t, "CANCELLED")
  /\ CASE LeavesNothing(t) ->
            Continue(c, IF cpc[c] = "cancelNow" THEN "failThenRevoke" ELSE "failDocument", t, 0)
       [] ~LeavesNothing(t) /\ cpc[c] = "cancelNow" -> Continue(c, "revoke", t, celeryId[t])
       [] OTHER -> Respond(c)
  /\ UNCHANGED <<docVars, celeryId, brokerVars, lock, crashes, workerVars>>

\* ... and the worker of a task read as running is asked to stop.
CancelRequest(c) ==
  LET t == ctask[c] IN
  /\ cpc[c] = "cancelRequest"
  /\ status[t] # "ABSENT"
  /\ ~ActiveElsewhere(t)
  /\ status' = [status EXCEPT ![t] = "CANCEL_REQUESTED"]
  /\ Continue(c, "revoke", t, cid[c])
  /\ UNCHANGED <<docVars, celeryId, brokerVars, lock, crashes, workerVars>>

\* The second write of mark_task_cancelled and _mark_enqueue_failed.
FailDocument(c) ==
  LET t == ctask[c] IN
  /\ cpc[c] \in {"failDocument", "failThenRevoke"}
  /\ FailDocumentOf(t)
  /\ IF cpc[c] = "failThenRevoke" THEN Continue(c, "revoke", t, celeryId[t]) ELSE Respond(c)
  /\ UNCHANGED <<index, status, celeryId, brokerVars, lock, crashes, workerVars>>

\* app.control.revoke(celery_task_id): workers drop a waiting message with this
\* id.  A broadcast that is lost is a RequestAborts.
Revoke(c) ==
  /\ cpc[c] = "revoke"
  /\ queue' = {m \in queue : m.id # cid[c]}
  /\ Respond(c)
  /\ UNCHANGED <<docVars, status, celeryId, sent, lock, crashes, workerVars>>

\* DocumentDetailView.delete: the messages of the active tasks are revoked, at
\* best, and the document is deleted, its tasks and chunks with it.
DeleteDocument(d) ==
  LET rows == {t \in Tasks : DocumentOf[t] = d} IN
  /\ Present(d)
  /\ RowFree(d)
  /\ docStatus' = [docStatus EXCEPT ![d] = "DELETED"]
  /\ index' = [index EXCEPT ![d] = NoIndex]
  /\ status' = [t \in Tasks |-> IF t \in rows THEN "ABSENT" ELSE status[t]]
  /\ celeryId' = [t \in Tasks |-> IF t \in rows THEN 0 ELSE celeryId[t]]
  /\ \/ queue' = {m \in queue : \A t \in rows : Active(t) => celeryId[t] # m.id}
     \/ UNCHANGED queue
  /\ UNCHANGED <<sent, lock, crashes, workerVars, clientVars>>

\* dispatch_processing_task: apply_async puts the message in the broker ...
Publish(c) ==
  /\ cpc[c] = "publish"
  /\ sent < MaxDispatches
  /\ sent' = sent + 1
  /\ queue' = queue \cup {[id |-> sent + 1, task |-> ctask[c], retries |-> 0]}
  /\ Continue(c, "record", ctask[c], sent + 1)
  /\ UNCHANGED <<docVars, status, celeryId, lock, crashes, workerVars>>

\* ... and its id is stored in the row.
Record(c) ==
  LET t == ctask[c] IN
  /\ cpc[c] = "record"
  /\ celeryId' = [celeryId EXCEPT ![t] = IF status[t] = "ABSENT" THEN 0 ELSE cid[c]]
  /\ Respond(c)
  /\ UNCHANGED <<docVars, status, brokerVars, lock, crashes, workerVars>>

\* An exception of either call, before or after the message got out:
\* _mark_enqueue_failed.
DispatchFails(c) ==
  LET t == ctask[c] IN
  /\ cpc[c] \in {"publish", "record"}
  /\ SetStatus(t, "ENQUEUE_FAILED")
  /\ IF status[t] # "ABSENT" /\ t \in UploadTasks
     THEN Continue(c, "failDocument", t, 0) ELSE Respond(c)
  /\ UNCHANGED <<docVars, celeryId, brokerVars, lock, crashes, workerVars>>

\* A request that ends early: its web process dies, the row it read is gone or
\* the database rejects its write (an error response).
RequestAborts(c) ==
  /\ cpc[c] # "idle"
  /\ Respond(c)
  /\ UNCHANGED <<docVars, status, celeryId, brokerVars, lock, crashes, workerVars>>

-----------------------------------------------------------------------------
(* Workers: process_document_task.                                         *)

TaskOf(w) == message[w].task

DocOf(w) == DocumentOf[TaskOf(w)]

Goto(w, to) == pc' = [pc EXCEPT ![w] = to]

\* Leaving the `with document_processing_lock` block: release() deletes the
\* key only while it holds the worker's own token.
ReleaseLock(w) ==
  lock' = IF lock[DocOf(w)] = w THEN [lock EXCEPT ![DocOf(w)] = Free] ELSE lock

\* A process that dies does not release: its key stays until the timeout.
AbandonLock(w) == lock' = [d \in Documents |-> IF lock[d] = w THEN Orphaned ELSE lock[d]]

Fetch(w, m) ==
  /\ pc[w] = "idle"
  /\ m \in queue
  /\ queue' = queue \ {m}
  /\ message' = [message EXCEPT ![w] = m]
  /\ Goto(w, "check")
  /\ UNCHANGED <<docVars, status, celeryId, sent, lock, crashes, had, clientVars>>

\* execute_document_processing_task reads the task: gone or already done ...
CheckDone(w) ==
  /\ pc[w] = "check"
  /\ status[TaskOf(w)] \in {"ABSENT", "SUCCESS"}
  /\ Goto(w, "ack")
  /\ UNCHANGED <<docVars, status, celeryId, brokerVars, lock, crashes, message, had, clientVars>>

\* ... cancelled (mark_task_cancelled, outside the lock) ...
MarkCancelled(w) ==
  /\ SetStatus(TaskOf(w), "CANCELLED")
  /\ Goto(w, IF LeavesNothing(TaskOf(w)) THEN "failDocument" ELSE "ack")
  /\ UNCHANGED <<docVars, celeryId, brokerVars, lock, crashes, message, had, clientVars>>

CheckCancelled(w) ==
  /\ pc[w] = "check"
  /\ status[TaskOf(w)] \in CancelStatuses
  /\ MarkCancelled(w)

WorkerFailsDocument(w) ==
  /\ pc[w] = "failDocument"
  /\ FailDocumentOf(TaskOf(w))
  /\ Goto(w, "ack")
  /\ UNCHANGED <<index, status, celeryId, brokerVars, lock, crashes, message, had, clientVars>>

\* ... or to be run, whatever else its status is ...
CheckRuns(w) ==
  /\ pc[w] = "check"
  /\ status[TaskOf(w)] \notin CancelStatuses \cup {"ABSENT", "SUCCESS"}
  /\ Goto(w, "acquire")
  /\ UNCHANGED <<docVars, status, celeryId, brokerVars, lock, crashes, message, had, clientVars>>

\* ... under the document's lock.
AcquireLock(w) ==
  /\ pc[w] = "acquire"
  /\ lock[DocOf(w)] = Free
  /\ lock' = [lock EXCEPT ![DocOf(w)] = w]
  /\ Goto(w, "start")
  /\ UNCHANGED <<docVars, status, celeryId, brokerVars, crashes, message, had, clientVars>>

\* DocumentTaskLockBusy, or DocumentTaskLockError when redis cannot be reached.
LockRefused(w) ==
  /\ pc[w] = "acquire"
  /\ Goto(w, "refused")
  /\ UNCHANGED <<docVars, status, celeryId, brokerVars, lock, crashes, message, had, clientVars>>

\* Under the lock the row is read again FOR UPDATE. Gone, or made active again
\* beside another active task (IntegrityError): an exception that is not retried.
StartRejected(w) ==
  /\ pc[w] = "start"
  /\ \/ status[TaskOf(w)] = "ABSENT"
     \/ /\ status[TaskOf(w)] \notin CancelStatuses \cup {"SUCCESS"}
        /\ ActiveElsewhere(TaskOf(w))
  /\ ReleaseLock(w)
  /\ Goto(w, "fatal")
  /\ UNCHANGED <<docVars, status, celeryId, brokerVars, crashes, message, had, clientVars>>

StartDone(w) ==
  /\ pc[w] = "start"
  /\ status[TaskOf(w)] = "SUCCESS"
  /\ Goto(w, "release")
  /\ UNCHANGED <<docVars, status, celeryId, brokerVars, lock, crashes, message, had, clientVars>>

\* mark_task_cancelled inside the transaction.
StartCancelled(w) ==
  LET t == TaskOf(w) IN
  /\ pc[w] = "start"
  /\ status[t] \in CancelStatuses
  /\ SetStatus(t, "CANCELLED")
  /\ IF LeavesNothing(t) THEN FailDocumentOf(t) ELSE UNCHANGED docStatus
  /\ Goto(w, "release")
  /\ UNCHANGED <<index, celeryId, brokerVars, lock, crashes, message, had, clientVars>>

Start(w) ==
  LET t == TaskOf(w) IN
  /\ pc[w] = "start"
  /\ status[t] \notin CancelStatuses \cup {"ABSENT", "SUCCESS"}
  /\ ~ActiveElsewhere(t)
  /\ status' = [status EXCEPT ![t] = "PROCESSING"]
  /\ Goto(w, "load")
  /\ UNCHANGED <<docVars, celeryId, brokerVars, lock, crashes, message, had, clientVars>>

\* Fault: the old chunks are deleted before the new ones are built.
LoadClears(w) ==
  LET d == DocOf(w) IN
  /\ pc[w] = "load"
  /\ Present(d)
  /\ had' = [had EXCEPT ![w] = index[d] # NoIndex]
  /\ docStatus' = [docStatus EXCEPT ![d] = "PROCESSING"]
  /\ index' = [index EXCEPT ![d] = NoIndex]
  /\ Goto(w, "build")
  /\ UNCHANGED <<status, celeryId, brokerVars, lock, crashes, message, clientVars>>

\* process_document notes whether there are chunks; a document without any is
\* shown as being processed.
Load(w) ==
  LET d == DocOf(w) IN
  /\ pc[w] = "load"
  /\ Present(d)
  /\ had' = [had EXCEPT ![w] = index[d] # NoIndex]
  /\ docStatus' = IF index[d] = NoIndex THEN [docStatus EXCEPT ![d] = "PROCESSING"] ELSE docStatus
  /\ Goto(w, "build")
  /\ UNCHANGED <<index, status, celeryId, brokerVars, lock, crashes, message, clientVars>>

\* The document is gone before process_document's try: not retried.
LoadRejected(w) ==
  /\ pc[w] = "load"
  /\ ~Present(DocOf(w))
  /\ ReleaseLock(w)
  /\ Goto(w, "fatal")
  /\ UNCHANGED <<docVars, status, celeryId, brokerVars, crashes, message, had, clientVars>>

ShouldCancel(t) == status[t] \in CancelStatuses \cup {"ABSENT"}

\* Parsing, splitting and embedding, with check_cancelled before each batch,
\* up to the replacing transaction: it locks the document row and checks a last
\* time ...
Build(w) ==
  /\ pc[w] = "build"
  /\ Present(DocOf(w))
  /\ ~ShouldCancel(TaskOf(w))
  /\ Goto(w, "commit")
  /\ UNCHANGED <<docVars, status, celeryId, brokerVars, lock, crashes, message, had, clientVars>>

\* Fault: the lock covers the replacement only, not the task's SUCCESS.
CommitReleases(w) ==
  LET d == DocOf(w) IN
  /\ pc[w] = "commit"
  /\ index' = [index EXCEPT ![d] = TaskOf(w)]
  /\ docStatus' = [docStatus EXCEPT ![d] = "SUCCESS"]
  /\ ReleaseLock(w)
  /\ Goto(w, "committed")
  /\ UNCHANGED <<status, celeryId, brokerVars, crashes, message, had, clientVars>>

\* ... and deletes the old chunks, inserts the new ones and commits.
Commit(w) ==
  LET d == DocOf(w) IN
  /\ pc[w] = "commit"
  /\ index' = [index EXCEPT ![d] = TaskOf(w)]
  /\ docStatus' = [docStatus EXCEPT ![d] = "SUCCESS"]
  /\ Goto(w, "committed")
  /\ UNCHANGED <<status, celeryId, brokerVars, lock, crashes, message, had, clientVars>>

\* Fault: the exception leaves the lock behind.
BuildCancelledKeepsLock(w) ==
  /\ pc[w] = "build"
  /\ ShouldCancel(TaskOf(w))
  /\ Goto(w, "cancelled")
  /\ UNCHANGED <<docVars, status, celeryId, brokerVars, lock, crashes, message, had, clientVars>>

\* A check found the task cancelled, or the document gone: the block is left.
BuildCancelled(w) ==
  /\ pc[w] = "build"
  /\ ShouldCancel(TaskOf(w))
  /\ ReleaseLock(w)
  /\ Goto(w, "cancelled")
  /\ UNCHANGED <<docVars, status, celeryId, brokerVars, crashes, message, had, clientVars>>

\* Any other exception inside the try (a model, parser or database error, or
\* the soft time limit): a transaction in progress is rolled back, and the
\* handler decides from had_paragraphs what the document's status becomes.
BuildFails(w, kind) ==
  LET d == DocOf(w) IN
  /\ pc[w] \in {"build", "commit", "committed"}
  /\ docStatus' = IF Present(d)
                  THEN [docStatus EXCEPT ![d] =
                          IF had[w] /\ index[d] # NoIndex THEN "SUCCESS" ELSE "FAILURE"]
                  ELSE docStatus
  /\ ReleaseLock(w)
  /\ Goto(w, kind)
  /\ UNCHANGED <<index, status, celeryId, brokerVars, crashes, message, had, clientVars>>

\* After report("DONE", 100) SUCCESS is written, whatever the status has become.
Finish(w) ==
  /\ pc[w] = "committed"
  /\ SetStatus(TaskOf(w), "SUCCESS")
  /\ Goto(w, "release")
  /\ UNCHANGED <<docVars, celeryId, brokerVars, lock, crashes, message, had, clientVars>>

\* A database error or the soft time limit before PROCESSING is saved ...
StartFails(w) ==
  /\ pc[w] = "start"
  /\ ReleaseLock(w)
  /\ Goto(w, "refused")
  /\ UNCHANGED <<docVars, status, celeryId, brokerVars, crashes, message, had, clientVars>>

\* ... and after it, outside process_document's try.
RunFails(w) ==
  /\ pc[w] \in {"load", "committed"}
  /\ ReleaseLock(w)
  /\ Goto(w, "retryable")
  /\ UNCHANGED <<docVars, status, celeryId, brokerVars, crashes, message, had, clientVars>>

Release(w) ==
  /\ pc[w] = "release"
  /\ ReleaseLock(w)
  /\ Goto(w, "ack")
  /\ UNCHANGED <<docVars, status, celeryId, brokerVars, crashes, message, had, clientVars>>

\* except DocumentProcessingCancelled, outside the lock.
Cancelled(w) ==
  /\ pc[w] = "cancelled"
  /\ MarkCancelled(w)

-----------------------------------------------------------------------------
(* The except clause of process_document_task.                             *)

MayRetry(w) == pc[w] \in {"refused", "retryable"} /\ message[w].retries < MaxRetries

\* mark_task_retrying, then self.retry publishes the message again under the
\* same id; `published` is FALSE when the broker refuses it.
RetryTask(w, published) ==
  LET t == TaskOf(w)
      again == [message[w] EXCEPT !.retries = @ + 1] IN
  /\ MayRetry(w)
  /\ ~ActiveElsewhere(t)
  /\ SetStatus(t, "RETRYING")
  /\ queue' = IF published THEN queue \cup {again} ELSE queue
  /\ Goto(w, "ack")
  /\ UNCHANGED <<docVars, celeryId, sent, lock, crashes, message, had, clientVars>>

\* mark_task_retrying raises IntegrityError beside another active task: the
\* exception leaves the Celery task and nothing is published.
RetryRejected(w) ==
  /\ MayRetry(w)
  /\ status[TaskOf(w)] # "ABSENT"
  /\ ActiveElsewhere(TaskOf(w))
  /\ Goto(w, "ack")
  /\ UNCHANGED <<docVars, status, celeryId, brokerVars, lock, crashes, message, had, clientVars>>

FailTask(w) ==
  /\ pc[w] \in RaisedPc
  /\ ~MayRetry(w)
  /\ SetStatus(TaskOf(w), "FAILURE")
  /\ Goto(w, "ack")
  /\ UNCHANGED <<docVars, celeryId, brokerVars, lock, crashes, message, had, clientVars>>

Idle(w) ==
  /\ Goto(w, "idle")
  /\ message' = [message EXCEPT ![w] = NoMessage]
  /\ had' = [had EXCEPT ![w] = FALSE]

\* acks_late: the message is acknowledged only now.
Ack(w) ==
  /\ pc[w] = "ack"
  /\ Idle(w)
  /\ UNCHANGED <<docVars, status, celeryId, brokerVars, lock, crashes, clientVars>>

\* reject_on_worker_lost: the message of a lost process is delivered again.
WorkerLost(w) ==
  /\ pc[w] # "idle"
  /\ crashes < MaxCrashes
  /\ crashes' = crashes + 1
  /\ queue' = queue \cup {message[w]}
  /\ AbandonLock(w)
  /\ Idle(w)
  /\ UNCHANGED <<docVars, status, celeryId, sent, clientVars>>

\* The hard time limit kills the process and acknowledges its message.
HardTimeLimit(w) ==
  /\ pc[w] \notin {"idle", "ack"}
  /\ crashes < MaxCrashes
  /\ crashes' = crashes + 1
  /\ AbandonLock(w)
  /\ Idle(w)
  /\ UNCHANGED <<docVars, status, celeryId, brokerVars, clientVars>>

\* Fault: the key's timeout is shorter than a run.
LockExpiresEarly(d) ==
  /\ lock[d] # Free
  /\ lock' = [lock EXCEPT ![d] = Free]
  /\ UNCHANGED <<docVars, status, celeryId, brokerVars, crashes, workerVars, clientVars>>

LockExpires(d) ==
  /\ lock[d] = Orphaned
  /\ lock' = [lock EXCEPT ![d] = Free]
  /\ UNCHANGED <<docVars, status, celeryId, brokerVars, crashes, workerVars, clientVars>>

-----------------------------------------------------------------------------
(* Beat: reconcile_stale_processing_tasks.                                 *)

\* Fault: the reconciler leaves PENDING tasks to the broker.
StaleButPending(t) ==
  /\ Active(t) /\ status[t] # "PENDING"
  /\ \A w \in Workers : pc[w] \in FreshPc => TaskOf(w) # t

\* updated_at is older than STALE_TASK_THRESHOLD_SECONDS. The threshold
\* exceeds the hard time limit, so no run that has saved PROCESSING is still
\* alive; a task waiting to be dispatched or fetched has no heartbeat and may
\* become stale.
Stale(t) ==
  /\ Active(t)
  /\ \A w \in Workers : pc[w] \in FreshPc => TaskOf(w) # t

\* Fault: the document is restored to SUCCESS without looking for chunks.
ReconcileRestores(t) ==
  LET d == DocumentOf[t] IN
  /\ Stale(t)
  /\ RowFree(d)
  /\ status' = [status EXCEPT ![t] =
                  IF @ = "CANCEL_REQUESTED" THEN "CANCELLED" ELSE "FAILURE"]
  /\ docStatus' = [docStatus EXCEPT ![d] = "SUCCESS"]
  /\ UNCHANGED <<index, celeryId, brokerVars, lock, crashes, workerVars, clientVars>>

Reconcile(t) ==
  LET d == DocumentOf[t] IN
  /\ Stale(t)
  /\ RowFree(d)
  /\ status' = [status EXCEPT ![t] =
                  IF @ = "CANCEL_REQUESTED" THEN "CANCELLED" ELSE "FAILURE"]
  /\ docStatus' = [docStatus EXCEPT ![d] =
                     IF index[d] # NoIndex THEN "SUCCESS" ELSE "FAILURE"]
  /\ UNCHANGED <<index, celeryId, brokerVars, lock, crashes, workerVars, clientVars>>

-----------------------------------------------------------------------------

ClientStep(c) ==
  \/ \E t \in Tasks : Upload(c, t) \/ Reprocess(c, t) \/ ReprocessExisting(c, t)
  \/ \E t \in Tasks : RetryRead(c, t) \/ CancelRead(c, t) \/ RetryCreates(c, t)
  \/ RetryReset(c) \/ CancelNow(c) \/ CancelRequest(c) \/ FailDocument(c) \/ Revoke(c)
  \/ Publish(c) \/ Record(c) \/ DispatchFails(c) \/ RequestAborts(c)

\* What a worker does with the message it holds.
Work(w) ==
  \/ CheckDone(w) \/ CheckCancelled(w) \/ WorkerFailsDocument(w)
  \/ CheckRuns(w) \/ AcquireLock(w) \/ LockRefused(w)
  \/ StartRejected(w) \/ StartDone(w) \/ StartCancelled(w) \/ Start(w) \/ StartFails(w)
  \/ Load(w) \/ LoadRejected(w) \/ RunFails(w)
  \/ Build(w) \/ Commit(w) \/ BuildCancelled(w)
  \/ BuildFails(w, "retryable") \/ BuildFails(w, "fatal")
  \/ Finish(w) \/ Release(w) \/ Cancelled(w)
  \/ RetryTask(w, TRUE) \/ RetryTask(w, FALSE) \/ RetryRejected(w) \/ FailTask(w)
  \/ Ack(w)

Next ==
  \/ \E c \in Clients : ClientStep(c)
  \/ \E d \in Documents : DeleteDocument(d)
  \/ \E w \in Workers : (\E m \in queue : Fetch(w, m)) \/ Work(w)
  \/ \E w \in Workers : WorkerLost(w) \/ HardTimeLimit(w)
  \/ \E d \in Documents : LockExpires(d)
  \/ \E t \in Tasks : Reconcile(t)

\* A worker that holds a message goes on with it (its time limits see to
\* that), a lock key expires, Beat runs the reconciler, and a request ends.
\* Users owe nothing, and no message is sure to be fetched.
Fairness ==
  /\ \A w \in Workers : WF_vars(Work(w))
  /\ \A d \in Documents : WF_vars(LockExpires(d))
  /\ \A t \in Tasks : WF_vars(Reconcile(t))
  /\ \A c \in Clients : WF_vars(cpc[c] # "idle" /\ ClientStep(c))

Spec == Init /\ [][Next]_vars

FairSpec == Spec /\ Fairness

-----------------------------------------------------------------------------
(* Properties.                                                             *)

\* At most one task of a document is PENDING, PROCESSING, RETRYING or
\* CANCEL_REQUESTED, through every race of creating, retrying, redelivering,
\* cancelling and reconciling requests: no write of the code relies on a
\* status it read earlier without the database refusing a second active task.
OneActiveTask ==
  \A t, u \in Tasks :
    Active(t) /\ Active(u) /\ DocumentOf[t] = DocumentOf[u] => t = u

\* Two runs never work on one document at once, although messages are
\* duplicated and redelivered, runs are cancelled or stopped by Beat while
\* they go on, and workers die holding the lock.
SingleBuilder ==
  \A v, w \in Workers :
    pc[v] \in LockedPc /\ pc[w] \in LockedPc /\ DocOf(v) = DocOf(w) => v = w

\* Retrieval reads documents whose status is SUCCESS: such a document has
\* chunks, whichever of the five places that write the status wrote it last.
SuccessMeansIndexed ==
  \A d \in Documents : docStatus[d] = "SUCCESS" => index[d] # NoIndex

\* A run that is still going when its document is deleted leaves nothing
\* behind: no chunks and no task rows.
DeletedStaysDeleted ==
  \A d \in Documents : docStatus[d] = "DELETED" =>
    /\ index[d] = NoIndex
    /\ \A t \in Tasks : DocumentOf[t] = d => status[t] = "ABSENT"

\* A task turns SUCCESS only while its document holds the chunks that this
\* task built: no other run has replaced them between its commit and its
\* status update.
SuccessReportsOwnIndex ==
  [][\A t \in Tasks :
       status[t] # "SUCCESS" /\ status'[t] = "SUCCESS" => index[DocumentOf[t]] = t]_vars

\* A document that has chunks keeps having chunks until it is deleted: no
\* failure, cancellation, crash or reconciliation loses the old ones.
IndexNeverLost ==
  [][\A d \in Documents :
       index[d] # NoIndex => index'[d] # NoIndex \/ docStatus'[d] = "DELETED"]_vars

-----------------------------------------------------------------------------
(* The inductive invariant behind the safety properties.                   *)

\* Deleting a document deletes its rows, and no write creates one for a
\* document that is not there.
TasksHaveDocuments == \A t \in Tasks : status[t] # "ABSENT" => Present(DocumentOf[t])

MissingIsEmpty == \A d \in Documents : ~Present(d) => index[d] = NoIndex

\* A worker is inside the locked block of a document exactly while it holds
\* the document's key.
KeyIffLocked ==
  /\ \A w \in Workers : pc[w] \in LockedPc => lock[DocOf(w)] = w
  /\ \A d \in Documents, w \in Workers :
       lock[d] = w => pc[w] \in LockedPc /\ DocOf(w) = d

\* The document of an open replacing transaction is there, and the chunks of a
\* committed one stay in place until the run is over or the document deleted.
CommitIsSafe ==
  \A w \in Workers :
    /\ pc[w] = "commit" => Present(DocOf(w))
    /\ pc[w] = "committed" =>
         index[DocOf(w)] = TaskOf(w) \/ docStatus[DocOf(w)] = "DELETED"

\* What every step preserves and the safety properties follow from: rows,
\* chunks, statuses and the key of a document agree whoever is interrupted.
IInv ==
  /\ TypeOK
  /\ OneActiveTask
  /\ SuccessMeansIndexed
  /\ TasksHaveDocuments
  /\ MissingIsEmpty
  /\ KeyIffLocked
  /\ CommitIsSafe

-----------------------------------------------------------------------------
(* Liveness.                                                               *)

\* Every task that becomes active is at some time terminal or gone, although
\* messages are lost with their broker, worker or revocation.
TasksConverge == \A t \in Tasks : Active(t) ~> ~Active(t)

-----------------------------------------------------------------------------
(* The abstract specification this one implements.                         *)

Builder(d) ==
  IF lock[d] \in Workers THEN TaskOf(lock[d]) ELSE NoTask

Existence(d) ==
  IF Present(d) THEN "now" ELSE IF docStatus[d] = "ABSENT" THEN "never" ELSE "deleted"

Outcome(t) ==
  IF Active(t) THEN "open"
  ELSE IF status[t] = "ABSENT" THEN "none"
  ELSE IF status[t] = "SUCCESS" THEN "succeeded" ELSE "stopped"

Contract == INSTANCE DocumentIndex WITH
  exists   <- [d \in Documents |-> Existence(d)],
  readable <- [d \in Documents |-> docStatus[d] = "SUCCESS"],
  builder  <- [d \in Documents |-> Builder(d)],
  outcome  <- [t \in Tasks |-> Outcome(t)]

\* The pipeline keeps the promises of DocumentIndex.
KeepsContract == Contract!Spec

-----------------------------------------------------------------------------
(* Statements of the repository that the code does not keep.               *)

\* "避免失败时破坏可用数据" (docs/architecture.md), "旧切片（如有）保持可用"
\* (task_recovery.py): a document with chunks that retrieval can read stays
\* readable while it exists.
UsableIndexStaysUsable ==
  [][\A d \in Documents :
       docStatus[d] = "SUCCESS" /\ index[d] # NoIndex
         => docStatus'[d] \in {"SUCCESS", "DELETED"}]_vars

=============================================================================
