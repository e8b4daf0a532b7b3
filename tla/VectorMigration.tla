--------------------------- MODULE VectorMigration ---------------------------
(***************************************************************************)
(* The backfill of one embedding space: the requests that create, retry    *)
(* and cancel a migration run (vector_views.py), the Celery task that      *)
(* copies one batch of legacy vectors and publishes its continuation       *)
(* (tasks.py, vector_storage.py), and the cache key that should keep two   *)
(* batches of a space apart.                                               *)
(*                                                                         *)
(* One action is one database transaction, one broker call or one cache    *)
(* call.  What a process read before it keeps in snap, rows, csnap.        *)
(*                                                                         *)
(* Definitions marked "Fault:" are no part of the model.  Each is what the *)
(* definition after it would be with a plausible bug, and is used to show  *)
(* that the properties notice the bug.                                     *)
(***************************************************************************)
EXTENDS Naturals, FiniteSets

CONSTANTS
  Ids,         \* primary keys of Paragraph rows
  Old,         \* the paragraphs with a legacy vector at the start
  Invalid,     \* those whose vector has another dimension or no finite values
  Runs,        \* primary keys of VectorMigrationRun rows, all of one space
  Workers,     \* Celery worker processes
  Clients,     \* web requests that may be in progress at the same time
  BatchSize,   \* VectorMigrationRun.batch_size
  MaxRetries,  \* process_vector_migration_task.max_retries (3 in the code)
  MaxSent,     \* bound: how often apply_async may be called
  FaultKinds,  \* which of "crash", "error", "slow" may happen
  MaxFaults,   \* bound: how many of them may happen, each kind once
  NoRun, NoMessage, Free

ASSUME IdsAssumption == Ids \subseteq Nat \ {0} /\ IsFiniteSet(Ids)
ASSUME ParagraphsAssumption == Old \subseteq Ids /\ Invalid \subseteq Old
ASSUME MigrationBoundsAssumption ==
  /\ BatchSize \in Nat \ {0}
  /\ MaxRetries \in Nat
  /\ MaxSent \in Nat
  /\ MaxFaults \in Nat
ASSUME MigrationNullAssumption ==
  NoRun \notin Runs /\ Free \notin Workers /\ NoMessage \notin [run : Runs, retries : 0..MaxRetries]

VARIABLES
  there,     \* paragraphs of SUCCESS documents that have a legacy vector
  gone,      \* paragraphs that have been deleted
  embedded,  \* paragraphs with a ParagraphEmbedding in the space
  space,     \* EmbeddingSpace.status
  run,       \* the rows of the runs
  queue,     \* number of copies of each message in the broker
  sent,      \* number of apply_async calls so far
  key,       \* the cache key of the space: the worker that added it, or Free
  faults,    \* the kinds of faults that have happened
  pc,        \* where a worker stands in process_vector_migration_task
  message,   \* the message a worker is processing
  snap,      \* the run as execute_backfill_batch read it
  rows,      \* the paragraphs of the batch
  last,      \* the last id among them
  cpc,       \* where a web request stands
  crun,      \* the run it works on
  csnap      \* that run as the request read it

paragraphVars == <<there, gone, embedded>>
brokerVars == <<queue, sent>>
workerVars == <<pc, message, snap, rows, last>>
clientVars == <<cpc, crun, csnap>>
vars == <<paragraphVars, space, run, brokerVars, key, faults, workerVars, clientVars>>

-----------------------------------------------------------------------------

ActiveStatuses == {"PENDING", "RUNNING", "CANCEL_REQUESTED"}

RunStatus == ActiveStatuses \cup {"ABSENT", "SUCCESS", "FAILURE", "CANCELLED"}

Cursors == Ids \cup {0}

\* done counts succeeded and skipped rows together.
Run == [status : RunStatus, cursor : Cursors, done : Nat, failed : Nat, dispatched : BOOLEAN]

NewRun == [status |-> "ABSENT", cursor |-> 0, done |-> 0, failed |-> 0, dispatched |-> FALSE]

Message == [run : Runs, retries : 0..MaxRetries]

\* From cache.add to cache.delete.
LockedPc ==
  {"read", "cancel", "start", "rows", "batch", "refresh", "closeSpace", "closeRun",
   "publish", "raised", "release"}

WorkerPc == LockedPc \cup {"idle", "acquire", "ack"}

ClientPc == {"idle", "publish", "record", "retry", "save", "cancel"}

TypeOK ==
  /\ there \subseteq Ids /\ gone \subseteq Ids /\ embedded \subseteq Ids
  /\ space \in {"DISCOVERED", "READY", "DEGRADED"}
  /\ run \in [Runs -> Run]
  /\ queue \in [Message -> Nat]
  /\ sent \in 0..MaxSent
  /\ key \in Workers \cup {Free}
  /\ faults \subseteq FaultKinds
  /\ pc \in [Workers -> WorkerPc]
  /\ message \in [Workers -> Message \cup {NoMessage}]
  /\ \A w \in Workers : pc[w] # "idle" => message[w] \in Message
  /\ snap \in [Workers -> Run]
  /\ rows \in [Workers -> SUBSET Ids]
  /\ last \in [Workers -> Cursors]
  /\ cpc \in [Clients -> ClientPc]
  /\ crun \in [Clients -> Runs \cup {NoRun}]
  /\ \A c \in Clients : cpc[c] # "idle" => crun[c] \in Runs
  /\ csnap \in [Clients -> Run]

Init ==
  /\ there = Old /\ gone = {} /\ embedded = {}
  /\ space = "DISCOVERED"
  /\ run = [r \in Runs |-> NewRun]
  /\ queue = [m \in Message |-> 0]
  /\ sent = 0
  /\ key = Free
  /\ faults = {}
  /\ pc = [w \in Workers |-> "idle"]
  /\ message = [w \in Workers |-> NoMessage]
  /\ snap = [w \in Workers |-> NewRun]
  /\ rows = [w \in Workers |-> {}]
  /\ last = [w \in Workers |-> 0]
  /\ cpc = [c \in Clients |-> "idle"]
  /\ crun = [c \in Clients |-> NoRun]
  /\ csnap = [c \in Clients |-> NewRun]

-----------------------------------------------------------------------------
(* Rows, faults and messages.                                              *)

Active(r) == run[r].status \in ActiveStatuses

\* unique_active_vector_migration_space: making r active raises IntegrityError.
ActiveElsewhere(r) == \E q \in Runs \ {r} : Active(q)

SetStatus(r, s) == run' = [run EXCEPT ![r].status = s]

Fault(kind) ==
  /\ kind \in FaultKinds \ faults
  /\ Cardinality(faults) < MaxFaults
  /\ faults' = faults \cup {kind}

Put(m) == queue' = [queue EXCEPT ![m] = @ + 1]

Send(r) ==
  /\ sent < MaxSent
  /\ sent' = sent + 1
  /\ Put([run |-> r, retries |-> 0])

-----------------------------------------------------------------------------
(* Web requests.                                                           *)

Continue(c, at, r, read) ==
  /\ cpc' = [cpc EXCEPT ![c] = at]
  /\ crun' = [crun EXCEPT ![c] = r]
  /\ csnap' = [csnap EXCEPT ![c] = read]

Respond(c) == Continue(c, "idle", NoRun, NewRun)

\* VectorMigrationListView.post: create_migration_run inserts a row ...
Create(c, r) ==
  /\ cpc[c] = "idle"
  /\ run[r].status = "ABSENT"
  /\ ~ActiveElsewhere(r)
  /\ SetStatus(r, "PENDING")
  /\ Continue(c, "publish", r, NewRun)
  /\ UNCHANGED <<paragraphVars, space, brokerVars, key, faults, workerVars>>

\* ... or returns the active run, which is dispatched if no id was stored for it.
CreateExisting(c, r) ==
  /\ cpc[c] = "idle"
  /\ Active(r)
  /\ ~run[r].dispatched
  /\ Continue(c, "publish", r, NewRun)
  /\ UNCHANGED <<paragraphVars, space, run, brokerVars, key, faults, workerVars>>

\* dispatch_migration_run: apply_async ...
Publish(c) ==
  /\ cpc[c] = "publish"
  /\ Send(crun[c])
  /\ Continue(c, "record", crun[c], NewRun)
  /\ UNCHANGED <<paragraphVars, space, run, key, faults, workerVars>>

\* ... and the id of the message is stored.
Record(c) ==
  /\ cpc[c] = "record"
  /\ run' = [run EXCEPT ![crun[c]].dispatched = TRUE]
  /\ Respond(c)
  /\ UNCHANGED <<paragraphVars, space, brokerVars, key, faults, workerVars>>

\* An exception of either call: the run fails, whether the message got out or not.
DispatchFails(c) ==
  /\ cpc[c] \in {"publish", "record"}
  /\ Fault("error")
  /\ SetStatus(crun[c], "FAILURE")
  /\ Respond(c)
  /\ UNCHANGED <<paragraphVars, space, brokerVars, key, workerVars>>

\* VectorMigrationActionView reads the run; retry_migration_run ...
RetryRead(c, r) ==
  /\ cpc[c] = "idle"
  /\ run[r].status \in {"FAILURE", "CANCELLED"}
  /\ Continue(c, "retry", r, run[r])
  /\ UNCHANGED <<paragraphVars, space, run, brokerVars, key, faults, workerVars>>

\* ... looks for another active run ...
RetryCheck(c) ==
  /\ cpc[c] = "retry"
  /\ IF ActiveElsewhere(crun[c]) THEN Respond(c) ELSE Continue(c, "save", crun[c], csnap[c])
  /\ UNCHANGED <<paragraphVars, space, run, brokerVars, key, faults, workerVars>>

\* Fault: a failed run is taken up where it stopped.
RetrySaveKeepsCursor(c) ==
  LET r == crun[c] IN
  /\ cpc[c] = "save"
  /\ ~ActiveElsewhere(r)
  /\ run' = [run EXCEPT ![r] =
               [csnap[c] EXCEPT !.status = "PENDING", !.failed = 0, !.dispatched = run[r].dispatched]]
  /\ Continue(c, "publish", r, NewRun)
  /\ UNCHANGED <<paragraphVars, space, brokerVars, key, faults, workerVars>>

\* ... and saves the row it read: from its cursor if it was cancelled, from the
\* beginning if it had failed.
RetrySave(c) ==
  LET r == crun[c]
      again == IF csnap[c].status = "FAILURE" THEN NewRun ELSE csnap[c] IN
  /\ cpc[c] = "save"
  /\ ~ActiveElsewhere(r)
  /\ run' = [run EXCEPT ![r] =
               [again EXCEPT !.status = "PENDING", !.dispatched = run[r].dispatched]]
  /\ Continue(c, "publish", r, NewRun)
  /\ UNCHANGED <<paragraphVars, space, brokerVars, key, faults, workerVars>>

\* VectorMigrationActionView reads the run; cancel_migration_run saves the request.
CancelRead(c, r) ==
  /\ cpc[c] = "idle"
  /\ run[r].status \in {"PENDING", "RUNNING"}
  /\ Continue(c, "cancel", r, run[r])
  /\ UNCHANGED <<paragraphVars, space, run, brokerVars, key, faults, workerVars>>

CancelSave(c) ==
  /\ cpc[c] = "cancel"
  /\ ~ActiveElsewhere(crun[c])
  /\ SetStatus(crun[c], "CANCEL_REQUESTED")
  /\ Respond(c)
  /\ UNCHANGED <<paragraphVars, space, brokerVars, key, faults, workerVars>>

\* The database rejects the save beside another active run.
RequestAborts(c) ==
  /\ cpc[c] \in {"save", "cancel"}
  /\ ActiveElsewhere(crun[c])
  /\ Respond(c)
  /\ UNCHANGED <<paragraphVars, space, run, brokerVars, key, faults, workerVars>>

-----------------------------------------------------------------------------
(* The Celery task.                                                        *)

Goto(w, at) == pc' = [pc EXCEPT ![w] = at]

RunOf(w) == message[w].run

Fetch(w, m) ==
  /\ pc[w] = "idle"
  /\ queue[m] > 0
  /\ queue' = [queue EXCEPT ![m] = @ - 1]
  /\ message' = [message EXCEPT ![w] = m]
  /\ Goto(w, "acquire")
  /\ UNCHANGED <<paragraphVars, space, run, sent, key, faults, snap, rows, last, clientVars>>

\* Fault: the key is not looked at.
AcquireAnyway(w) ==
  /\ pc[w] = "acquire"
  /\ key' = w
  /\ Goto(w, "read")
  /\ UNCHANGED <<paragraphVars, space, run, brokerVars, faults, message, snap, rows, last, clientVars>>

\* cache.add(lock_key, ..., timeout=120)
Acquire(w) ==
  /\ pc[w] = "acquire"
  /\ key = Free
  /\ key' = w
  /\ Goto(w, "read")
  /\ UNCHANGED <<paragraphVars, space, run, brokerVars, faults, message, snap, rows, last, clientVars>>

\* LOCKED: the message is given up.
Locked(w) ==
  /\ pc[w] = "acquire"
  /\ key # Free
  /\ Goto(w, "ack")
  /\ UNCHANGED <<paragraphVars, space, run, brokerVars, key, faults, message, snap, rows, last, clientVars>>

\* execute_backfill_batch reads the run.
Read(w) ==
  LET s == run[RunOf(w)].status IN
  /\ pc[w] = "read"
  /\ snap' = [snap EXCEPT ![w] = run[RunOf(w)]]
  /\ Goto(w, CASE s \in {"SUCCESS", "CANCELLED"} -> "release"
               [] s = "CANCEL_REQUESTED" -> "cancel"
               [] OTHER -> "start")
  /\ UNCHANGED <<paragraphVars, space, run, brokerVars, key, faults, message, rows, last, clientVars>>

Cancel(w) ==
  /\ pc[w] = "cancel"
  /\ SetStatus(RunOf(w), "CANCELLED")
  /\ Goto(w, "release")
  /\ UNCHANGED <<paragraphVars, space, brokerVars, key, faults, message, snap, rows, last, clientVars>>

\* RUNNING is saved, whatever the status has become.
Start(w) ==
  /\ pc[w] = "start"
  /\ ~ActiveElsewhere(RunOf(w))
  /\ SetStatus(RunOf(w), "RUNNING")
  /\ Goto(w, "rows")
  /\ UNCHANGED <<paragraphVars, space, brokerVars, key, faults, message, snap, rows, last, clientVars>>

StartRejected(w) ==
  /\ pc[w] = "start"
  /\ ActiveElsewhere(RunOf(w))
  /\ Goto(w, "raised")
  /\ UNCHANGED <<paragraphVars, space, run, brokerVars, key, faults, message, snap, rows, last, clientVars>>

\* eligible_legacy_paragraphs(...).filter(id__gt=run.cursor_id)
Candidates(w) == {p \in there : p > snap[w].cursor}

UpTo(w, p) == {q \in Candidates(w) : q <= p}

\* .order_by("id")[: run.batch_size]; the batch ends at `end`.
ReadRows(w) ==
  \E end \in Candidates(w) :
    /\ pc[w] = "rows"
    /\ \/ Cardinality(UpTo(w, end)) = BatchSize
       \/ Cardinality(UpTo(w, end)) < BatchSize /\ UpTo(w, end) = Candidates(w)
    /\ rows' = [rows EXCEPT ![w] = UpTo(w, end)]
    /\ last' = [last EXCEPT ![w] = end]
    /\ Goto(w, "batch")
    /\ UNCHANGED <<paragraphVars, space, run, brokerVars, key, faults, message, snap, clientVars>>

\* Fault: the run is closed and the space is left alone.
NoRowsLeavesSpace(w) ==
  /\ pc[w] = "rows"
  /\ Candidates(w) = {}
  /\ Goto(w, "closeRun")
  /\ UNCHANGED <<paragraphVars, space, run, brokerVars, key, faults, message, snap, rows, last, clientVars>>

\* if not rows
NoRows(w) ==
  /\ pc[w] = "rows"
  /\ Candidates(w) = {}
  /\ Goto(w, "refresh")
  /\ UNCHANGED <<paragraphVars, space, run, brokerVars, key, faults, message, snap, rows, last, clientVars>>

\* Fault: the batch that was read is stored only in part.
BatchStoresPart(w) ==
  /\ pc[w] = "batch"
  /\ rows[w] \ Invalid \subseteq there
  /\ embedded' = embedded \cup (rows[w] \ (Invalid \cup {last[w]}))
  /\ run' = [run EXCEPT ![RunOf(w)].cursor = last[w],
                        ![RunOf(w)].done = snap[w].done + Cardinality(rows[w] \ Invalid),
                        ![RunOf(w)].failed = snap[w].failed + Cardinality(rows[w] \cap Invalid)]
  /\ Goto(w, "publish")
  /\ UNCHANGED <<there, gone, space, brokerVars, key, faults, message, snap, rows, last, clientVars>>

\* The transaction of a batch: the valid vectors are inserted or updated, and
\* the cursor and the counters are set from what was read at the start.
Batch(w) ==
  /\ pc[w] = "batch"
  /\ rows[w] \ Invalid \subseteq there
  /\ embedded' = embedded \cup (rows[w] \ Invalid)
  /\ run' = [run EXCEPT ![RunOf(w)].cursor = last[w],
                        ![RunOf(w)].done = snap[w].done + Cardinality(rows[w] \ Invalid),
                        ![RunOf(w)].failed = snap[w].failed + Cardinality(rows[w] \cap Invalid)]
  /\ Goto(w, "publish")
  /\ UNCHANGED <<there, gone, space, brokerVars, key, faults, message, snap, rows, last, clientVars>>

\* A paragraph of the batch was deleted meanwhile: its foreign key fails.
BatchRejected(w) ==
  /\ pc[w] = "batch"
  /\ ~(rows[w] \ Invalid \subseteq there)
  /\ Goto(w, "raised")
  /\ UNCHANGED <<paragraphVars, space, run, brokerVars, key, faults, message, snap, rows, last, clientVars>>

\* run.refresh_from_db()
Refresh(w) ==
  /\ pc[w] = "refresh"
  /\ snap' = [snap EXCEPT ![w] = run[RunOf(w)]]
  /\ Goto(w, "closeSpace")
  /\ UNCHANGED <<paragraphVars, space, run, brokerVars, key, faults, message, rows, last, clientVars>>

CloseSpace(w) ==
  /\ pc[w] = "closeSpace"
  /\ space' = IF snap[w].failed > 0 THEN "DEGRADED" ELSE "READY"
  /\ Goto(w, "closeRun")
  /\ UNCHANGED <<paragraphVars, run, brokerVars, key, faults, message, snap, rows, last, clientVars>>

CloseRun(w) ==
  /\ pc[w] = "closeRun"
  /\ SetStatus(RunOf(w), IF snap[w].failed > 0 THEN "FAILURE" ELSE "SUCCESS")
  /\ Goto(w, "release")
  /\ UNCHANGED <<paragraphVars, space, brokerVars, key, faults, message, snap, rows, last, clientVars>>

\* self.apply_async: the continuation is published while the key is still held.
PublishNext(w) ==
  /\ pc[w] = "publish"
  /\ Send(RunOf(w))
  /\ Goto(w, "release")
  /\ UNCHANGED <<paragraphVars, space, run, key, faults, message, snap, rows, last, clientVars>>

\* The database or the broker raises an exception.
Raise(w) ==
  /\ pc[w] \in LockedPc \ {"raised", "release"}
  /\ Fault("error")
  /\ Goto(w, "raised")
  /\ UNCHANGED <<paragraphVars, space, run, brokerVars, key, message, snap, rows, last, clientVars>>

\* self.retry publishes the message again ...
RetryTask(w) ==
  LET m == message[w] IN
  /\ pc[w] = "raised"
  /\ m.retries < MaxRetries
  /\ Put([m EXCEPT !.retries = @ + 1])
  /\ Goto(w, "release")
  /\ UNCHANGED <<paragraphVars, space, run, sent, key, faults, message, snap, rows, last, clientVars>>

\* ... or the broker refuses it ...
RetryLost(w) ==
  /\ pc[w] = "raised"
  /\ message[w].retries < MaxRetries
  /\ Fault("error")
  /\ Goto(w, "release")
  /\ UNCHANGED <<paragraphVars, space, run, brokerVars, key, message, snap, rows, last, clientVars>>

\* ... or no retry is left.
FailRun(w) ==
  /\ pc[w] = "raised"
  /\ message[w].retries = MaxRetries
  /\ SetStatus(RunOf(w), "FAILURE")
  /\ Goto(w, "release")
  /\ UNCHANGED <<paragraphVars, space, brokerVars, key, faults, message, snap, rows, last, clientVars>>

\* finally: cache.delete(lock_key), whoever has added it.
Release(w) ==
  /\ pc[w] = "release"
  /\ key' = Free
  /\ Goto(w, "ack")
  /\ UNCHANGED <<paragraphVars, space, run, brokerVars, faults, message, snap, rows, last, clientVars>>

Idle(w) ==
  /\ Goto(w, "idle")
  /\ message' = [message EXCEPT ![w] = NoMessage]
  /\ snap' = [snap EXCEPT ![w] = NewRun]
  /\ rows' = [rows EXCEPT ![w] = {}]
  /\ last' = [last EXCEPT ![w] = 0]

Ack(w) ==
  /\ pc[w] = "ack"
  /\ Idle(w)
  /\ UNCHANGED <<paragraphVars, space, run, brokerVars, key, faults, clientVars>>

\* acks_late and reject_on_worker_lost: the message is delivered again.
WorkerLost(w) ==
  /\ pc[w] # "idle"
  /\ Fault("crash")
  /\ Put(message[w])
  /\ Idle(w)
  /\ UNCHANGED <<paragraphVars, space, run, sent, key, clientVars>>

\* The key of a dead worker expires.
KeyExpires ==
  /\ key # Free
  /\ pc[key] \notin LockedPc
  /\ key' = Free
  /\ UNCHANGED <<paragraphVars, space, run, brokerVars, faults, workerVars, clientVars>>

\* A batch takes longer than the 120 seconds of its key: the task has no time limit.
KeyExpiresEarly ==
  /\ key # Free
  /\ pc[key] \in LockedPc
  /\ Fault("slow")
  /\ key' = Free
  /\ UNCHANGED <<paragraphVars, space, run, brokerVars, workerVars, clientVars>>

-----------------------------------------------------------------------------
(* The document pipeline, with VECTOR_WRITE_MODE DUAL.                     *)

\* Fault: new chunks get no vector in the space.
InsertLegacyOnly(p) ==
  /\ p \notin there \cup gone
  /\ there' = there \cup {p}
  /\ space' = "READY"
  /\ UNCHANGED <<gone, embedded, run, brokerVars, key, faults, workerVars, clientVars>>

\* process_document stores a chunk and, through bulk_write_paragraph_embeddings,
\* its vector. Ids are drawn before the commit, so any unused id may appear.
InsertParagraph(p) ==
  /\ p \notin there \cup gone
  /\ there' = there \cup {p}
  /\ embedded' = embedded \cup {p}
  /\ space' = "READY"
  /\ UNCHANGED <<gone, run, brokerVars, key, faults, workerVars, clientVars>>

\* A document is deleted or processed again.
DeleteParagraph(p) ==
  /\ p \in there
  /\ there' = there \ {p}
  /\ gone' = gone \cup {p}
  /\ embedded' = embedded \ {p}
  /\ UNCHANGED <<space, run, brokerVars, key, faults, workerVars, clientVars>>

-----------------------------------------------------------------------------

ClientStep(c) ==
  \/ \E r \in Runs : Create(c, r) \/ CreateExisting(c, r) \/ RetryRead(c, r) \/ CancelRead(c, r)
  \/ Publish(c) \/ Record(c) \/ DispatchFails(c)
  \/ RetryCheck(c) \/ RetrySave(c) \/ CancelSave(c) \/ RequestAborts(c)

Work(w) ==
  \/ Acquire(w) \/ Locked(w) \/ Read(w) \/ Cancel(w) \/ Start(w) \/ StartRejected(w)
  \/ ReadRows(w) \/ NoRows(w) \/ Batch(w) \/ BatchRejected(w)
  \/ Refresh(w) \/ CloseSpace(w) \/ CloseRun(w) \/ PublishNext(w)
  \/ RetryTask(w) \/ FailRun(w) \/ Release(w) \/ Ack(w)

Deliver(w) == \E m \in Message : Fetch(w, m)

Next ==
  \/ \E c \in Clients : ClientStep(c)
  \/ \E w \in Workers : Deliver(w) \/ Work(w) \/ Raise(w) \/ RetryLost(w) \/ WorkerLost(w)
  \/ KeyExpires \/ KeyExpiresEarly
  \/ \E p \in Ids : InsertParagraph(p) \/ DeleteParagraph(p)

\* Workers fetch and work, and a request that has begun ends.
Fairness ==
  /\ \A w \in Workers : WF_vars(Deliver(w)) /\ WF_vars(Work(w))
  /\ \A c \in Clients : WF_vars(cpc[c] # "idle" /\ ClientStep(c))
  /\ WF_vars(KeyExpires)

Spec == Init /\ [][Next]_vars

FairSpec == Spec /\ Fairness

-----------------------------------------------------------------------------
(* Properties.                                                             *)

\* At most one run of the space is PENDING, RUNNING or CANCEL_REQUESTED,
\* although retries, cancellations and workers save rows they read earlier.
OneActiveRun == \A r, q \in Runs : Active(r) /\ Active(q) => r = q

\* Every paragraph that has a usable vector and is not past the cursor `c` has
\* been copied.
CoveredTo(c) == \A p \in there \ Invalid : p <= c => p \in embedded

\* A run that becomes SUCCESS leaves no usable legacy vector behind, through
\* repeated messages, crashes, expired keys, concurrent batches, and chunks
\* that come and go: whoever reads pgvector afterwards finds every chunk.
SuccessIsComplete ==
  [][\A r \in Runs :
       run[r].status # "SUCCESS" /\ run'[r].status = "SUCCESS" => there \ Invalid \subseteq embedded]_vars

\* Two batches of the space never run at once, although workers die, requests
\* publish a run again and Celery retries it, unless one was slower than its key.
BatchesExclude ==
  "slow" \notin faults =>
    \A v, w \in Workers : pc[v] \in LockedPc /\ pc[w] \in LockedPc => v = w

\* What excludes them: a batch that works holds the key.
WorkingHoldsKey ==
  "slow" \notin faults => \A w \in Workers : pc[w] \in LockedPc => key = w

\* A run becomes SUCCESS only when its space has been made READY for queries,
\* whatever else reads and writes both rows, unless a batch was slower than its
\* key: then a worker that counted failures may close the space after another
\* that counted none.
SuccessMeansReady ==
  [][\A r \in Runs :
       "slow" \notin faults /\ run[r].status # "SUCCESS" /\ run'[r].status = "SUCCESS" =>
         space = "READY"]_vars

\* The counters of a run count each row up to its cursor at most once, and
\* every unusable vector that is still there, although batches run twice and
\* retries restore counters they read before: progress and failures are real.
Past(S, cursor) == {p \in S : p <= cursor}

Counted(read) ==
  /\ read.done + read.failed <= Cardinality(Past(there \cup gone, read.cursor))
  /\ read.failed >= Cardinality(Past(there \cap Invalid, read.cursor))

CountersMatchCursor == \A r \in Runs : Counted(run[r])

-----------------------------------------------------------------------------
(* The inductive invariant.                                                *)

\* Vectors belong to paragraphs that are there.
EmbeddedAreThere == embedded \subseteq there /\ there \cap gone = {}

\* No stored cursor is past a paragraph that was not copied, and neither is a
\* cursor that a worker or a request has read and may still save.
CursorsAreCovered ==
  /\ \A r \in Runs : CoveredTo(run[r].cursor)
  /\ \A w \in Workers : CoveredTo(snap[w].cursor)
  /\ \A c \in Clients : CoveredTo(csnap[c].cursor)

\* A batch leaves no gap between the cursor it was read from and its end, and a
\* worker that found no rows has nothing left to copy.
BatchesAreWhole ==
  \A w \in Workers :
    /\ pc[w] = "batch" =>
         \A p \in there \ Invalid : p <= last[w] => p \in embedded \/ p \in rows[w]
    /\ pc[w] \in {"refresh", "closeSpace", "closeRun"} => there \ Invalid \subseteq embedded

\* A batch in hand is made of rows between the cursor it was read from and its
\* end, and of all the unusable vectors there that are still there: no chunk
\* that comes later has one.
BatchesAreExact ==
  \A w \in Workers :
    pc[w] = "batch" =>
      /\ snap[w].cursor <= last[w]
      /\ \A p \in rows[w] : p \in there \cup gone /\ snap[w].cursor < p /\ p <= last[w]
      /\ \A p \in there \cap Invalid : snap[w].cursor < p /\ p <= last[w] => p \in rows[w]

OldAreKnown == Old \subseteq there \cup gone

\* What a worker or a request has read, and may still save, is counted as well.
CopiesAreCounted ==
  /\ \A w \in Workers : Counted(snap[w])
  /\ \A c \in Clients : Counted(csnap[c])

\* Between the two saves of its end a run is alone with the space.
ClosingIsReady ==
  "slow" \notin faults =>
    \A w \in Workers : pc[w] = "closeRun" /\ snap[w].failed = 0 => space = "READY"

IInv ==
  /\ TypeOK
  /\ OneActiveRun
  /\ EmbeddedAreThere
  /\ CursorsAreCovered
  /\ BatchesAreWhole
  /\ WorkingHoldsKey
  /\ OldAreKnown
  /\ CountersMatchCursor
  /\ CopiesAreCounted
  /\ BatchesAreExact
  /\ ClosingIsReady

-----------------------------------------------------------------------------
(* Statements of the repository that the code does not keep.               *)

\* "通过 Redis 锁避免同一空间并发执行" (docs/vector-storage.md) is BatchesExclude
\* for batches of any length.

\* "支持中断恢复" (docs/vector-storage.md): a run does not stay RUNNING for ever.
\* (Beyond the bound on messages the model says nothing.)
RunningEnds ==
  \A r \in Runs : run[r].status = "RUNNING" ~> run[r].status # "RUNNING" \/ sent = MaxSent

=============================================================================
