----------------------- MODULE VectorMigration_proofs ------------------------
(***************************************************************************)
(* A run of VectorMigration that becomes SUCCESS has copied every usable   *)
(* legacy vector, for any number of paragraphs, runs, workers and requests *)
(* and whatever faults happen.  The invariant behind it says that no       *)
(* cursor - stored, or read and not yet used - is ahead of the vectors.    *)
(***************************************************************************)
EXTENDS VectorMigration, FiniteSetTheorems, TLAPS

USE IdsAssumption, ParagraphsAssumption, MigrationBoundsAssumption, MigrationNullAssumption

-----------------------------------------------------------------------------
(* Types.                                                                  *)

LEMMA NewRunType == NewRun \in Run
  BY DEF NewRun, Run, RunStatus, ActiveStatuses, Cursors

\* The number of rows of a batch is a number.
LEMMA RowCountType ==
  ASSUME NEW S \in SUBSET Ids PROVE Cardinality(S) \in Nat
  BY FS_Subset, FS_CardinalityType

LEMMA SetStatusType ==
  ASSUME TypeOK, NEW r \in Runs, NEW s \in RunStatus, SetStatus(r, s)
  PROVE  run' \in [Runs -> Run]
  BY DEF TypeOK, SetStatus, Run

LEMMA PutType ==
  ASSUME TypeOK, NEW m \in Message, Put(m)
  PROVE  queue' \in [Message -> Nat]
  BY DEF TypeOK, Put

LEMMA SendType ==
  ASSUME TypeOK, NEW r \in Runs, Send(r)
  PROVE  queue' \in [Message -> Nat] /\ sent' \in 0..MaxSent
<1>1. [run |-> r, retries |-> 0] \in Message
  BY DEF Message
<1>2. queue' \in [Message -> Nat]
  BY <1>1, PutType DEF Send
<1> QED
  BY <1>2 DEF Send, TypeOK

LEMMA FaultType ==
  ASSUME TypeOK, NEW kind, Fault(kind) PROVE faults' \subseteq FaultKinds
  BY DEF TypeOK, Fault

LEMMA ContinueType ==
  ASSUME TypeOK, NEW c \in Clients, NEW at \in ClientPc, NEW r \in Runs \cup {NoRun},
         NEW read \in Run, at # "idle" => r \in Runs, Continue(c, at, r, read)
  PROVE  /\ cpc' \in [Clients -> ClientPc]
         /\ crun' \in [Clients -> Runs \cup {NoRun}]
         /\ \A k \in Clients : cpc'[k] # "idle" => crun'[k] \in Runs
         /\ csnap' \in [Clients -> Run]
  BY DEF TypeOK, Continue

LEMMA RespondType ==
  ASSUME TypeOK, NEW c \in Clients, Respond(c)
  PROVE  /\ cpc' \in [Clients -> ClientPc]
         /\ crun' \in [Clients -> Runs \cup {NoRun}]
         /\ \A k \in Clients : cpc'[k] # "idle" => crun'[k] \in Runs
         /\ csnap' \in [Clients -> Run]
  BY ContinueType, NewRunType DEF Respond, ClientPc

LEMMA GotoType ==
  ASSUME TypeOK, NEW w \in Workers, NEW at \in WorkerPc, Goto(w, at), UNCHANGED message, pc[w] # "idle"
  PROVE  /\ pc' \in [Workers -> WorkerPc]
         /\ \A v \in Workers : pc'[v] # "idle" => message'[v] \in Message
  BY DEF TypeOK, Goto

LEMMA IdleType ==
  ASSUME TypeOK, NEW w \in Workers, Idle(w)
  PROVE  /\ pc' \in [Workers -> WorkerPc]
         /\ message' \in [Workers -> Message \cup {NoMessage}]
         /\ \A v \in Workers : pc'[v] # "idle" => message'[v] \in Message
         /\ snap' \in [Workers -> Run]
         /\ rows' \in [Workers -> SUBSET Ids]
         /\ last' \in [Workers -> Cursors]
  BY NewRunType DEF TypeOK, Idle, Goto, WorkerPc, Cursors

LEMMA ClientStepType ==
  ASSUME TypeOK, NEW c \in Clients, ClientStep(c) PROVE TypeOK'
<1> USE DEF paragraphVars, brokerVars, workerVars
<1>1. {"PENDING", "FAILURE", "CANCEL_REQUESTED"} \subseteq RunStatus
  BY DEF RunStatus, ActiveStatuses
<1>2. ClientPc = {"idle", "publish", "record", "retry", "save", "cancel"}
  BY DEF ClientPc
<1>3. cpc[c] # "idle" => crun[c] \in Runs
  BY DEF TypeOK
<1>4. ASSUME UNCHANGED <<paragraphVars, space, key, workerVars>>,
             run' \in [Runs -> Run],
             queue' \in [Message -> Nat], sent' \in 0..MaxSent, faults' \subseteq FaultKinds,
             cpc' \in [Clients -> ClientPc], crun' \in [Clients -> Runs \cup {NoRun}],
             \A k \in Clients : cpc'[k] # "idle" => crun'[k] \in Runs,
             csnap' \in [Clients -> Run]
      PROVE  TypeOK'
  BY <1>4 DEF TypeOK
<1>5. queue \in [Message -> Nat] /\ sent \in 0..MaxSent /\ faults \subseteq FaultKinds
  BY DEF TypeOK
<1>6. run \in [Runs -> Run] /\ csnap \in [Clients -> Run]
  BY DEF TypeOK
<1>7. ASSUME NEW r \in Runs, Create(c, r) PROVE TypeOK'
  BY <1>1, <1>2, <1>4, <1>5, <1>7, SetStatusType, ContinueType, NewRunType DEF Create
<1>8. ASSUME NEW r \in Runs, CreateExisting(c, r) PROVE TypeOK'
  BY <1>2, <1>4, <1>5, <1>6, <1>8, ContinueType, NewRunType DEF CreateExisting
<1>9. CASE Publish(c)
  BY <1>2, <1>3, <1>4, <1>5, <1>6, <1>9, SendType, ContinueType, NewRunType DEF Publish
<1>10. CASE Record(c)
  <2>1. run' \in [Runs -> Run]
    BY <1>3, <1>6, <1>10 DEF Record, Run
  <2> QED
    BY <1>4, <1>5, <1>10, <2>1, RespondType DEF Record
<1>11. CASE DispatchFails(c)
  BY <1>1, <1>3, <1>4, <1>5, <1>11, SetStatusType, FaultType, RespondType DEF DispatchFails
<1>12. ASSUME NEW r \in Runs, RetryRead(c, r) \/ CancelRead(c, r) PROVE TypeOK'
  BY <1>2, <1>4, <1>5, <1>6, <1>12, ContinueType DEF RetryRead, CancelRead
<1>13. CASE RetryCheck(c)
  BY <1>2, <1>3, <1>4, <1>5, <1>6, <1>13, ContinueType, RespondType DEF RetryCheck
<1>14. CASE RetrySave(c)
  <2>1. run' \in [Runs -> Run]
    BY <1>1, <1>3, <1>6, <1>14, NewRunType DEF RetrySave, Run
  <2> QED
    BY <1>2, <1>3, <1>4, <1>5, <1>14, <2>1, ContinueType, NewRunType DEF RetrySave
<1>15. CASE CancelSave(c)
  BY <1>1, <1>3, <1>4, <1>5, <1>15, SetStatusType, RespondType DEF CancelSave
<1>16. CASE RequestAborts(c)
  BY <1>4, <1>5, <1>6, <1>16, RespondType DEF RequestAborts
<1> QED
  BY <1>7, <1>8, <1>9, <1>10, <1>11, <1>12, <1>13, <1>14, <1>15, <1>16 DEF ClientStep

LEMMA WorkType ==
  ASSUME TypeOK, NEW w \in Workers, Work(w) PROVE TypeOK'
<1> USE DEF paragraphVars, brokerVars, clientVars
<1>1. {"CANCELLED", "RUNNING", "FAILURE", "SUCCESS"} \subseteq RunStatus
  BY DEF RunStatus, ActiveStatuses
<1>2. WorkerPc = {"idle", "acquire", "ack", "read", "cancel", "start", "rows", "batch", "refresh",
                  "closeSpace", "closeRun", "publish", "raised", "release"}
  BY DEF WorkerPc, LockedPc
<1>3. pc[w] # "idle" /\ message[w] \in Message /\ RunOf(w) \in Runs
  <2>1. pc[w] # "idle"
    BY DEF Work, Acquire, Locked, Read, Cancel, Start, StartRejected, ReadRows, NoRows, Batch,
           BatchRejected, Refresh, CloseSpace, CloseRun, PublishNext, RetryTask, FailRun, Release, Ack
  <2> QED
    BY <2>1 DEF TypeOK, RunOf, Message
<1>4. ASSUME UNCHANGED <<there, gone, faults, clientVars>>,
             embedded' \subseteq Ids, space' \in {"DISCOVERED", "READY", "DEGRADED"},
             run' \in [Runs -> Run], key' \in Workers \cup {Free},
             queue' \in [Message -> Nat], sent' \in 0..MaxSent,
             pc' \in [Workers -> WorkerPc],
             message' \in [Workers -> Message \cup {NoMessage}],
             \A v \in Workers : pc'[v] # "idle" => message'[v] \in Message,
             snap' \in [Workers -> Run], rows' \in [Workers -> SUBSET Ids],
             last' \in [Workers -> Cursors]
      PROVE  TypeOK'
  BY <1>4 DEF TypeOK
<1>5. /\ embedded \subseteq Ids /\ space \in {"DISCOVERED", "READY", "DEGRADED"}
      /\ run \in [Runs -> Run] /\ key \in Workers \cup {Free}
      /\ queue \in [Message -> Nat] /\ sent \in 0..MaxSent
  BY DEF TypeOK
<1>6. /\ message \in [Workers -> Message \cup {NoMessage}] /\ snap \in [Workers -> Run]
      /\ rows \in [Workers -> SUBSET Ids] /\ last \in [Workers -> Cursors]
  BY DEF TypeOK
<1>7. CASE Acquire(w) \/ Locked(w) \/ StartRejected(w) \/ NoRows(w) \/ BatchRejected(w) \/ Release(w)
  BY <1>2, <1>3, <1>4, <1>5, <1>6, <1>7, GotoType
     DEF Acquire, Locked, StartRejected, NoRows, BatchRejected, Release
<1>8. CASE Read(w) \/ Refresh(w)
  <2>1. snap' \in [Workers -> Run]
    BY <1>3, <1>5, <1>6, <1>8 DEF Read, Refresh
  <2>2. \E at \in WorkerPc : Goto(w, at)
    BY <1>2, <1>8 DEF Read, Refresh
  <2> QED
    BY <1>3, <1>4, <1>5, <1>6, <1>8, <2>1, <2>2, GotoType DEF Read, Refresh
<1>9. CASE Cancel(w) \/ Start(w) \/ FailRun(w)
  BY <1>1, <1>2, <1>3, <1>4, <1>5, <1>6, <1>9, SetStatusType, GotoType DEF Cancel, Start, FailRun
<1>10. CASE CloseRun(w)
  <2>1. run' \in [Runs -> Run]
    BY <1>1, <1>3, <1>10, SetStatusType DEF CloseRun
  <2> QED
    BY <1>2, <1>3, <1>4, <1>5, <1>6, <1>10, <2>1, GotoType DEF CloseRun
<1>11. CASE CloseSpace(w)
  BY <1>2, <1>3, <1>4, <1>5, <1>6, <1>11, GotoType DEF CloseSpace
<1>12. CASE ReadRows(w)
  <2>0. PICK end \in Candidates(w) :
          rows' = [rows EXCEPT ![w] = UpTo(w, end)] /\ last' = [last EXCEPT ![w] = end]
    BY <1>12 DEF ReadRows
  <2>1. UpTo(w, end) \in SUBSET Ids /\ end \in Cursors
    BY DEF UpTo, Candidates, Cursors, TypeOK
  <2>2. rows' \in [Workers -> SUBSET Ids] /\ last' \in [Workers -> Cursors]
    BY <1>6, <2>0, <2>1
  <2> QED
    BY <1>2, <1>3, <1>4, <1>5, <1>6, <1>12, <2>2, GotoType DEF ReadRows
<1>13. CASE Batch(w)
  <2>1. Cardinality(rows[w] \ Invalid) \in Nat /\ Cardinality(rows[w] \cap Invalid) \in Nat
    BY <1>6, RowCountType
  <2>2. snap[w] \in Run /\ last[w] \in Cursors
    BY <1>6
  <2>3. snap[w].done \in Nat /\ snap[w].failed \in Nat
    BY <2>2 DEF Run
  <2>4. /\ snap[w].done + Cardinality(rows[w] \ Invalid) \in Nat
        /\ snap[w].failed + Cardinality(rows[w] \cap Invalid) \in Nat
    BY <2>1, <2>3
  <2>5. run' \in [Runs -> Run]
    BY <1>3, <1>5, <1>13, <2>2, <2>4 DEF Batch, Run
  <2>6. embedded' \subseteq Ids
    BY <1>5, <1>6, <1>13 DEF Batch
  <2> QED
    BY <1>2, <1>3, <1>4, <1>5, <1>6, <1>13, <2>5, <2>6, GotoType DEF Batch
<1>14. CASE PublishNext(w)
  BY <1>2, <1>3, <1>4, <1>5, <1>6, <1>14, SendType, GotoType DEF PublishNext
<1>15. CASE RetryTask(w)
  <2>1. [message[w] EXCEPT !.retries = message[w].retries + 1] \in Message
    BY <1>3, <1>15 DEF RetryTask, Message
  <2>2. queue' \in [Message -> Nat]
    BY <1>15, <2>1, PutType DEF RetryTask
  <2> QED
    BY <1>2, <1>3, <1>4, <1>5, <1>6, <1>15, <2>2, GotoType DEF RetryTask
<1>16. CASE Ack(w)
  BY <1>4, <1>5, <1>16, IdleType DEF Ack
<1> QED
  BY <1>7, <1>8, <1>9, <1>10, <1>11, <1>12, <1>13, <1>14, <1>15, <1>16 DEF Work

\* Deliveries, faults, and the chunks of other documents.
LEMMA OtherType ==
  ASSUME TypeOK,
         \/ \E w \in Workers : Deliver(w) \/ Raise(w) \/ RetryLost(w) \/ WorkerLost(w)
         \/ KeyExpires \/ KeyExpiresEarly
         \/ \E p \in Ids : InsertParagraph(p) \/ DeleteParagraph(p)
  PROVE  TypeOK'
<1> USE DEF paragraphVars, brokerVars, clientVars, workerVars
<1>1. {"raised", "release", "acquire"} \subseteq WorkerPc
  BY DEF WorkerPc, LockedPc
<1>2. ASSUME NEW w \in Workers, NEW m \in Message, Fetch(w, m) PROVE TypeOK'
  BY <1>1, <1>2 DEF Fetch, Goto, TypeOK
<1>3. ASSUME NEW w \in Workers, Raise(w) \/ RetryLost(w) PROVE TypeOK'
  <2>1. pc[w] # "idle"
    BY <1>3 DEF Raise, RetryLost, LockedPc
  <2>2. \E at \in WorkerPc : Goto(w, at)
    BY <1>1, <1>3 DEF Raise, RetryLost
  <2>3. faults' \subseteq FaultKinds
    BY <1>3, FaultType DEF Raise, RetryLost
  <2> QED
    BY <1>3, <2>1, <2>2, <2>3, GotoType DEF Raise, RetryLost, TypeOK
<1>4. ASSUME NEW w \in Workers, WorkerLost(w) PROVE TypeOK'
  <2>1. queue' \in [Message -> Nat]
    BY <1>4, PutType DEF WorkerLost, TypeOK
  <2>2. faults' \subseteq FaultKinds
    BY <1>4, FaultType DEF WorkerLost
  <2> QED
    BY <1>4, <2>1, <2>2, IdleType DEF WorkerLost, TypeOK
<1>5. CASE KeyExpires \/ KeyExpiresEarly
  BY <1>5, FaultType DEF KeyExpires, KeyExpiresEarly, TypeOK
<1>6. ASSUME NEW p \in Ids, InsertParagraph(p) \/ DeleteParagraph(p) PROVE TypeOK'
  BY <1>6 DEF InsertParagraph, DeleteParagraph, TypeOK
<1> QED
  BY <1>2, <1>3, <1>4, <1>5, <1>6 DEF Deliver

LEMMA TypeStep == TypeOK /\ [Next]_vars => TypeOK'
<1> SUFFICES ASSUME TypeOK, [Next]_vars PROVE TypeOK'
  OBVIOUS
<1>1. CASE UNCHANGED vars
  BY <1>1 DEF vars, paragraphVars, brokerVars, workerVars, clientVars, TypeOK
<1>2. CASE Next
  BY <1>2, ClientStepType, WorkType, OtherType DEF Next
<1> QED
  BY <1>1, <1>2

-----------------------------------------------------------------------------
(* The other parts of the invariant.                                       *)

\* OneActiveRun, the part the database constraint is for.
LEMMA OneActiveStep == TypeOK /\ OneActiveRun /\ [Next]_vars => OneActiveRun'
<1> SUFFICES ASSUME TypeOK, OneActiveRun, [Next]_vars PROVE OneActiveRun'
  OBVIOUS
<1>1. ASSUME NEW r \in Runs, \A q \in Runs \ {r} : run'[q].status = run[q].status,
             run'[r].status = run[r].status \/ run'[r].status \notin ActiveStatuses \/ ~ActiveElsewhere(r)
      PROVE  OneActiveRun'
  BY <1>1 DEF OneActiveRun, Active, ActiveElsewhere
<1>2. CASE UNCHANGED run
  BY <1>2 DEF OneActiveRun, Active
<1>3. ASSUME NEW r \in Runs, NEW s, SetStatus(r, s), s \notin ActiveStatuses \/ ~ActiveElsewhere(r)
      PROVE  OneActiveRun'
  <2>1. run'[r].status = s /\ \A q \in Runs \ {r} : run'[q].status = run[q].status
    BY <1>3 DEF SetStatus, TypeOK, Run
  <2> QED
    BY <1>1, <1>3, <2>1
<1>4. ASSUME NEW c \in Clients, ClientStep(c) PROVE OneActiveRun'
  <2>1. cpc[c] # "idle" => crun[c] \in Runs
    BY DEF TypeOK
  <2>2. ASSUME NEW r \in Runs, Create(c, r) PROVE OneActiveRun'
    BY <1>3, <2>2 DEF Create
  <2>3. CASE DispatchFails(c)
    BY <1>3, <2>1, <2>3 DEF DispatchFails, ActiveStatuses
  <2>4. CASE RetrySave(c)
    <3>1. \A q \in Runs \ {crun[c]} : run'[q] = run[q]
      BY <2>1, <2>4 DEF RetrySave, TypeOK
    <3> QED
      BY <1>1, <2>1, <2>4, <3>1 DEF RetrySave
  <2>5. CASE CancelSave(c)
    BY <1>3, <2>1, <2>5 DEF CancelSave
  <2>6. CASE Record(c)
    <3>1. crun[c] \in Runs /\ \A q \in Runs : run'[q].status = run[q].status
      BY <2>1, <2>6 DEF Record, TypeOK, Run
    <3> QED
      BY <1>1, <3>1
  <2> QED
    BY <1>2, <1>4, <2>2, <2>3, <2>4, <2>5, <2>6
       DEF ClientStep, CreateExisting, RetryRead, CancelRead, Publish, RetryCheck, RequestAborts
<1>5. ASSUME NEW w \in Workers, Work(w) PROVE OneActiveRun'
  <2>1. pc[w] # "idle" => RunOf(w) \in Runs
    BY DEF TypeOK, RunOf, Message
  <2>2. CASE Cancel(w) \/ FailRun(w)
    BY <1>3, <2>1, <2>2 DEF Cancel, FailRun, ActiveStatuses
  <2>3. CASE Start(w)
    BY <1>3, <2>1, <2>3 DEF Start
  <2>4. CASE CloseRun(w)
    <3>1. PICK s \in {"FAILURE", "SUCCESS"} : SetStatus(RunOf(w), s)
      BY <2>4 DEF CloseRun
    <3> QED
      BY <1>3, <2>1, <2>4, <3>1 DEF CloseRun, ActiveStatuses
  <2>5. CASE Batch(w)
    <3>1. RunOf(w) \in Runs /\ \A q \in Runs : run'[q].status = run[q].status
      BY <2>1, <2>5 DEF Batch, TypeOK, Run
    <3> QED
      BY <1>1, <3>1
  <2> QED
    BY <1>2, <1>5, <2>2, <2>3, <2>4, <2>5
       DEF Work, Acquire, Locked, Read, StartRejected, ReadRows, NoRows, BatchRejected, Refresh,
           CloseSpace, PublishNext, RetryTask, Release, Ack
<1>6. CASE UNCHANGED vars
  BY <1>2, <1>6 DEF vars
<1> QED
  BY <1>2, <1>4, <1>5, <1>6
     DEF Next, Deliver, Fetch, Raise, RetryLost, WorkerLost, KeyExpires, KeyExpiresEarly,
         InsertParagraph, DeleteParagraph

\* No step uncovers a paragraph: new ones come with their vector.
LEMMA CoverageGrows ==
  ASSUME TypeOK, EmbeddedAreThere, [Next]_vars
  PROVE  \A p \in there' \ Invalid : p \notin embedded' => p \in there /\ p \notin embedded
<1> USE DEF vars, paragraphVars
<1>1. CASE UNCHANGED <<there, embedded>>
  BY <1>1
<1>2. ASSUME NEW w \in Workers, Batch(w)
      PROVE  \A p \in there' \ Invalid : p \notin embedded' => p \in there /\ p \notin embedded
  BY <1>2 DEF Batch
<1>3. ASSUME NEW q \in Ids, InsertParagraph(q) \/ DeleteParagraph(q)
      PROVE  \A p \in there' \ Invalid : p \notin embedded' => p \in there /\ p \notin embedded
  BY <1>3 DEF InsertParagraph, DeleteParagraph
<1> QED
  BY <1>1, <1>2, <1>3
     DEF Next, ClientStep, Create, CreateExisting, Publish, Record, DispatchFails, RetryRead,
         RetryCheck, RetrySave, CancelRead, CancelSave, RequestAborts, Deliver, Fetch, Work,
         Acquire, Locked, Read, Cancel, Start, StartRejected, ReadRows, NoRows, BatchRejected,
         Refresh, CloseSpace, CloseRun, PublishNext, Raise, RetryTask, RetryLost, FailRun,
         Release, Ack, WorkerLost, KeyExpires, KeyExpiresEarly

LEMMA StaysCovered ==
  ASSUME TypeOK, EmbeddedAreThere, [Next]_vars, NEW c \in Nat, CoveredTo(c)
  PROVE  \A p \in there' \ Invalid : p <= c => p \in embedded'
  BY CoverageGrows DEF CoveredTo

LEMMA EmbeddedStep == TypeOK /\ EmbeddedAreThere /\ [Next]_vars => EmbeddedAreThere'
<1> SUFFICES ASSUME TypeOK, EmbeddedAreThere, [Next]_vars PROVE EmbeddedAreThere'
  OBVIOUS
<1> USE DEF vars, paragraphVars
<1>1. CASE UNCHANGED paragraphVars
  BY <1>1 DEF EmbeddedAreThere
<1>2. ASSUME NEW w \in Workers, Batch(w) PROVE EmbeddedAreThere'
  BY <1>2 DEF Batch, EmbeddedAreThere
<1>3. ASSUME NEW q \in Ids, InsertParagraph(q) \/ DeleteParagraph(q) PROVE EmbeddedAreThere'
  BY <1>3 DEF InsertParagraph, DeleteParagraph, EmbeddedAreThere
<1> QED
  BY <1>1, <1>2, <1>3
     DEF Next, ClientStep, Create, CreateExisting, Publish, Record, DispatchFails, RetryRead,
         RetryCheck, RetrySave, CancelRead, CancelSave, RequestAborts, Deliver, Fetch, Work,
         Acquire, Locked, Read, Cancel, Start, StartRejected, ReadRows, NoRows, BatchRejected,
         Refresh, CloseSpace, CloseRun, PublishNext, Raise, RetryTask, RetryLost, FailRun,
         Release, Ack, WorkerLost, KeyExpires, KeyExpiresEarly

\* What a step stores in the rows of the runs, or reads from them, was there
\* before, up to the status and the dispatch, unless it is a batch.
Readings ==
  {NewRun} \cup {run[r] : r \in Runs} \cup {snap[w] : w \in Workers} \cup {csnap[c] : c \in Clients}

SameProgress(x, y) == x.cursor = y.cursor /\ x.done = y.done /\ x.failed = y.failed

LEMMA ReadingsType == TypeOK => Readings \subseteq Run
  BY NewRunType DEF Readings, TypeOK

LEMMA RequestsRead ==
  ASSUME TypeOK, [Next]_vars PROVE \A c \in Clients : csnap'[c] \in Readings
<1> USE DEF vars
<1>1. CASE UNCHANGED csnap
  BY <1>1 DEF Readings
<1>2. ASSUME NEW c \in Clients, NEW at, NEW r, NEW read \in Readings, Continue(c, at, r, read)
      PROVE  \A k \in Clients : csnap'[k] \in Readings
  BY <1>2 DEF Continue, TypeOK, Readings
<1>3. NewRun \in Readings /\ (\A r \in Runs : run[r] \in Readings)
      /\ \A c \in Clients : csnap[c] \in Readings
  BY DEF Readings
<1>4. ASSUME NEW c \in Clients, Respond(c) PROVE \A k \in Clients : csnap'[k] \in Readings
  BY <1>2, <1>3, <1>4 DEF Respond
<1>5. ASSUME NEW c \in Clients, ClientStep(c) PROVE \A k \in Clients : csnap'[k] \in Readings
  BY <1>2, <1>3, <1>4, <1>5
     DEF ClientStep, Create, CreateExisting, Publish, Record, DispatchFails, RetryRead,
         RetryCheck, RetrySave, CancelRead, CancelSave, RequestAborts
<1> QED
  BY <1>1, <1>5
     DEF clientVars, Next, Deliver, Fetch, Work, Acquire, Locked, Read, Cancel, Start,
         StartRejected, ReadRows, NoRows, Batch, BatchRejected, Refresh, CloseSpace, CloseRun,
         PublishNext, Raise, RetryTask, RetryLost, FailRun, Release, Ack, WorkerLost,
         KeyExpires, KeyExpiresEarly, InsertParagraph, DeleteParagraph

LEMMA WorkersRead ==
  ASSUME TypeOK, [Next]_vars PROVE \A w \in Workers : snap'[w] \in Readings
<1> USE DEF vars
<1>1. CASE UNCHANGED snap
  BY <1>1 DEF Readings
<1>2. ASSUME NEW w \in Workers, Read(w) \/ Refresh(w) PROVE \A v \in Workers : snap'[v] \in Readings
  <2>1. RunOf(w) \in Runs
    BY <1>2 DEF Read, Refresh, TypeOK, RunOf, Message
  <2> QED
    BY <1>2, <2>1 DEF Read, Refresh, TypeOK, Readings
<1>3. ASSUME NEW w \in Workers, Idle(w) PROVE \A v \in Workers : snap'[v] \in Readings
  BY <1>3 DEF Idle, TypeOK, Readings
<1> QED
  BY <1>1, <1>2, <1>3
     DEF workerVars, Next, ClientStep, Create, CreateExisting, Publish, Record, DispatchFails,
         RetryRead, RetryCheck, RetrySave, CancelRead, CancelSave, RequestAborts, Deliver,
         Fetch, Work, Acquire, Locked, Cancel, Start, StartRejected, ReadRows, NoRows, Batch,
         BatchRejected, CloseSpace, CloseRun, PublishNext, Raise, RetryTask, RetryLost, FailRun,
         Release, Ack, WorkerLost, KeyExpires, KeyExpiresEarly, InsertParagraph, DeleteParagraph

LEMMA RowsProgress ==
  ASSUME TypeOK, [Next]_vars, NEW r \in Runs
  PROVE  \/ \E x \in Readings : SameProgress(run'[r], x)
         \/ \E w \in Workers : Batch(w) /\ RunOf(w) = r
<1> USE DEF vars
<1>1. ASSUME NEW x \in Readings, SameProgress(run'[r], x)
      PROVE  \E y \in Readings : SameProgress(run'[r], y)
  BY <1>1
<1>2. ASSUME run'[r] = run[r] PROVE \E x \in Readings : SameProgress(run'[r], x)
  BY <1>2 DEF Readings, SameProgress
<1>3. ASSUME NEW q \in Runs, NEW s, SetStatus(q, s)
      PROVE  \E x \in Readings : SameProgress(run'[r], x)
  <2>1. SameProgress(run'[r], run[r])
    BY <1>3 DEF SetStatus, TypeOK, Run, SameProgress
  <2> QED
    BY <1>1, <2>1 DEF Readings
<1>4. ASSUME NEW c \in Clients, RetrySave(c) PROVE \E x \in Readings : SameProgress(run'[r], x)
  <2>1. crun[c] \in Runs
    BY <1>4 DEF RetrySave, TypeOK
  <2>2. PICK again \in {NewRun, csnap[c]} :
          run' = [run EXCEPT ![crun[c]] =
                    [again EXCEPT !.status = "PENDING", !.dispatched = run[crun[c]].dispatched]]
    BY <1>4 DEF RetrySave
  <2>3. again \in Run /\ again \in Readings
    BY ReadingsType DEF Readings
  <2>4. CASE crun[c] = r
    <3>1. SameProgress(run'[r], again)
      BY <2>1, <2>2, <2>3, <2>4 DEF TypeOK, Run, SameProgress
    <3> QED
      BY <1>1, <2>3, <3>1
  <2>5. CASE crun[c] # r
    <3>1. run'[r] = run[r]
      BY <2>2, <2>5 DEF TypeOK
    <3> QED
      BY <1>2, <3>1
  <2> QED
    BY <2>4, <2>5
<1>5. ASSUME NEW w \in Workers, Batch(w), RunOf(w) # r PROVE run'[r] = run[r]
  BY <1>5 DEF Batch, TypeOK
<1>6. \A c \in Clients : cpc[c] # "idle" => crun[c] \in Runs
  BY DEF TypeOK
<1>7. \A w \in Workers : pc[w] # "idle" => RunOf(w) \in Runs
  BY DEF TypeOK, RunOf, Message
<1>8. ASSUME NEW c \in Clients, Record(c) PROVE \E x \in Readings : SameProgress(run'[r], x)
  <2>1. SameProgress(run'[r], run[r])
    BY <1>6, <1>8 DEF Record, TypeOK, Run, SameProgress
  <2> QED
    BY <1>1, <2>1 DEF Readings
<1>9. ASSUME NEW w \in Workers, Cancel(w) \/ Start(w) \/ CloseRun(w) \/ FailRun(w)
      PROVE  \E x \in Readings : SameProgress(run'[r], x)
  <2>1. RunOf(w) \in Runs /\ \E s : SetStatus(RunOf(w), s)
    BY <1>7, <1>9 DEF Cancel, Start, CloseRun, FailRun
  <2> QED
    BY <1>3, <2>1
<1>10. ASSUME NEW c \in Clients, DispatchFails(c) \/ CancelSave(c)
       PROVE  \E x \in Readings : SameProgress(run'[r], x)
  <2>1. crun[c] \in Runs /\ \E s : SetStatus(crun[c], s)
    BY <1>6, <1>10 DEF DispatchFails, CancelSave
  <2> QED
    BY <1>3, <2>1
<1>11. ASSUME NEW c \in Clients, NEW q \in Runs, Create(c, q)
       PROVE  \E x \in Readings : SameProgress(run'[r], x)
  BY <1>3, <1>11 DEF Create
<1> QED
  BY <1>2, <1>4, <1>5, <1>8, <1>9, <1>10, <1>11
     DEF Next, ClientStep, CreateExisting, Publish, RetryRead, RetryCheck, CancelRead,
         RequestAborts, Deliver, Fetch, Work, Acquire, Locked, Read, StartRejected, ReadRows,
         NoRows, BatchRejected, Refresh, CloseSpace, PublishNext, Raise, RetryTask, RetryLost,
         Release, Ack, WorkerLost, KeyExpires, KeyExpiresEarly, InsertParagraph, DeleteParagraph

\* So no cursor is ahead that was not, except for the end of a whole batch.
LEMMA CursorsStep == IInv /\ [Next]_vars => CursorsAreCovered'
<1> SUFFICES ASSUME IInv, [Next]_vars PROVE CursorsAreCovered'
  OBVIOUS
<1> USE DEF IInv
<1>1. DEFINE Good(cursor) == \A p \in there' \ Invalid : p <= cursor => p \in embedded'
<1>2. ASSUME NEW x \in Readings PROVE Good(x.cursor)
  <2>1. x.cursor \in Nat
    <3>1. Cursors \subseteq Nat
      BY DEF Cursors
    <3> QED
      BY <3>1, ReadingsType DEF Run
  <2>2. CASE x = NewRun
    <3>1. \A p \in there' \ Invalid : p \in Nat \ {0}
      BY TypeStep DEF TypeOK
    <3> QED
      BY <2>2, <3>1 DEF NewRun
  <2>3. CASE x # NewRun
    <3>1. CoveredTo(x.cursor)
      BY <1>2, <2>3 DEF Readings, CursorsAreCovered
    <3> QED
      BY <2>1, <3>1, StaysCovered
  <2> QED
    BY <2>2, <2>3
<1>3. ASSUME NEW r \in Runs PROVE Good(run'[r].cursor)
  <2>1. ASSUME NEW w \in Workers, Batch(w), RunOf(w) = r PROVE Good(run'[r].cursor)
    <3>1. run'[r].cursor = last[w]
      BY <2>1 DEF Batch, TypeOK, Run
    <3>2. Good(last[w])
      BY <2>1 DEF Batch, BatchesAreWhole, paragraphVars
    <3> QED
      BY <3>1, <3>2
  <2> QED
    BY <1>2, <2>1, RowsProgress DEF SameProgress
<1> HIDE DEF Good
<1>4. /\ \A w \in Workers : Good(snap'[w].cursor)
      /\ \A c \in Clients : Good(csnap'[c].cursor)
  BY <1>2, WorkersRead, RequestsRead
<1> QED
  BY <1>3, <1>4 DEF CursorsAreCovered, CoveredTo, Good

\* A worker that still reads, stores or closes after the step stood there
\* before, or came there by ReadRows, NoRows, Refresh or CloseSpace.
LEMMA BatchesStep == IInv /\ [Next]_vars => BatchesAreWhole'
<1> SUFFICES ASSUME IInv, [Next]_vars PROVE BatchesAreWhole'
  OBVIOUS
<1> USE DEF vars, IInv
<1>1. DEFINE Whole(v) ==
        /\ pc'[v] = "batch" =>
             \A p \in there' \ Invalid : p <= last'[v] => p \in embedded' \/ p \in rows'[v]
        /\ pc'[v] \in {"refresh", "closeSpace", "closeRun"} => there' \ Invalid \subseteq embedded'
<1>2. ASSUME NEW v \in Workers, pc'[v] = pc[v], last'[v] = last[v], rows'[v] = rows[v]
      PROVE  Whole(v)
  BY <1>2, CoverageGrows DEF BatchesAreWhole
<1>3. ASSUME NEW v \in Workers, pc'[v] \notin {"batch", "refresh", "closeSpace", "closeRun"}
      PROVE  Whole(v)
  BY <1>3
<1>4. ASSUME NEW v \in Workers, there' \ Invalid \subseteq embedded', pc'[v] # "batch"
      PROVE  Whole(v)
  BY <1>4
<1>5. CASE UNCHANGED <<pc, last, rows>>
  BY <1>2, <1>5 DEF BatchesAreWhole
<1>6. ASSUME NEW w \in Workers, NEW at \in WorkerPc, Goto(w, at), UNCHANGED <<last, rows>>, Whole(w)
      PROVE  BatchesAreWhole'
  BY <1>2, <1>6 DEF Goto, BatchesAreWhole, TypeOK
<1>7. ASSUME NEW w \in Workers, Goto(w, "acquire") \/ Goto(w, "read") \/ Goto(w, "cancel")
               \/ Goto(w, "start") \/ Goto(w, "rows") \/ Goto(w, "publish") \/ Goto(w, "raised")
               \/ Goto(w, "release") \/ Goto(w, "ack"), UNCHANGED <<last, rows>>
      PROVE  BatchesAreWhole'
  <2>1. pc'[w] \notin {"batch", "refresh", "closeSpace", "closeRun"}
    BY <1>7 DEF Goto, TypeOK
  <2>2. \A v \in Workers \ {w} : pc'[v] = pc[v]
    BY <1>7 DEF Goto, TypeOK
  <2> QED
    BY <1>2, <1>3, <1>7, <2>1, <2>2 DEF BatchesAreWhole
<1>8. ASSUME NEW w \in Workers, Idle(w) PROVE BatchesAreWhole'
  <2>1. pc'[w] = "idle"
    BY <1>8 DEF Idle, Goto, TypeOK
  <2>2. \A v \in Workers \ {w} : pc'[v] = pc[v] /\ last'[v] = last[v] /\ rows'[v] = rows[v]
    BY <1>8 DEF Idle, Goto, TypeOK
  <2> QED
    BY <1>2, <1>3, <2>1, <2>2 DEF BatchesAreWhole
<1>9. ASSUME NEW w \in Workers, ReadRows(w) PROVE BatchesAreWhole'
  <2>1. PICK end \in Candidates(w) :
          /\ rows' = [rows EXCEPT ![w] = UpTo(w, end)]
          /\ last' = [last EXCEPT ![w] = end]
          /\ Goto(w, "batch")
          /\ UNCHANGED <<there, embedded>>
    BY <1>9 DEF ReadRows, paragraphVars
  <2>2. \A p \in there \ Invalid : p <= end => p \in embedded \/ p \in UpTo(w, end)
    <3>1. snap[w].cursor \in Nat /\ there \subseteq Nat
      <4>1. Cursors \subseteq Nat
        BY DEF Cursors
      <4> QED
        BY <4>1 DEF TypeOK, Run
    <3>2. CoveredTo(snap[w].cursor)
      BY DEF CursorsAreCovered
    <3> SUFFICES ASSUME NEW p \in there \ Invalid, p <= end
                 PROVE  p \in embedded \/ p \in UpTo(w, end)
      OBVIOUS
    <3>3. CASE p <= snap[w].cursor
      BY <3>2, <3>3 DEF CoveredTo
    <3>4. CASE p > snap[w].cursor
      BY <3>4 DEF UpTo, Candidates
    <3>5. p \in Nat
      BY <3>1
    <3>6. p <= snap[w].cursor \/ p > snap[w].cursor
      BY ONLY <3>1, <3>5
    <3> QED
      BY <3>3, <3>4, <3>6
  <2>3. pc'[w] = "batch" /\ last'[w] = end /\ rows'[w] = UpTo(w, end)
    BY <2>1 DEF Goto, TypeOK
  <2>4. \A v \in Workers \ {w} : pc'[v] = pc[v] /\ last'[v] = last[v] /\ rows'[v] = rows[v]
    BY <2>1 DEF Goto, TypeOK
  <2>5. Whole(w)
    BY <2>1, <2>2, <2>3
  <2> QED
    BY <1>2, <2>4, <2>5 DEF BatchesAreWhole
<1>10. ASSUME NEW w \in Workers, NoRows(w) PROVE BatchesAreWhole'
  <2>1. there \ Invalid \subseteq embedded
    <3>1. snap[w].cursor \in Nat /\ there \subseteq Nat
      <4>1. Cursors \subseteq Nat
        BY DEF Cursors
      <4> QED
        BY <4>1 DEF TypeOK, Run
    <3>2. CoveredTo(snap[w].cursor)
      BY DEF CursorsAreCovered
    <3> QED
      BY <1>10, <3>1, <3>2 DEF NoRows, CoveredTo, Candidates
  <2>2. pc'[w] = "refresh" /\ UNCHANGED <<there, embedded>>
    BY <1>10 DEF NoRows, Goto, TypeOK, paragraphVars
  <2>3. Whole(w)
    BY <2>1, <2>2
  <2> QED
    BY <1>6, <1>10, <2>3 DEF NoRows, WorkerPc, LockedPc
<1>11. ASSUME NEW w \in Workers, Refresh(w) \/ CloseSpace(w) PROVE BatchesAreWhole'
  <2>1. there \ Invalid \subseteq embedded
    BY <1>11 DEF Refresh, CloseSpace, BatchesAreWhole
  <2>2. pc'[w] \in {"closeSpace", "closeRun"} /\ UNCHANGED <<there, embedded>>
    BY <1>11 DEF Refresh, CloseSpace, Goto, TypeOK, paragraphVars
  <2>3. Whole(w)
    BY <2>1, <2>2
  <2>4. PICK at \in WorkerPc : Goto(w, at)
    BY <1>11 DEF Refresh, CloseSpace, WorkerPc, LockedPc
  <2> QED
    BY <1>6, <1>11, <2>3, <2>4 DEF Refresh, CloseSpace
<1>12. ASSUME NEW w \in Workers, Work(w) PROVE BatchesAreWhole'
  <2>1. CASE Read(w)
    BY <1>7, <2>1 DEF Read
  <2> QED
    BY <1>7, <1>8, <1>9, <1>10, <1>11, <1>12, <2>1
       DEF Work, Acquire, Locked, Cancel, Start, StartRejected, Batch, BatchRejected,
           CloseRun, PublishNext, RetryTask, FailRun, Release, Ack
<1>13. ASSUME NEW w \in Workers, Deliver(w) \/ Raise(w) \/ RetryLost(w) \/ WorkerLost(w)
       PROVE  BatchesAreWhole'
  BY <1>7, <1>8, <1>13 DEF Deliver, Fetch, Raise, RetryLost, WorkerLost
<1> QED
  BY <1>5, <1>12, <1>13
     DEF workerVars, Next, ClientStep, Create, CreateExisting, Publish, Record, DispatchFails,
         RetryRead, RetryCheck, RetrySave, CancelRead, CancelSave, RequestAborts, KeyExpires,
         KeyExpiresEarly, InsertParagraph, DeleteParagraph

LEMMA FaultsGrow == [Next]_vars => faults \subseteq faults'
<1> SUFFICES ASSUME [Next]_vars PROVE faults \subseteq faults'
  OBVIOUS
<1>1. faults' = faults \/ \E kind \in FaultKinds : Fault(kind)
  BY DEF vars, paragraphVars, brokerVars, workerVars, clientVars, Next, ClientStep, Work, Deliver,
         Create, CreateExisting, Publish, Record, DispatchFails,
         RetryRead, RetryCheck, RetrySave, CancelRead, CancelSave, RequestAborts,
         Acquire, Locked, Read, Cancel, Start, StartRejected, ReadRows, NoRows, Batch,
         BatchRejected, Refresh, CloseSpace, CloseRun, PublishNext, RetryTask, FailRun, Release,
         Ack, Fetch, Raise, RetryLost, WorkerLost, KeyExpires, KeyExpiresEarly,
         InsertParagraph, DeleteParagraph, Fault
<1> QED
  BY <1>1 DEF Fault

\* The key of the space excludes batches as long as none outlives it: whoever
\* works holds the key, and only its holder or its expiry frees it.
LEMMA KeyStep == TypeOK /\ WorkingHoldsKey /\ [Next]_vars => WorkingHoldsKey'
<1> SUFFICES ASSUME TypeOK, WorkingHoldsKey, [Next]_vars, "slow" \notin faults',
                    NEW w \in Workers, pc'[w] \in LockedPc
             PROVE  key' = w
  BY DEF WorkingHoldsKey
<1> USE DEF vars, paragraphVars, brokerVars, workerVars, clientVars
<1>1. pc \in [Workers -> WorkerPc] /\ faults \subseteq faults'
  BY FaultsGrow DEF TypeOK
<1>2. "slow" \notin faults /\ \A v \in Workers : pc[v] \in LockedPc => key = v
  BY <1>1 DEF WorkingHoldsKey
<1>3. ASSUME key' = key, NEW v \in Workers, NEW at, Goto(v, at), pc[v] \in LockedPc \/ at \notin LockedPc
      PROVE  key' = w
  BY <1>1, <1>2, <1>3 DEF Goto
<1>4. ASSUME UNCHANGED <<key, pc>> PROVE key' = w
  BY <1>2, <1>4
<1>5. "idle" \notin LockedPc /\ "ack" \notin LockedPc /\ "acquire" \notin LockedPc
  BY DEF LockedPc
<1>6. ASSUME NEW c \in Clients, ClientStep(c) PROVE key' = w
  BY <1>4, <1>6
     DEF ClientStep, Create, CreateExisting, Publish, Record, DispatchFails, RetryRead, RetryCheck,
         RetrySave, CancelRead, CancelSave, RequestAborts
<1>7. ASSUME NEW v \in Workers, Acquire(v) PROVE key' = w
  BY <1>1, <1>2, <1>5, <1>7 DEF Acquire, Goto
<1>8. ASSUME NEW v \in Workers, Release(v) PROVE key' = w
  BY <1>1, <1>2, <1>5, <1>8 DEF Release, Goto, LockedPc
<1>9. ASSUME NEW v \in Workers, Work(v), ~Acquire(v), ~Release(v) PROVE key' = w
  <2>1. ASSUME Locked(v) \/ Ack(v) PROVE key' = w
    BY <1>3, <1>5, <2>1 DEF Locked, Ack, Idle
  <2>2. CASE Read(v) \/ Cancel(v) \/ Start(v) \/ StartRejected(v) \/ ReadRows(v) \/ NoRows(v)
    <3>1. pc[v] \in LockedPc /\ key' = key /\ \E at \in WorkerPc : pc' = [pc EXCEPT ![v] = at]
      BY <1>1, <2>2 DEF Read, Cancel, Start, StartRejected, ReadRows, NoRows, Goto, LockedPc, WorkerPc
    <3> QED
      BY <1>3, <3>1 DEF Goto
  <2>3. CASE \/ Batch(v) \/ BatchRejected(v) \/ Refresh(v) \/ CloseSpace(v) \/ CloseRun(v)
             \/ PublishNext(v) \/ RetryTask(v) \/ FailRun(v)
    <3>1. pc[v] \in LockedPc /\ key' = key /\ \E at \in WorkerPc : pc' = [pc EXCEPT ![v] = at]
      BY <1>1, <2>3
         DEF Batch, BatchRejected, Refresh, CloseSpace, CloseRun, PublishNext, RetryTask, FailRun,
             Goto, LockedPc, WorkerPc
    <3> QED
      BY <1>3, <3>1 DEF Goto
  <2> QED
    BY <1>9, <2>1, <2>2, <2>3 DEF Work
<1>10. ASSUME NEW v \in Workers, Deliver(v) PROVE key' = w
  BY <1>3, <1>5, <1>10 DEF Deliver, Fetch
<1>11. ASSUME NEW v \in Workers, Raise(v) \/ RetryLost(v) \/ WorkerLost(v) PROVE key' = w
  <2>1. CASE WorkerLost(v)
    BY <1>3, <1>5, <2>1 DEF WorkerLost, Idle
  <2>2. CASE Raise(v) \/ RetryLost(v)
    BY <1>3, <1>5, <2>2 DEF Raise, RetryLost, LockedPc
  <2> QED
    BY <1>11, <2>1, <2>2
<1>12. CASE KeyExpires
  BY <1>2, <1>12 DEF KeyExpires
<1>13. CASE KeyExpiresEarly
  BY <1>13 DEF KeyExpiresEarly, Fault
<1>14. ASSUME NEW p \in Ids, InsertParagraph(p) \/ DeleteParagraph(p) PROVE key' = w
  BY <1>4, <1>14 DEF InsertParagraph, DeleteParagraph
<1>15. CASE UNCHANGED vars
  BY <1>4, <1>15
<1> QED
  BY <1>6, <1>7, <1>8, <1>9, <1>10, <1>11, <1>12, <1>13, <1>14, <1>15 DEF Next

-----------------------------------------------------------------------------
(* The counters.                                                           *)

LEMMA PastIsFinite ==
  ASSUME NEW S \in SUBSET Ids, NEW c
  PROVE  IsFiniteSet(Past(S, c)) /\ Cardinality(Past(S, c)) \in Nat
<1>1. Past(S, c) \in SUBSET Ids
  BY DEF Past
<1> QED
  BY <1>1, FS_Subset, FS_CardinalityType

\* Paragraphs that were once there are known for ever, and no new one is
\* unusable, as every unusable one is known.
LEMMA KnownGrow ==
  ASSUME TypeOK, OldAreKnown, [Next]_vars
  PROVE  /\ there \cup gone \subseteq there' \cup gone'
         /\ there' \cap Invalid \subseteq there \cap Invalid
<1> USE DEF vars, paragraphVars
<1>1. CASE UNCHANGED <<there, gone>>
  BY <1>1
<1>2. ASSUME NEW p \in Ids, InsertParagraph(p) \/ DeleteParagraph(p)
      PROVE  /\ there \cup gone \subseteq there' \cup gone'
             /\ there' \cap Invalid \subseteq there \cap Invalid
  BY <1>2 DEF InsertParagraph, DeleteParagraph, OldAreKnown
<1> QED
  BY <1>1, <1>2
     DEF Next, ClientStep, Create, CreateExisting, Publish, Record, DispatchFails, RetryRead,
         RetryCheck, RetrySave, CancelRead, CancelSave, RequestAborts, Deliver, Fetch, Work,
         Acquire, Locked, Read, Cancel, Start, StartRejected, ReadRows, NoRows, Batch,
         BatchRejected, Refresh, CloseSpace, CloseRun, PublishNext, Raise, RetryTask, RetryLost,
         FailRun, Release, Ack, WorkerLost, KeyExpires, KeyExpiresEarly

\* Counters that are right stay so.
LEMMA StaysCounted ==
  ASSUME TypeOK, OldAreKnown, [Next]_vars, NEW x \in Run, Counted(x)
  PROVE  Counted(x)'
<1> DEFINE known  == Past(there \cup gone, x.cursor)
           bad    == Past(there \cap Invalid, x.cursor)
           known1 == Past(there' \cup gone', x.cursor)
           bad1   == Past(there' \cap Invalid, x.cursor)
<1>1. there \cup gone \in SUBSET Ids /\ there' \cup gone' \in SUBSET Ids
  BY TypeStep DEF TypeOK
<1>2. /\ IsFiniteSet(known1) /\ Cardinality(known1) \in Nat /\ Cardinality(known) \in Nat
      /\ IsFiniteSet(bad) /\ Cardinality(bad) \in Nat /\ Cardinality(bad1) \in Nat
  BY <1>1, PastIsFinite
<1>3. known \in SUBSET known1 /\ bad1 \in SUBSET bad
  BY KnownGrow DEF Past
<1>4. Cardinality(known) <= Cardinality(known1) /\ Cardinality(bad1) <= Cardinality(bad)
  BY <1>2, <1>3, FS_Subset
<1>5. x.done + x.failed <= Cardinality(known) /\ x.failed >= Cardinality(bad)
  BY DEF Counted
<1>6. x.done \in Nat /\ x.failed \in Nat
  BY DEF Run
<1> HIDE DEF known, bad, known1, bad1
<1>7. x.done + x.failed <= Cardinality(known1) /\ x.failed >= Cardinality(bad1)
  BY <1>2, <1>4, <1>5, <1>6
<1> QED
  BY <1>7 DEF Counted, known1, bad1

\* A batch counts its rows, which no other counter it adds to has counted.
LEMMA BatchCounts ==
  ASSUME IInv, NEW w \in Workers, Batch(w), NEW r \in Runs, RunOf(w) = r
  PROVE  Counted(run[r])'
<1> USE DEF IInv
<1> DEFINE known  == there \cup gone
           bad    == there \cap Invalid
           before == Past(known, snap[w].cursor)
           until  == Past(known, last[w])
           badBefore == Past(bad, snap[w].cursor)
           badUntil  == Past(bad, last[w])
           good   == rows[w] \ Invalid
           unfit  == rows[w] \cap Invalid
<1>1. /\ known \in SUBSET Ids /\ bad \in SUBSET Ids /\ rows[w] \in SUBSET Ids
      /\ snap[w] \in Run /\ last[w] \in Cursors 
  BY DEF TypeOK
<1>2. /\ snap[w].cursor \in Nat /\ last[w] \in Nat /\ Ids \subseteq Nat
      /\ snap[w].done \in Nat /\ snap[w].failed \in Nat
  <2>1. Cursors \subseteq Nat /\ Ids \subseteq Nat
    BY DEF Cursors
  <2> QED
    BY <1>1, <2>1 DEF Run
<1>3. /\ snap[w].cursor <= last[w]
      /\ \A p \in rows[w] : p \in known /\ snap[w].cursor < p /\ p <= last[w]
      /\ \A p \in bad : snap[w].cursor < p /\ p <= last[w] => p \in rows[w]
  BY DEF Batch, BatchesAreExact
<1>4. /\ IsFiniteSet(before) /\ IsFiniteSet(until) /\ IsFiniteSet(badBefore)
      /\ IsFiniteSet(good) /\ IsFiniteSet(unfit)
      /\ Cardinality(before) \in Nat /\ Cardinality(until) \in Nat
      /\ Cardinality(badBefore) \in Nat /\ Cardinality(badUntil) \in Nat
      /\ Cardinality(good) \in Nat /\ Cardinality(unfit) \in Nat
  <2>1. good \in SUBSET Ids /\ unfit \in SUBSET Ids
    BY <1>1
  <2>2. IsFiniteSet(good) /\ IsFiniteSet(unfit)
    BY <2>1, FS_Subset
  <2> QED
    BY <1>1, <2>1, <2>2, PastIsFinite, RowCountType
<1>5. Cardinality(before) + Cardinality(good) + Cardinality(unfit) <= Cardinality(until)
  <2>1. before \cap good = {} /\ (before \cup good) \cap unfit = {}
    <3>1. ASSUME NEW p \in before, p \in rows[w] PROVE FALSE
      <4>1. p \in Nat /\ p <= snap[w].cursor /\ snap[w].cursor < p
        BY <1>1, <1>2, <1>3, <3>1 DEF Past
      <4> QED
        BY <1>2, <4>1
    <3> QED
      BY <3>1
  <2>2. (before \cup good) \cup unfit \in SUBSET until
    <3>1. ASSUME NEW p \in before PROVE p \in until
      <4>1. p \in Nat /\ p \in known /\ p <= snap[w].cursor
        BY <1>1, <1>2 DEF Past
      <4>2. p <= last[w]
        BY <1>2, <1>3, <4>1
      <4> QED
        BY <4>1, <4>2 DEF Past
    <3>2. ASSUME NEW p \in rows[w] PROVE p \in until
      BY <1>3 DEF Past
    <3> QED
      BY <3>1, <3>2
  <2> HIDE DEF before, good, unfit, until
  <2>3. /\ IsFiniteSet(before \cup good)
        /\ Cardinality(before \cup good) = Cardinality(before) + Cardinality(good)
    <3>1. Cardinality(before \cap good) = 0
      BY <2>1, FS_EmptySet
    <3>2. /\ IsFiniteSet(before \cup good)
          /\ Cardinality(before \cup good) =
               Cardinality(before) + Cardinality(good) - Cardinality(before \cap good)
      BY <1>4, FS_Union
    <3> QED
      BY <1>4, <3>1, <3>2
  <2>4. Cardinality((before \cup good) \cup unfit)
          = Cardinality(before) + Cardinality(good) + Cardinality(unfit)
    <3>1. Cardinality((before \cup good) \cap unfit) = 0
      BY <2>1, FS_EmptySet
    <3>2. Cardinality((before \cup good) \cup unfit) =
            Cardinality(before \cup good) + Cardinality(unfit)
              - Cardinality((before \cup good) \cap unfit)
      BY <1>4, <2>3, FS_Union
    <3> QED
      BY <1>4, <2>3, <3>1, <3>2
  <2>5. Cardinality((before \cup good) \cup unfit) <= Cardinality(until)
    BY <1>4, <2>2, FS_Subset
  <2> QED
    BY <2>4, <2>5
<1>6. Cardinality(badUntil) <= Cardinality(badBefore) + Cardinality(unfit)
  <2>1. badUntil \in SUBSET (badBefore \cup unfit)
    <3>1. ASSUME NEW p \in badUntil PROVE p \in badBefore \cup unfit
      <4>1. p \in Nat /\ p \in bad /\ p <= last[w]
        BY <1>1, <1>2 DEF Past
      <4>2. p <= snap[w].cursor \/ snap[w].cursor < p
        BY <1>2, <4>1
      <4> QED
        BY <1>3, <4>1, <4>2 DEF Past
    <3> QED
      BY <3>1
  <2> HIDE DEF badBefore, badUntil, unfit
  <2>2. IsFiniteSet(badBefore \cup unfit) /\ IsFiniteSet(badBefore \cap unfit)
    BY <1>4, FS_Union, FS_Subset
  <2>3. /\ Cardinality(badUntil) <= Cardinality(badBefore \cup unfit)
        /\ Cardinality(badBefore \cup unfit) =
             Cardinality(badBefore) + Cardinality(unfit) - Cardinality(badBefore \cap unfit)
    BY <1>4, <2>1, <2>2, FS_Subset, FS_Union
  <2>4. Cardinality(badBefore \cap unfit) \in Nat /\ Cardinality(badBefore \cup unfit) \in Nat
    BY <2>2, FS_CardinalityType
  <2> QED
    BY <1>4, <2>3, <2>4
<1>7. /\ snap[w].done + snap[w].failed <= Cardinality(before)
      /\ snap[w].failed >= Cardinality(badBefore)
  BY DEF CopiesAreCounted, Counted
<1>8. /\ run'[r].cursor = last[w]
      /\ run'[r].done = snap[w].done + Cardinality(good)
      /\ run'[r].failed = snap[w].failed + Cardinality(unfit)
  BY <1>1 DEF Batch, TypeOK, Run
<1>9. there' \cup gone' = known /\ there' \cap Invalid = bad
  BY DEF Batch
<1> HIDE DEF before, until, badBefore, badUntil, good, unfit
<1>10. /\ (snap[w].done + Cardinality(good)) + (snap[w].failed + Cardinality(unfit))
            <= Cardinality(until)
       /\ snap[w].failed + Cardinality(unfit) >= Cardinality(badUntil)
  BY <1>2, <1>4, <1>5, <1>6, <1>7
<1> HIDE DEF known, bad
<1> QED
  BY <1>8, <1>9, <1>10 DEF Counted, until, badUntil

LEMMA CountersStep ==
  IInv /\ [Next]_vars => CountersMatchCursor' /\ CopiesAreCounted' /\ OldAreKnown'
<1> SUFFICES ASSUME IInv, [Next]_vars
             PROVE  CountersMatchCursor' /\ CopiesAreCounted' /\ OldAreKnown'
  OBVIOUS
<1> USE DEF IInv
<1>1. OldAreKnown'
  BY KnownGrow DEF OldAreKnown
<1>2. ASSUME NEW x \in Readings PROVE Counted(x)'
  <2>1. x \in Run
    BY ReadingsType
  <2>2. CASE x = NewRun
    <3>1. Past(there' \cup gone', 0) = {} /\ Past(there' \cap Invalid, 0) = {}
      <4>1. \A p \in there' \cup gone' : p \in Nat \ {0}
        BY TypeStep DEF TypeOK
      <4> QED
        BY <4>1 DEF Past
    <3> QED
      BY <2>2, <3>1, FS_EmptySet DEF NewRun, Counted
  <2>3. CASE x # NewRun
    <3>1. Counted(x)
      BY <1>2, <2>3 DEF Readings, CountersMatchCursor, CopiesAreCounted
    <3> QED
      BY <2>1, <3>1, StaysCounted
  <2> QED
    BY <2>2, <2>3
<1>3. ASSUME NEW r \in Runs PROVE Counted(run[r])'
  <2>1. ASSUME NEW x \in Readings, SameProgress(run'[r], x) PROVE Counted(run[r])'
    BY <1>2, <2>1 DEF Counted, SameProgress
  <2>2. ASSUME NEW w \in Workers, Batch(w), RunOf(w) = r PROVE Counted(run[r])'
    BY <2>2, BatchCounts
  <2> QED
    BY <2>1, <2>2, RowsProgress
<1>4. ASSUME NEW w \in Workers PROVE Counted(snap[w])'
  <2>1. PICK x \in Readings : snap'[w] = x
    BY WorkersRead
  <2> QED
    BY <1>2, <2>1 DEF Counted
<1>5. ASSUME NEW c \in Clients PROVE Counted(csnap[c])'
  <2>1. PICK x \in Readings : csnap'[c] = x
    BY RequestsRead
  <2> QED
    BY <1>2, <2>1 DEF Counted
<1> QED
  BY <1>1, <1>3, <1>4, <1>5 DEF CountersMatchCursor, CopiesAreCounted

\* A worker that has a batch in hand has just read it, or had it before.
LEMMA BatchInHand ==
  ASSUME TypeOK, [Next]_vars, NEW v \in Workers, pc'[v] = "batch"
  PROVE  \/ ReadRows(v)
         \/ pc[v] = "batch" /\ snap'[v] = snap[v] /\ rows'[v] = rows[v] /\ last'[v] = last[v]
<1> USE DEF vars
<1>1. CASE UNCHANGED <<pc, snap, rows, last>>
  BY <1>1
<1>2. ASSUME NEW w \in Workers, Goto(w, "batch"), ReadRows(w)
      PROVE  \/ ReadRows(v)
             \/ pc[v] = "batch" /\ snap'[v] = snap[v] /\ rows'[v] = rows[v] /\ last'[v] = last[v]
  BY <1>2 DEF ReadRows, Goto, TypeOK
<1>3. ASSUME NEW w \in Workers, NEW at, at # "batch", Goto(w, at), UNCHANGED <<rows, last>>,
             \A u \in Workers \ {w} : snap'[u] = snap[u]
      PROVE  pc[v] = "batch" /\ snap'[v] = snap[v] /\ rows'[v] = rows[v] /\ last'[v] = last[v]
  BY <1>3 DEF Goto, TypeOK
<1>4. ASSUME NEW w \in Workers, Idle(w)
      PROVE  pc[v] = "batch" /\ snap'[v] = snap[v] /\ rows'[v] = rows[v] /\ last'[v] = last[v]
  BY <1>4 DEF Idle, Goto, TypeOK
<1>5. ASSUME NEW w \in Workers, Read(w) \/ Refresh(w)
      PROVE  pc[v] = "batch" /\ snap'[v] = snap[v] /\ rows'[v] = rows[v] /\ last'[v] = last[v]
  <2>1. \E at : at # "batch" /\ Goto(w, at)
    BY <1>5 DEF Read, Refresh
  <2>2. \A u \in Workers \ {w} : snap'[u] = snap[u]
    BY <1>5 DEF Read, Refresh, TypeOK
  <2> QED
    BY <1>3, <1>5, <2>1, <2>2 DEF Read, Refresh
<1>6. ASSUME NEW w \in Workers, Work(w)
      PROVE  \/ ReadRows(v)
             \/ pc[v] = "batch" /\ snap'[v] = snap[v] /\ rows'[v] = rows[v] /\ last'[v] = last[v]
  <2>1. CASE ReadRows(w)
    BY <1>2, <2>1 DEF ReadRows
  <2> QED
    BY <1>3, <1>4, <1>5, <1>6, <2>1
       DEF Work, Acquire, Locked, Cancel, Start, StartRejected, NoRows, Batch, BatchRejected,
           CloseSpace, CloseRun, PublishNext, RetryTask, FailRun, Release, Ack
<1>7. ASSUME NEW w \in Workers, Deliver(w) \/ Raise(w) \/ RetryLost(w) \/ WorkerLost(w)
      PROVE  pc[v] = "batch" /\ snap'[v] = snap[v] /\ rows'[v] = rows[v] /\ last'[v] = last[v]
  BY <1>3, <1>4, <1>7 DEF Deliver, Fetch, Raise, RetryLost, WorkerLost
<1> QED
  BY <1>1, <1>6, <1>7
     DEF workerVars, Next, ClientStep, Create, CreateExisting, Publish, Record, DispatchFails,
         RetryRead, RetryCheck, RetrySave, CancelRead, CancelSave, RequestAborts, KeyExpires,
         KeyExpiresEarly, InsertParagraph, DeleteParagraph

LEMMA ExactStep == IInv /\ [Next]_vars => BatchesAreExact'
<1> SUFFICES ASSUME IInv, [Next]_vars, NEW v \in Workers, pc'[v] = "batch"
             PROVE  /\ snap'[v].cursor <= last'[v]
                    /\ \A p \in rows'[v] :
                         p \in there' \cup gone' /\ snap'[v].cursor < p /\ p <= last'[v]
                    /\ \A p \in there' \cap Invalid :
                         snap'[v].cursor < p /\ p <= last'[v] => p \in rows'[v]
  BY DEF BatchesAreExact
<1> USE DEF IInv
<1>1. CASE pc[v] = "batch" /\ snap'[v] = snap[v] /\ rows'[v] = rows[v] /\ last'[v] = last[v]
  BY <1>1, KnownGrow DEF BatchesAreExact
<1>2. CASE ReadRows(v)
  <2>1. PICK end \in Candidates(v) :
          /\ rows' = [rows EXCEPT ![v] = UpTo(v, end)]
          /\ last' = [last EXCEPT ![v] = end]
          /\ UNCHANGED <<there, gone, snap>>
    BY <1>2 DEF ReadRows, paragraphVars
  <2>2. rows'[v] = UpTo(v, end) /\ last'[v] = end
    BY <2>1 DEF TypeOK
  <2>3. snap[v].cursor \in Nat /\ there \subseteq Nat
    <3>1. Cursors \subseteq Nat
      BY DEF Cursors
    <3> QED
      BY <3>1 DEF TypeOK, Run
  <2>4. end \in there /\ end > snap[v].cursor
    BY DEF Candidates
  <2>5. snap[v].cursor <= end
    BY <2>3, <2>4
  <2>6. ASSUME NEW p \in UpTo(v, end) PROVE p \in there /\ snap[v].cursor < p /\ p <= end
    BY <2>3 DEF UpTo, Candidates
  <2>7. ASSUME NEW p \in there, snap[v].cursor < p, p <= end PROVE p \in UpTo(v, end)
    BY <2>3, <2>7 DEF UpTo, Candidates
  <2> QED
    BY <2>1, <2>2, <2>5, <2>6, <2>7
<1> QED
  BY <1>1, <1>2, BatchInHand

\* A worker about to close its run has closed the space, or stood there before.
LEMMA ClosingInHand ==
  ASSUME TypeOK, [Next]_vars, NEW v \in Workers, pc'[v] = "closeRun"
  PROVE  snap'[v] = snap[v] /\ (CloseSpace(v) \/ pc[v] = "closeRun")
<1> USE DEF vars
<1>1. CASE UNCHANGED <<pc, snap>>
  BY <1>1
<1>2. ASSUME NEW w \in Workers, NEW at, at # "closeRun", Goto(w, at),
             \A u \in Workers \ {w} : snap'[u] = snap[u]
      PROVE  pc[v] = "closeRun" /\ snap'[v] = snap[v]
  BY <1>2 DEF Goto, TypeOK
<1>3. ASSUME NEW w \in Workers, Idle(w) PROVE pc[v] = "closeRun" /\ snap'[v] = snap[v]
  BY <1>3 DEF Idle, Goto, TypeOK
<1>4. ASSUME NEW w \in Workers, Read(w) \/ Refresh(w) PROVE pc[v] = "closeRun" /\ snap'[v] = snap[v]
  <2>1. \E at : at # "closeRun" /\ Goto(w, at)
    BY <1>4 DEF Read, Refresh
  <2>2. \A u \in Workers \ {w} : snap'[u] = snap[u]
    BY <1>4 DEF Read, Refresh, TypeOK
  <2> QED
    BY <1>2, <2>1, <2>2
<1>5. ASSUME NEW w \in Workers, CloseSpace(w)
      PROVE  snap'[v] = snap[v] /\ (CloseSpace(v) \/ pc[v] = "closeRun")
  BY <1>5 DEF CloseSpace, Goto, TypeOK
<1>6. ASSUME NEW w \in Workers, Work(w)
      PROVE  snap'[v] = snap[v] /\ (CloseSpace(v) \/ pc[v] = "closeRun")
  BY <1>2, <1>3, <1>4, <1>5, <1>6
     DEF Work, Acquire, Locked, Cancel, Start, StartRejected, ReadRows, NoRows, Batch,
         BatchRejected, CloseRun, PublishNext, RetryTask, FailRun, Release, Ack
<1>7. ASSUME NEW w \in Workers, Deliver(w) \/ Raise(w) \/ RetryLost(w) \/ WorkerLost(w)
      PROVE  pc[v] = "closeRun" /\ snap'[v] = snap[v]
  BY <1>2, <1>3, <1>7 DEF Deliver, Fetch, Raise, RetryLost, WorkerLost
<1> QED
  BY <1>1, <1>6, <1>7
     DEF workerVars, Next, ClientStep, Create, CreateExisting, Publish, Record, DispatchFails,
         RetryRead, RetryCheck, RetrySave, CancelRead, CancelSave, RequestAborts, KeyExpires,
         KeyExpiresEarly, InsertParagraph, DeleteParagraph

\* Only a worker that closes it makes the space DEGRADED.
LEMMA SpaceStays ==
  ASSUME [Next]_vars, \A w \in Workers : ~CloseSpace(w)
  PROVE  space' = space \/ space' = "READY"
  BY DEF vars, Next, ClientStep, Create, CreateExisting, Publish, Record, DispatchFails, RetryRead,
         RetryCheck, RetrySave, CancelRead, CancelSave, RequestAborts, Deliver, Fetch, Work,
         Acquire, Locked, Read, Cancel, Start, StartRejected, ReadRows, NoRows, Batch,
         BatchRejected, Refresh, CloseRun, PublishNext, Raise, RetryTask, RetryLost, FailRun,
         Release, Ack, WorkerLost, KeyExpires, KeyExpiresEarly, InsertParagraph, DeleteParagraph

LEMMA ClosingStep == IInv /\ [Next]_vars => ClosingIsReady'
<1> SUFFICES ASSUME IInv, [Next]_vars, "slow" \notin faults',
                    NEW v \in Workers, pc'[v] = "closeRun", snap'[v].failed = 0
             PROVE  space' = "READY"
  BY DEF ClosingIsReady
<1> USE DEF IInv
<1>1. snap'[v] = snap[v] /\ "slow" \notin faults
  BY ClosingInHand, FaultsGrow
<1>2. CASE CloseSpace(v)
  BY <1>1, <1>2 DEF CloseSpace
<1>3. CASE pc[v] = "closeRun"
  <2>1. space = "READY"
    BY <1>1, <1>3 DEF ClosingIsReady
  <2>2. ASSUME NEW w \in Workers, CloseSpace(w) PROVE FALSE
    <3>1. pc[w] = "closeSpace"
      BY <2>2 DEF CloseSpace
    <3>2. key = v /\ key = w
      BY <1>1, <1>3, <3>1 DEF WorkingHoldsKey, LockedPc
    <3> QED
      BY <1>3, <3>1, <3>2
  <2> QED
    BY <2>1, <2>2, SpaceStays
<1> QED
  BY <1>2, <1>3, ClosingInHand

LEMMA InitEstablishes == Init => IInv
<1> SUFFICES ASSUME Init PROVE IInv
  OBVIOUS
<1>1. TypeOK
  <2>1. NewRun \in Run
    BY NewRunType
  <2> QED
    BY <2>1 DEF Init, TypeOK, WorkerPc, ClientPc, Cursors
<1>2. OneActiveRun /\ EmbeddedAreThere /\ BatchesAreWhole
  BY DEF Init, OneActiveRun, EmbeddedAreThere, BatchesAreWhole, Active, ActiveStatuses, NewRun
<1>3. CursorsAreCovered
  <2>1. CoveredTo(0)
    BY DEF Init, CoveredTo
  <2> QED
    BY <2>1 DEF Init, CursorsAreCovered, NewRun
<1>4. WorkingHoldsKey /\ OldAreKnown /\ BatchesAreExact /\ ClosingIsReady
  BY DEF Init, WorkingHoldsKey, OldAreKnown, BatchesAreExact, ClosingIsReady, LockedPc
<1>5. Counted(NewRun)
  <2>1. Past(there \cup gone, 0) = {} /\ Past(there \cap Invalid, 0) = {}
    <3>1. \A p \in there \cup gone : p \in Nat \ {0}
      BY DEF Init
    <3> QED
      BY <3>1 DEF Past
  <2> QED
    BY <2>1, FS_EmptySet DEF NewRun, Counted
<1>6. CountersMatchCursor /\ CopiesAreCounted
  <2>1. /\ \A r \in Runs : run[r] = NewRun
        /\ \A w \in Workers : snap[w] = NewRun
        /\ \A c \in Clients : csnap[c] = NewRun
    BY DEF Init
  <2> QED
    BY <1>5, <2>1 DEF CountersMatchCursor, CopiesAreCounted
<1> QED
  BY <1>1, <1>2, <1>3, <1>4, <1>6 DEF IInv

LEMMA StepKeepsIInv == IInv /\ [Next]_vars => IInv'
  BY TypeStep, OneActiveStep, EmbeddedStep, CursorsStep, BatchesStep, KeyStep, CountersStep,
     ExactStep, ClosingStep
     DEF IInv

-----------------------------------------------------------------------------
(* The theorems.                                                           *)

\* No cursor is ever ahead of the vectors, through every fault of the model.
THEOREM MigrationInvariant == Spec => []IInv
  BY InitEstablishes, StepKeepsIInv, PTL DEF Spec

\* At most one run of the space is active.
THEOREM AtMostOneActiveRun == Spec => []OneActiveRun
<1>1. IInv => OneActiveRun
  BY DEF IInv
<1> QED
  BY <1>1, MigrationInvariant, PTL

\* A run becomes SUCCESS by a worker that closes it and read no failures.
LEMMA SuccessIsClosing ==
  ASSUME IInv, [Next]_vars, NEW r \in Runs, run[r].status # "SUCCESS", run'[r].status = "SUCCESS"
  PROVE  \E w \in Workers : CloseRun(w) /\ snap[w].failed = 0
<1> USE DEF vars, IInv
<1>1. ASSUME NEW w \in Workers, CloseRun(w) PROVE snap[w].failed = 0
  <2>1. RunOf(w) \in Runs /\ snap[w].failed \in Nat
    BY <1>1 DEF CloseRun, TypeOK, RunOf, Message, Run
  <2>2. CASE snap[w].failed > 0
    BY <1>1, <2>1, <2>2 DEF CloseRun, SetStatus, TypeOK, Run
  <2> QED
    BY <2>1, <2>2
<1>2. ASSUME \A q \in Runs : run'[q].status = run[q].status PROVE FALSE
  BY <1>2
<1>3. ASSUME NEW q \in Runs, NEW s \in RunStatus \ {"SUCCESS"}, SetStatus(q, s) PROVE FALSE
  BY <1>3 DEF SetStatus, TypeOK, Run
<1>4. {"PENDING", "RUNNING", "CANCEL_REQUESTED", "CANCELLED", "FAILURE"} \subseteq RunStatus \ {"SUCCESS"}
  BY DEF RunStatus, ActiveStatuses
<1>5. ASSUME NEW c \in Clients, ClientStep(c) PROVE FALSE
  <2>1. cpc[c] # "idle" => crun[c] \in Runs
    BY DEF TypeOK
  <2>2. ASSUME Record(c) PROVE FALSE
    BY <1>2, <2>2 DEF Record, TypeOK, Run
  <2>3. ASSUME RetrySave(c) PROVE FALSE
    <3>1. PICK again \in {NewRun, csnap[c]} :
            run' = [run EXCEPT ![crun[c]] =
                      [again EXCEPT !.status = "PENDING", !.dispatched = run[crun[c]].dispatched]]
      BY <2>3 DEF RetrySave
    <3>2. again \in Run /\ crun[c] \in Runs
      BY <2>1, <2>3, NewRunType DEF RetrySave, TypeOK
    <3>3. run'[crun[c]].status = "PENDING" /\ \A q \in Runs \ {crun[c]} : run'[q] = run[q]
      BY <3>1, <3>2 DEF TypeOK, Run
    <3> QED
      BY <3>3
  <2> QED
    BY <1>2, <1>3, <1>4, <1>5, <2>1, <2>2, <2>3
       DEF ClientStep, Create, CreateExisting, Publish, DispatchFails, RetryRead, RetryCheck,
           CancelRead, CancelSave, RequestAborts
<1>6. ASSUME NEW w \in Workers, Work(w), ~CloseRun(w) PROVE FALSE
  <2>1. pc[w] # "idle" => RunOf(w) \in Runs
    BY DEF TypeOK, RunOf, Message
  <2>2. ASSUME Batch(w) PROVE FALSE
    BY <1>2, <2>1, <2>2 DEF Batch, TypeOK, Run
  <2> QED
    BY <1>2, <1>3, <1>4, <1>6, <2>1, <2>2
       DEF Work, Acquire, Locked, Read, Cancel, Start, StartRejected, ReadRows, NoRows,
           BatchRejected, Refresh, CloseSpace, PublishNext, RetryTask, FailRun, Release, Ack
<1> QED
  BY <1>1, <1>2, <1>5, <1>6
     DEF Next, Deliver, Fetch, Raise, RetryLost, WorkerLost, KeyExpires, KeyExpiresEarly,
         InsertParagraph, DeleteParagraph

\* A run becomes SUCCESS only when every usable vector has been copied.
THEOREM SuccessCopiesAll == Spec => SuccessIsComplete
<1>1. IInv /\ [Next]_vars =>
        [\A r \in Runs :
           run[r].status # "SUCCESS" /\ run'[r].status = "SUCCESS" => there \ Invalid \subseteq embedded]_vars
  BY SuccessIsClosing DEF CloseRun, IInv, BatchesAreWhole
<1> QED
  BY <1>1, MigrationInvariant, PTL DEF Spec, SuccessIsComplete

\* A run becomes SUCCESS only when its space is READY, unless a batch was slower
\* than its key.
THEOREM SuccessFindsReady == Spec => SuccessMeansReady
<1>1. IInv /\ [Next]_vars =>
        [\A r \in Runs :
           "slow" \notin faults /\ run[r].status # "SUCCESS" /\ run'[r].status = "SUCCESS" =>
             space = "READY"]_vars
  BY SuccessIsClosing DEF CloseRun, IInv, ClosingIsReady
<1> QED
  BY <1>1, MigrationInvariant, PTL DEF Spec, SuccessMeansReady

\* The counters of a run count each row up to its cursor at most once, and all
\* failures, through repeated messages, overlapping batches and retries.
THEOREM CountersAreReal == Spec => []CountersMatchCursor
<1>1. IInv => CountersMatchCursor
  BY DEF IInv
<1> QED
  BY <1>1, MigrationInvariant, PTL

\* Two batches of the space never run at once, for any workers, runs and faults,
\* unless a batch was slower than its key.
THEOREM BatchesNeverOverlap == Spec => []BatchesExclude
<1>1. IInv => BatchesExclude
  BY DEF IInv, WorkingHoldsKey, BatchesExclude
<1> QED
  BY <1>1, MigrationInvariant, PTL

=============================================================================
