-------------------------- MODULE DocumentTaskLock --------------------------
(***************************************************************************)
(* The clock of one document's processing: the redis lock with its timeout *)
(* (document_task_lock.py), the hard time limit of the Celery task         *)
(* (tasks.py) and the heartbeat the reconciler looks at (task_recovery.py).*)
(* Three settings race here: a run must be dead before its lock expires    *)
(* and before its task counts as stale.  Time is kept as ages, so the      *)
(* model is finite although the clock is not.                              *)
(*                                                                         *)
(* DocumentPipeline has no clock.  Its LockExpires and Stale rest on the   *)
(* properties of this module.  Definitions marked "Fault:" are no part of  *)
(* the model; they show that the properties notice such a bug.             *)
(***************************************************************************)
EXTENDS Naturals

CONSTANTS
  Workers,         \* processes that may hold a message for the document's task
  HardLimit,       \* DOCUMENT_TASK_TIME_LIMIT (360 s)
  LockTimeout,     \* DOCUMENT_TASK_LOCK_TIMEOUT (420 s)
  StaleThreshold,  \* STALE_TASK_THRESHOLD_SECONDS (420 s)
  NoHolder

ASSUME NoHolderAssumption == NoHolder \notin Workers

\* The defaults of settings.py satisfy these; only the second is enforced
\* there (max(DOCUMENT_TASK_TIME_LIMIT + 60, ...)), the first can be broken by
\* an environment variable.
ASSUME SettingsAssumption ==
  /\ HardLimit \in Nat
  /\ LockTimeout \in Nat /\ LockTimeout > HardLimit
  /\ StaleThreshold \in Nat /\ StaleThreshold > HardLimit

VARIABLES
  phase,      \* "idle", "received", "locked" or "processing" (PROCESSING is saved)
  age,        \* seconds since a worker began with its message
  holder,     \* whose token the redis key holds, or NoHolder
  ttl,        \* seconds until the key expires; 0 when there is none
  active,     \* whether the task's status is one of ACTIVE_STATUSES
  heartbeat   \* seconds since updated_at, up to StaleThreshold + 1

vars == <<phase, age, holder, ttl, active, heartbeat>>

Phase == {"idle", "received", "locked", "processing"}

Holding(w) == phase[w] \in {"locked", "processing"}

TypeOK ==
  /\ phase \in [Workers -> Phase]
  /\ age \in [Workers -> 0..HardLimit]
  /\ holder \in Workers \cup {NoHolder}
  /\ ttl \in 0..LockTimeout
  /\ active \in BOOLEAN
  /\ heartbeat \in 0..(StaleThreshold + 1)

\* The task has just been created.
Init ==
  /\ phase = [w \in Workers |-> "idle"]
  /\ age = [w \in Workers |-> 0]
  /\ holder = NoHolder
  /\ ttl = 0
  /\ active = TRUE
  /\ heartbeat = 0

\* A second passes: no run outlives the hard limit, the key expires by itself.
Tick ==
  /\ \A w \in Workers : phase[w] # "idle" => age[w] < HardLimit
  /\ age' = [w \in Workers |-> IF phase[w] = "idle" THEN 0 ELSE age[w] + 1]
  /\ ttl' = IF ttl = 0 THEN 0 ELSE ttl - 1
  /\ holder' = IF ttl <= 1 THEN NoHolder ELSE holder
  /\ heartbeat' = IF heartbeat > StaleThreshold THEN heartbeat ELSE heartbeat + 1
  /\ UNCHANGED <<phase, active>>

\* A message for the task reaches a worker, whatever the task's status is.
Receive(w) ==
  /\ phase[w] = "idle"
  /\ phase' = [phase EXCEPT ![w] = "received"]
  /\ age' = [age EXCEPT ![w] = 0]
  /\ UNCHANGED <<holder, ttl, active, heartbeat>>

\* SET NX PX with a token of its own; a busy lock is not waited for.
Acquire(w) ==
  /\ phase[w] = "received"
  /\ holder = NoHolder
  /\ holder' = w
  /\ ttl' = LockTimeout
  /\ phase' = [phase EXCEPT ![w] = "locked"]
  /\ UNCHANGED <<age, active, heartbeat>>

\* Fault: PROCESSING is written with update(), which leaves updated_at alone.
UpdateToProcessing(w) ==
  /\ phase[w] = "locked"
  /\ active' = TRUE
  /\ phase' = [phase EXCEPT ![w] = "processing"]
  /\ UNCHANGED <<age, holder, ttl, heartbeat>>

\* PROCESSING is saved; save() renews updated_at.
SaveProcessing(w) ==
  /\ phase[w] = "locked"
  /\ active' = TRUE
  /\ heartbeat' = 0
  /\ phase' = [phase EXCEPT ![w] = "processing"]
  /\ UNCHANGED <<age, holder, ttl>>

\* _update_progress renews updated_at of an active task.
UpdateProgress(w) ==
  /\ phase[w] = "processing"
  /\ active
  /\ heartbeat' = 0
  /\ UNCHANGED <<phase, age, holder, ttl, active>>

\* Fault: the key is deleted whether or not it was acquired.
EndReleases(w) ==
  /\ phase[w] # "idle"
  /\ holder' = NoHolder
  /\ ttl' = 0
  /\ phase' = [phase EXCEPT ![w] = "idle"]
  /\ age' = [age EXCEPT ![w] = 0]
  /\ IF phase[w] = "processing"
     THEN active' \in BOOLEAN /\ heartbeat' = 0
     ELSE UNCHANGED <<active, heartbeat>>

\* The run ends, and its message with it: the key is deleted if the token is
\* still its own, and the task ends or waits for a retry.
End(w) ==
  /\ phase[w] # "idle"
  /\ holder' = IF Holding(w) /\ holder = w THEN NoHolder ELSE holder
  /\ ttl' = IF Holding(w) /\ holder = w THEN 0 ELSE ttl
  /\ phase' = [phase EXCEPT ![w] = "idle"]
  /\ age' = [age EXCEPT ![w] = 0]
  /\ IF phase[w] = "processing"
     THEN active' \in BOOLEAN /\ heartbeat' = 0
     ELSE UNCHANGED <<active, heartbeat>>

\* The process is killed, by the hard time limit at the latest: nothing is
\* written and nothing released.
Die(w) ==
  /\ phase[w] # "idle"
  /\ phase' = [phase EXCEPT ![w] = "idle"]
  /\ age' = [age EXCEPT ![w] = 0]
  /\ UNCHANGED <<holder, ttl, active, heartbeat>>

\* reconcile_stale_processing_tasks: updated_at < now - threshold.
Reconcile ==
  /\ active
  /\ heartbeat > StaleThreshold
  /\ active' = FALSE
  /\ heartbeat' = 0
  /\ UNCHANGED <<phase, age, holder, ttl>>

Next ==
  \/ Tick
  \/ Reconcile
  \/ \E w \in Workers :
       Receive(w) \/ Acquire(w) \/ SaveProcessing(w) \/ UpdateProgress(w) \/ End(w) \/ Die(w)

Spec == Init /\ [][Next]_vars

-----------------------------------------------------------------------------

\* Two runs never process the document at once, although the lock is given up
\* by time alone: the key of a living run has not expired.
MutualExclusion ==
  \A v, w \in Workers : Holding(v) /\ Holding(w) => v = w

\* The reconciler stops no task whose run is alive: only a run's own end takes
\* a task out of the active statuses while the run is processing it.
OnlyDeadRunsAreStopped ==
  [][active /\ ~active' =>
       \A w \in Workers : phase[w] = "processing" => phase'[w] = "idle"]_vars

-----------------------------------------------------------------------------
(* The inductive invariant: the key of a run lives at least until the run   *)
(* reaches the age LockTimeout, and the heartbeat is no older than the run. *)

LockCoversRun ==
  \A w \in Workers : Holding(w) => holder = w /\ ttl + age[w] >= LockTimeout

HeartbeatCoversRun ==
  \A w \in Workers : phase[w] = "processing" => heartbeat <= age[w]

KeyIffHeld == holder = NoHolder <=> ttl = 0

IInv == TypeOK /\ LockCoversRun /\ HeartbeatCoversRun /\ KeyIffHeld

=============================================================================
