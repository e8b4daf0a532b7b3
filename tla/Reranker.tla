------------------------------ MODULE Reranker ------------------------------
(***************************************************************************)
(* The local cross-encoder (reranker.py): one slot, one executor thread.   *)
(* A request that finds the slot taken does without; one that waits too    *)
(* long leaves, while its inference keeps the slot until it is done.       *)
(***************************************************************************)
EXTENDS Naturals, Sequences

CONSTANTS Requests, NoRequest

(* What the theorems assume of these.                                       *)
ConstantsAssumption == NoRequest \notin Requests

VARIABLES
  caller,   \* where each request stands, or how it was answered
  slot,     \* whether _inference_slot can be acquired
  queue,    \* the jobs of the executor
  running,  \* whose job its thread runs, or NoRequest
  late      \* the job whose result is set and whose callback has not run

vars == <<caller, slot, queue, running, late>>

Codes    == {"BUSY", "TIMEOUT", "MODEL_UNAVAILABLE", "INFERENCE_FAILED", "INVALID_OUTPUT"}
Results  == {"RERANKED", "MODEL_UNAVAILABLE", "INFERENCE_FAILED", "INVALID_OUTPUT"}

TypeOK ==
  /\ caller \in [Requests -> {"idle", "waiting", "RERANKED"} \cup Codes]
  /\ slot \in BOOLEAN
  /\ queue \in Seq(Requests)
  /\ running \in Requests \cup {NoRequest}
  /\ late \in Requests \cup {NoRequest}

Init ==
  /\ caller = [r \in Requests |-> "idle"]
  /\ slot = TRUE /\ queue = <<>> /\ running = NoRequest /\ late = NoRequest

Own(r) == r = running \/ r = late \/ \E k \in DOMAIN queue : queue[k] = r

(* rerank_candidates: acquire(blocking=False), submit.  A request stands    *)
(* for all those of its thread, once the executor is done with the last.   *)
Ask(r) ==
  /\ caller[r] # "waiting" /\ ~Own(r)
  /\ caller' = [caller EXCEPT ![r] = IF slot THEN "waiting" ELSE "BUSY"]
  /\ slot' = FALSE
  /\ queue' = IF slot THEN Append(queue, r) ELSE queue
  /\ UNCHANGED <<running, late>>

Run ==
  /\ running = NoRequest /\ late = NoRequest /\ queue # <<>>
  /\ running' = Head(queue) /\ queue' = Tail(queue)
  /\ UNCHANGED <<caller, slot, late>>

(* The result, or the failure, is set and the waiting caller is woken.     *)
Finish ==
  /\ running # NoRequest
  /\ \E result \in Results :
       caller' = [caller EXCEPT ![running] = IF @ = "waiting" THEN result ELSE @]
  /\ running' = NoRequest /\ late' = running
  /\ UNCHANGED <<slot, queue>>

(* The done callback.                                                      *)
Release ==
  /\ late # NoRequest
  /\ slot' = TRUE /\ late' = NoRequest
  /\ UNCHANGED <<caller, queue, running>>

\* Fault: a request that gives up gives the slot back.
GiveUpSlot(r) ==
  /\ caller[r] = "waiting"
  /\ caller' = [caller EXCEPT ![r] = "TIMEOUT"]
  /\ slot' = TRUE
  /\ UNCHANGED <<queue, running, late>>

GiveUp(r) ==
  /\ caller[r] = "waiting"
  /\ caller' = [caller EXCEPT ![r] = "TIMEOUT"]
  /\ UNCHANGED <<slot, queue, running, late>>

Next == Run \/ Finish \/ Release \/ \E r \in Requests : Ask(r) \/ GiveUp(r)

Spec == Init /\ [][Next]_vars

-----------------------------------------------------------------------------
Jobs ==
  Len(queue) + (IF running = NoRequest THEN 0 ELSE 1) + (IF late = NoRequest THEN 0 ELSE 1)

(* No request waits behind the inference of another, and the slot is taken *)
(* as long as there is one, whether or not anybody still waits for it: it  *)
(* comes back with the end of the job, never before and always then.       *)
SlotIsTheJob == Jobs = (IF slot THEN 0 ELSE 1)

(* The inductive invariant.                                                *)
IInv == TypeOK /\ SlotIsTheJob
=============================================================================
