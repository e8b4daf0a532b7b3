---------------------------- MODULE DocumentIndex ----------------------------
(***************************************************************************)
(* What the pipeline promises about the searchable index of a document,    *)
(* without messages, locks, processes or statuses:                         *)
(*   - one task at a time may replace the index, and it replaces it whole; *)
(*   - a task succeeds only over the index it built itself;                *)
(*   - a document can be read only while it has an index;                  *)
(*   - only deleting the document takes its index away, and a deleted      *)
(*     document never gets one again.                                      *)
(* DocumentPipeline implements this specification.                         *)
(***************************************************************************)
CONSTANTS Documents, Tasks, DocumentOf, NoIndex, NoTask

VARIABLES
  exists,    \* "never", "now" or "deleted"
  index,     \* the task that built the document's chunks, or NoIndex
  readable,  \* whether retrieval may use the chunks
  builder,   \* the task that may replace the chunks, or NoTask
  outcome    \* what a task's row says: "none", "open", "succeeded", "stopped"

vars == <<exists, index, readable, builder, outcome>>

Init ==
  /\ exists = [d \in Documents |-> "never"]
  /\ index = [d \in Documents |-> NoIndex]
  /\ readable = [d \in Documents |-> FALSE]
  /\ builder = [d \in Documents |-> NoTask]
  /\ outcome = [t \in Tasks |-> "none"]

\* A document comes into being with its first task.
Add(t) ==
  /\ exists[DocumentOf[t]] = "never"
  /\ exists' = [exists EXCEPT ![DocumentOf[t]] = "now"]
  /\ outcome' = [outcome EXCEPT ![t] = "open"]
  /\ UNCHANGED <<index, readable, builder>>

\* A task is created or taken up again while no other one of its document is open.
Open(t) ==
  /\ exists[DocumentOf[t]] = "now"
  /\ \A u \in Tasks \ {t} : DocumentOf[u] = DocumentOf[t] => outcome[u] # "open"
  /\ outcome' = [outcome EXCEPT ![t] = "open"]
  /\ UNCHANGED <<exists, index, readable, builder>>

Claim(t) ==
  /\ builder[DocumentOf[t]] = NoTask
  /\ builder' = [builder EXCEPT ![DocumentOf[t]] = t]
  /\ UNCHANGED <<exists, index, readable, outcome>>

Replace(t) ==
  LET d == DocumentOf[t] IN
  /\ builder[d] = t
  /\ exists[d] = "now"
  /\ index' = [index EXCEPT ![d] = t]
  /\ readable' = [readable EXCEPT ![d] = TRUE]
  /\ UNCHANGED <<exists, builder, outcome>>

Succeed(t) ==
  LET d == DocumentOf[t] IN
  /\ builder[d] = t
  /\ index[d] = t
  /\ outcome[t] # "none"
  /\ outcome' = [outcome EXCEPT ![t] = "succeeded"]
  /\ UNCHANGED <<exists, index, readable, builder>>

\* The claim ends: released, or lost with its process. The code may at the
\* same time decide whether the document can be read.
Unclaim(d) ==
  /\ builder[d] # NoTask
  /\ builder' = [builder EXCEPT ![d] = NoTask]
  /\ \E r \in BOOLEAN : readable' = [readable EXCEPT ![d] = r /\ index[d] # NoIndex]
  /\ UNCHANGED <<exists, index, outcome>>

\* The document is marked as failed, whether or not it has chunks.
Hide(d) ==
  /\ exists[d] = "now"
  /\ readable' = [readable EXCEPT ![d] = FALSE]
  /\ UNCHANGED <<exists, index, builder, outcome>>

\* A task is cancelled, fails or is given up, whatever it was; a document may
\* become readable or unreadable with it.
Stop(t) ==
  LET d == DocumentOf[t] IN
  /\ outcome[t] # "none"
  /\ outcome' = [outcome EXCEPT ![t] = "stopped"]
  /\ \E r \in BOOLEAN : readable' = [readable EXCEPT ![d] = r /\ index[d] # NoIndex]
  /\ UNCHANGED <<exists, index, builder>>

Delete(d) ==
  /\ exists[d] = "now"
  /\ exists' = [exists EXCEPT ![d] = "deleted"]
  /\ index' = [index EXCEPT ![d] = NoIndex]
  /\ readable' = [readable EXCEPT ![d] = FALSE]
  /\ outcome' = [t \in Tasks |-> IF DocumentOf[t] = d THEN "none" ELSE outcome[t]]
  /\ UNCHANGED builder

Next ==
  \/ \E t \in Tasks : Add(t) \/ Open(t) \/ Claim(t) \/ Replace(t) \/ Succeed(t) \/ Stop(t)
  \/ \E d \in Documents : Unclaim(d) \/ Hide(d) \/ Delete(d)

Spec == Init /\ [][Next]_vars
=============================================================================
