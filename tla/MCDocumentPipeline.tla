------------------------- MODULE MCDocumentPipeline -------------------------
(* Small instances of DocumentPipeline for TLC. *)
EXTENDS DocumentPipeline, TLC

CONSTANTS d1, u1, r1, w1, w2, c1, c2

\* One document with its upload task and one reprocessing task.
OneDocument == {d1}
UploadAndReprocess == {u1, r1}
OneUpload == {u1}
OfOneDocument == [t \in Tasks |-> d1]

OneWorker == {w1}
TwoWorkers == {w1, w2}
OneClient == {c1}
TwoClients == {c1, c2}

\* Workers and requests are interchangeable.
Symmetry == Permutations(Workers) \cup Permutations(Clients)

=============================================================================
