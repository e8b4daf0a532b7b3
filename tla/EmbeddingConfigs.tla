-------------------------- MODULE EmbeddingConfigs --------------------------
(***************************************************************************)
(* The embedding configurations of a workspace, the one a knowledge base   *)
(* selects, the documents indexed with it and the questions asked of them. *)
(* A signature, the id and revision of a configuration, is all that keeps  *)
(* vectors of different models apart (views.py, serializers.py,            *)
(* model_resolution.py, document_processor.py, vector_storage.py,          *)
(* retrieval.py, pgvector_retrieval.py).  All models have one dimension,   *)
(* so that nothing else can tell their vectors apart.                      *)
(***************************************************************************)
EXTENDS Naturals

CONSTANTS
  Configs, NoConfig,        \* rows of ModelConfig, and none
  Models, LocalModel,       \* what base_url and model_name name; the hash without any
  NoModel,
  Documents, Editors,
  Batches,                  \* calls of embed_texts in one run
  MaxRevision, MaxVersion   \* bounds: edits of a row, commits of a document

(* What the theorems assume of these.                                       *)
ConstantsAssumption ==
  NoConfig \notin Configs /\ NoModel \notin Models \cup {LocalModel} /\ Batches \in Nat

VARIABLES
  config,     \* the rows: revision 0 before one is created, NoModel once deleted
  selected,   \* embedding_model_config of the knowledge base
  document,   \* signature, vectors, rows in the spaces, and how often replaced
  spaces,     \* signatures of the embedding spaces
  run,        \* the processing of each document
  edit,       \* the row that a PATCH of a configuration has read
  question,   \* a question from its knowledge base to its scores: the models of
              \* the vectors that the last one compared
  overlapped  \* whether a PATCH was saved over a row changed since it was read

vars == <<config, selected, document, spaces, run, edit, question, overlapped>>

Signatures == [config : Configs \cup {NoConfig}, revision : Nat]
Snapshots  == [config : Configs \cup {NoConfig}, revision : Nat, model : Models \cup {LocalModel}]
AnyModel   == Models \cup {LocalModel}

Without == [config |-> NoConfig, revision |-> 0, model |-> LocalModel]
Signature(s) == [config |-> s.config, revision |-> s.revision]

Present(c) == config[c].model # NoModel

(* What a process that reads the knowledge base and its configuration has. *)
Snapshot(c) ==
  IF c = NoConfig THEN Without
  ELSE [config |-> c, revision |-> config[c].revision, model |-> config[c].model]
Chosen == Snapshot(selected)

Indexed(d) == document[d].vectors # {}

TypeOK ==
  /\ config \in [Configs -> [model : Models \cup {NoModel}, revision : Nat]]
  /\ selected \in Configs \cup {NoConfig}
  /\ document \in [Documents -> [signature : Signatures, vectors : SUBSET AnyModel,
                                 rows : SUBSET [space : Signatures, model : AnyModel],
                                 version : Nat]]
  /\ spaces \in SUBSET Signatures
  /\ run \in [Documents -> [phase : {"idle", "embedding"}, by : Snapshots,
                            vectors : SUBSET AnyModel, left : Nat]]
  /\ edit \in [Editors -> Snapshots]
  /\ question \in [phase : {"idle", "asked", "searched"}, by : Snapshots,
                   found : SUBSET [document : Documents, version : Nat, model : AnyModel],
                   compared : SUBSET [filtered : BOOLEAN, asked : AnyModel, held : AnyModel]]
  /\ overlapped \in BOOLEAN

NoRun == [phase |-> "idle", by |-> Without, vectors |-> {}, left |-> 0]
Quiet == [phase |-> "idle", by |-> Without, found |-> {}, compared |-> {}]

Init ==
  /\ config = [c \in Configs |-> [model |-> NoModel, revision |-> 0]]
  /\ selected = NoConfig
  /\ document = [d \in Documents |->
       [signature |-> Signature(Without), vectors |-> {}, rows |-> {}, version |-> 0]]
  /\ spaces = {}
  /\ run = [d \in Documents |-> NoRun]
  /\ edit = [e \in Editors |-> Without]
  /\ question = Quiet
  /\ overlapped = FALSE

-----------------------------------------------------------------------------
(* ModelConfigListView.post.  Ids are not given out twice.                 *)
CreateConfig(c, m) ==
  /\ config[c] = [model |-> NoModel, revision |-> 0]
  /\ config' = [config EXCEPT ![c] = [model |-> m, revision |-> 1]]
  /\ UNCHANGED <<selected, document, spaces, run, edit, question, overlapped>>

(* ModelConfigDetailView.patch reads the row, and saves all of it.         *)
EditRead(e, c) ==
  /\ edit[e] = Without /\ Present(c)
  /\ edit' = [edit EXCEPT ![e] = Snapshot(c)]
  /\ UNCHANGED <<config, selected, document, spaces, run, question, overlapped>>

(* Fault: the row is saved as the request has it.                          *)
EditSaveOnly(e, m) ==
  LET read == edit[e] IN
  /\ read # Without
  /\ config' = [config EXCEPT ![read.config] = [model |-> m, revision |-> read.revision]]
  /\ overlapped' = (overlapped \/ Snapshot(read.config) # read)
  /\ edit' = [edit EXCEPT ![e] = Without]
  /\ UNCHANGED <<selected, document, spaces, run, question>>

(* ModelConfigWriteSerializer.update: another model is another revision.   *)
(* The row of a configuration deleted since is inserted again.             *)
EditSave(e, m) ==
  LET read == edit[e] IN
  /\ read # Without
  /\ m # read.model => read.revision < MaxRevision
  /\ config' = [config EXCEPT ![read.config] =
       [model |-> m,
        revision |-> IF m = read.model THEN read.revision ELSE read.revision + 1]]
  /\ overlapped' = (overlapped \/ Snapshot(read.config) # read)
  /\ edit' = [edit EXCEPT ![e] = Without]
  /\ UNCHANGED <<selected, document, spaces, run, question>>

(* ModelConfigDetailView.delete: a knowledge base restricts it.            *)
DeleteConfig(c) ==
  /\ Present(c) /\ selected # c
  /\ config' = [config EXCEPT ![c].model = NoModel]
  /\ UNCHANGED <<selected, document, spaces, run, edit, question, overlapped>>

(* KnowledgeBaseModelConfigView.patch.                                     *)
SelectConfig(c) ==
  /\ c # selected /\ (c # NoConfig => Present(c))
  /\ selected' = c
  /\ UNCHANGED <<config, document, spaces, run, edit, question, overlapped>>

-----------------------------------------------------------------------------
(* The document, its knowledge base and its configuration are read at once,*)
(* and every batch and the signature come from what was read.              *)
Load(d) ==
  /\ run[d].phase = "idle" /\ document[d].version < MaxVersion
  /\ run' = [run EXCEPT ![d] = [phase |-> "embedding", by |-> Chosen,
                                vectors |-> {}, left |-> Batches]]
  /\ UNCHANGED <<config, selected, document, spaces, edit, question, overlapped>>

Embed(d) ==
  /\ run[d].phase = "embedding" /\ run[d].left > 0
  /\ run' = [run EXCEPT ![d].vectors = @ \cup {run[d].by.model}, ![d].left = @ - 1]
  /\ UNCHANGED <<config, selected, document, spaces, edit, question, overlapped>>

(* A service that fails, a cancellation: the old index is kept.            *)
RunFails(d) ==
  /\ run[d].phase = "embedding"
  /\ run' = [run EXCEPT ![d] = NoRun]
  /\ UNCHANGED <<config, selected, document, spaces, edit, question, overlapped>>

(* The transaction reads the knowledge base again, for the space alone.    *)
Replace(d, signature) ==
  /\ run[d].phase = "embedding" /\ run[d].left = 0
  /\ document' = [document EXCEPT ![d] =
       [signature |-> signature, vectors |-> run[d].vectors,
        rows |-> [space : {Signature(Chosen)}, model : run[d].vectors],
        version |-> @.version + 1]]
  /\ spaces' = spaces \cup {Signature(Chosen)}
  /\ run' = [run EXCEPT ![d] = NoRun]
  /\ UNCHANGED <<config, selected, edit, question, overlapped>>

(* Fault: the signature is the one at the time of the commit.              *)
CommitCurrent(d) == Replace(d, Signature(Chosen))

Commit(d) == Replace(d, Signature(run[d].by))

(* A backfill copies the vectors of documents that carry the space's       *)
(* signature, over rows that are there; the space without a configuration  *)
(* takes them all.                                                         *)
Backfill(d, space) ==
  /\ space \in spaces /\ Indexed(d)
  /\ space.config = NoConfig \/ document[d].signature = space
  /\ document' = [document EXCEPT ![d].rows =
       {r \in @ : r.space # space} \cup [space : {space}, model : document[d].vectors]]
  /\ UNCHANGED <<config, selected, spaces, run, edit, question, overlapped>>

-----------------------------------------------------------------------------
(* The view reads the knowledge base with its configuration; the signature *)
(* and the vector of the question come from it.                            *)
Ask ==
  /\ question.phase = "idle"
  /\ question' = [Quiet EXCEPT !.phase = "asked", !.by = Chosen]
  /\ UNCHANGED <<config, selected, document, spaces, run, edit, overlapped>>

(* query_pgvector_candidates, with VECTOR_READ_MODE PGVECTOR and a space.  *)
SearchSpace ==
  /\ question.phase = "asked" /\ Signature(question.by) \in spaces
  /\ question' = [question EXCEPT !.phase = "searched",
       !.found = {x \in [document : Documents, version : {document[d].version : d \in Documents},
                         model : AnyModel] :
                    /\ x.version = document[x.document].version
                    /\ \E r \in document[x.document].rows :
                         r.space = Signature(question.by) /\ r.model = x.model}]
  /\ UNCHANGED <<config, selected, document, spaces, run, edit, overlapped>>

(* Fault: any indexed document is listed.                                  *)
ListedUnfiltered(d) == Indexed(d)

(* prepare_retrieval's paragraphs.                                         *)
Listed(d) ==
  /\ Indexed(d)
  /\ question.by.config # NoConfig => document[d].signature = Signature(question.by)

(* The scores: of the candidates still there, or with VECTOR_READ_MODE     *)
(* LEGACY, or without a space, of the vectors kept in the paragraphs.      *)
Score ==
  LET scored == IF question.phase = "searched"
                THEN {x.model : x \in {y \in question.found :
                        Listed(y.document) /\ y.version = document[y.document].version}}
                ELSE UNION {document[d].vectors : d \in {d \in Documents : Listed(d)}}
  IN /\ question.phase \in {"asked", "searched"}
     /\ question' = [Quiet EXCEPT !.compared =
          [filtered : {question.by.config # NoConfig}, asked : {question.by.model},
           held : scored]]
     /\ UNCHANGED <<config, selected, document, spaces, run, edit, overlapped>>

Next ==
  \/ \E c \in Configs : \/ \E m \in Models : CreateConfig(c, m)
                        \/ \E e \in Editors : EditRead(e, c)
                        \/ DeleteConfig(c)
  \/ \E c \in Configs \cup {NoConfig} : SelectConfig(c)
  \/ \E e \in Editors, m \in Models : EditSave(e, m)
  \/ \E d \in Documents : Load(d) \/ Embed(d) \/ RunFails(d) \/ Commit(d)
  \/ \E d \in Documents, s \in spaces : Backfill(d, s)
  \/ Ask \/ SearchSpace \/ Score

Spec == Init /\ [][Next]_vars

-----------------------------------------------------------------------------
(* model_resolution.py, document_needs_reprocess, of a changed model.      *)
NeedsReprocess(d) ==
  /\ Indexed(d) /\ selected # NoConfig
  /\ document[d].signature # Signature(Chosen)

(* A question under a configuration is compared with vectors of its own    *)
(* model only, whatever was edited, selected, deleted or indexed between   *)
(* reading the knowledge base and scoring the candidates.  Two PATCHes at  *)
(* once may give one revision to two models, and a knowledge base without  *)
(* a configuration does not filter: these are excused.                     *)
SameModel ==
  ~overlapped => \A p \in question.compared : p.filtered => p.asked = p.held

(* A document that is not reported as one to reprocess has vectors of the  *)
(* model that questions are embedded with now: a change of the model       *)
(* during a run cannot hide.                                               *)
StaleIsReported ==
  selected # NoConfig /\ ~overlapped =>
    \A d \in Documents :
      Indexed(d) /\ ~NeedsReprocess(d) => document[d].vectors = {Chosen.model}

(* The inductive invariant.  Everything that pairs a signature with a model *)
(* pairs it with the same one, and no pair is ahead of its configuration,   *)
(* so that the next revision is not in use.                                 *)
Held(d) ==
  {[config |-> document[d].signature.config, revision |-> document[d].signature.revision,
    model |-> m] : m \in document[d].vectors}

Uses ==
  {Without, question.by}
    \cup {run[d].by : d \in Documents}
    \cup {Snapshot(c) : c \in {c \in Configs : Present(c)}}
    \cup UNION {Held(d) : d \in Documents}

SelectionExists == selected # NoConfig => Present(selected)

SignaturesAgree ==
  \A s, t \in Uses : Signature(s) = Signature(t) => s.model = t.model

RevisionsAreSpent ==
  \A s \in Uses : s.config # NoConfig =>
    0 < s.revision /\ s.revision <= config[s.config].revision

RunsHaveOneModel ==
  \A d \in Documents : run[d].vectors \subseteq {run[d].by.model}

RowsAreTheVectors ==
  \A d \in Documents : \A r \in document[d].rows :
    r.space = document[d].signature => r.model \in document[d].vectors

CandidatesAreRows ==
  \A x \in question.found :
    /\ x.version <= document[x.document].version
    /\ /\ x.version = document[x.document].version
       /\ document[x.document].signature = Signature(question.by)
       => x.model \in document[x.document].vectors

Agreement == ~overlapped => SignaturesAgree /\ RevisionsAreSpent

IInv ==
  /\ TypeOK /\ SelectionExists /\ RunsHaveOneModel /\ RowsAreTheVectors /\ CandidatesAreRows
  /\ Agreement /\ SameModel
=============================================================================
