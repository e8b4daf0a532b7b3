---------------------------- MODULE Applications ----------------------------
(***************************************************************************)
(* One AI application between its draft and its public: the row that       *)
(* operators edit, publish, roll back, disable and delete, the snapshots   *)
(* of its published versions, the Chat model configuration and the         *)
(* knowledge bases that they name, the public link and              *)
(* the questions of visitors.                                              *)
(*                                                                         *)
(* A view reads its row, checks it and writes later: one action reads and  *)
(* one writes, whenever what was read matters to what is written.  The     *)
(* text fields of an application are left out.  A question is followed to  *)
(* the moment where it knows what it will be answered from.                *)
(***************************************************************************)
EXTENDS Naturals, Sequences, FiniteSets

CONSTANTS
  Requests,        \* requests that are handled at the same time
  KnowledgeBases,
  Contents,        \* what a model configuration can point to: address and name
  MaxLinks,        \* enabled knowledge bases of a published application (5)
  MaxVersions,     \* bound on the publications
  MaxRevision,     \* bound on the edits of the model configuration
  MaxLosses        \* bound on the kinds of stale writes in one behaviour

ASSUME ConstantsAssumption ==
  /\ IsFiniteSet(KnowledgeBases)
  /\ Contents # {}
  /\ {MaxLinks, MaxVersions, MaxRevision, MaxLosses} \subseteq Nat

VARIABLES
  life,        \* the Application row: "NEW", "LIVE" or "GONE"
  app,         \* its status, its published version (0: none) and whether it
               \* uses the Chat model configuration or the built-in model
  links,       \* the draft's enabled knowledge bases (a link that is switched
               \* off is left out)
  versions,    \* ApplicationVersion rows in order of their numbers
  kbs,         \* the knowledge bases that exist
  modelLive,   \* the ModelConfig row exists
  model,       \* its fields
  linkOpen,    \* there is a public link and it is enabled
  pc,          \* what each request has done so far
  appRow,      \* the application as the request has read it
  modelRow,    \* the model configuration as the request has read it
  answer,      \* what the request is answered from
  passed,      \* auxiliary: the contents that a connectivity test accepted
  lost         \* auxiliary: the kinds of rows that were written from a stale
               \* copy, or written in half

vars == <<life, app, links, versions, kbs, modelLive, model, linkOpen,
          pc, appRow, modelRow, answer, passed, lost>>

modelVars == <<modelLive, model, passed>>
seenVars  == <<appRow, modelRow>>

-----------------------------------------------------------------------------
AppRow   == [status : {"DRAFT", "PUBLISHED", "DISABLED"}, current : Nat,
             config : BOOLEAN]
ModelRow == [revision : Nat, content : Contents,
             tested : BOOLEAN]
Snapshot == [config : BOOLEAN, revision : Nat, content : Contents,
             kbs : SUBSET KnowledgeBases]
Answer   == [version : Nat, wanted : Snapshot, content : Contents,
             kbs : SUBSET KnowledgeBases]

Phases == {"idle", "save", "delete", "disable", "disabled", "open",
           "edit", "test", "resolve", "answer"}
Losses == {"draft", "disable", "access", "edit", "test"}

SomeContent == CHOOSE c \in Contents : TRUE
NewApp      == [status |-> "DRAFT", current |-> 0, config |-> FALSE]
NewModel    == [revision |-> 1, content |-> SomeContent, tested |-> FALSE]
NoSnapshot  == [config |-> FALSE, revision |-> 0, content |-> SomeContent, kbs |-> {}]
NoAnswer    == [version |-> 0, wanted |-> NoSnapshot, content |-> SomeContent,
                kbs |-> {}]

Init ==
  /\ life = "NEW" /\ app = NewApp
  /\ links = {} /\ versions = <<>>
  /\ kbs = KnowledgeBases
  /\ modelLive = TRUE /\ model = NewModel
  /\ linkOpen = FALSE
  /\ pc = [r \in Requests |-> "idle"]
  /\ appRow = [r \in Requests |-> NewApp]
  /\ modelRow = [r \in Requests |-> NewModel]
  /\ answer = [r \in Requests |-> NoAnswer]
  /\ passed = {} /\ lost = {}

-----------------------------------------------------------------------------
(* A request that ends forgets what it has read.                           *)
Goto(r, phase) == pc' = [pc EXCEPT ![r] = phase]

End(r) ==
  /\ Goto(r, "idle")
  /\ appRow' = [appRow EXCEPT ![r] = NewApp]
  /\ modelRow' = [modelRow EXCEPT ![r] = NewModel]

Losing(kind, stale) ==
  /\ lost' = IF stale THEN lost \cup {kind} ELSE lost
  /\ Cardinality(lost') <= MaxLosses

-----------------------------------------------------------------------------
(* ApplicationListView.post                                                *)
Create ==
  /\ life = "NEW"
  /\ life' = "LIVE"
  /\ UNCHANGED <<app, links, versions, kbs, modelVars, linkOpen, pc,
                 seenVars, answer, lost>>

(* owned_application: the row that save, delete, disable, enable and       *)
(* rotate go on with.  Deleting refuses a published application; opening   *)
(* or renewing the public link refuses any other.                          *)
ReadApplication(r, op) ==
  /\ pc[r] = "idle" /\ life = "LIVE"
  /\ op = "delete" => app.status # "PUBLISHED"
  /\ op = "open" => app.status = "PUBLISHED"
  /\ Goto(r, op)
  /\ appRow' = IF op = "save" THEN [appRow EXCEPT ![r] = app] ELSE appRow
  /\ UNCHANGED <<life, app, links, versions, kbs, modelVars, linkOpen,
                 modelRow, answer, lost>>

(* ApplicationDetailView.patch: Model.save writes every column of the row  *)
(* that was read.  When the row is gone the UPDATE finds nothing and       *)
(* Django inserts it again.                                                *)
SaveDraft(r) ==
  /\ pc[r] = "save"
  /\ \E config \in BOOLEAN :
       /\ config => modelLive
       /\ app' = [appRow[r] EXCEPT !.config = config]
  /\ life' = "LIVE"
  /\ Losing("draft", life = "GONE" \/ app # appRow[r])
  /\ End(r)
  /\ UNCHANGED <<links, versions, kbs, modelVars, linkOpen, answer>>

\* Fault: nothing refuses to write a row that names a deleted version.
DoomedQuestions(q) == pc[q] = "resolve"

(* ApplicationDetailView.delete: versions, links, the public link, API     *)
(* keys and conversations go with the row.  A request that has yet to      *)
(* write a row naming one of the versions will be refused by the foreign   *)
(* key: it ends here.                                                      *)
Doomed(q) == \/ pc[q] = "save" /\ appRow[q].current # 0
             \/ pc[q] = "resolve"

DeleteApplication(r) ==
  LET ended == {r} \cup {q \in Requests : Doomed(q)}
      Reset(f, value) == [q \in Requests |-> IF q \in ended THEN value ELSE f[q]]
  IN
  /\ pc[r] = "delete"
  /\ life' = "GONE"
  /\ app' = NewApp
  /\ links' = {} /\ versions' = <<>>
  /\ linkOpen' = FALSE
  /\ pc' = Reset(pc, "idle")
  /\ appRow' = Reset(appRow, NewApp)
  /\ answer' = Reset(answer, NoAnswer)
  /\ UNCHANGED <<kbs, modelVars, modelRow, lost>>

(* ApplicationKnowledgeBaseView.put: the links are replaced in one         *)
(* transaction.                                                            *)
PutKnowledge(chosen) ==
  /\ life = "LIVE"
  /\ links' = chosen
  /\ UNCHANGED <<life, app, versions, kbs, modelVars, linkOpen, pc, seenVars,
                 answer, lost>>

\* Fault: the tested flag of the model configuration is not looked at.
MayPublishUntested ==
  life = "LIVE" /\ links # {} /\ Cardinality(links) <= MaxLinks

(* publish_application: everything is read again under the row's lock.     *)
(* Whether a knowledge base has a usable document is not modelled: the     *)
(* operator simply does not get to publish.                                *)
MayPublish ==
  /\ life = "LIVE"
  /\ links # {} /\ Cardinality(links) <= MaxLinks
  /\ app.config => model.tested

BuildSnapshot ==
  IF app.config
  THEN [config |-> TRUE, revision |-> model.revision, content |-> model.content,
        kbs |-> links]
  ELSE [NoSnapshot EXCEPT !.kbs = links]

Publish ==
  /\ MayPublish
  /\ Len(versions) < MaxVersions
  /\ versions' = Append(versions, BuildSnapshot)
  /\ app' = [app EXCEPT !.status = "PUBLISHED", !.current = Len(versions) + 1]
  /\ UNCHANGED <<life, links, kbs, modelVars, linkOpen, pc, seenVars,
                 answer, lost>>

(* rollback_application: the version is not validated again.               *)
Rollback(v) ==
  /\ life = "LIVE"
  /\ app' = [app EXCEPT !.status = "PUBLISHED", !.current = v]
  /\ UNCHANGED <<life, links, versions, kbs, modelVars, linkOpen, pc,
                 seenVars, answer, lost>>

(* ApplicationDisableView: the status first, the public link in a second   *)
(* write.  Saving a column of a row that is gone raises DatabaseError.     *)
DisableStatus(r) ==
  /\ pc[r] = "disable"
  /\ IF life = "LIVE"
     THEN /\ app' = [app EXCEPT !.status = "DISABLED"]
          /\ Goto(r, "disabled")
          /\ UNCHANGED seenVars
     ELSE End(r) /\ UNCHANGED app
  /\ UNCHANGED <<life, links, versions, kbs, modelVars, linkOpen, answer,
                 lost>>

\* Fault: disabling an application leaves its public link open.
DisableLinkForgotten(r) ==
  /\ pc[r] = "disabled"
  /\ End(r)
  /\ UNCHANGED <<life, app, links, versions, kbs, modelVars, linkOpen, answer,
                 lost>>

DisableLink(r) ==
  /\ pc[r] = "disabled"
  /\ linkOpen' = FALSE
  /\ End(r)
  /\ UNCHANGED <<life, app, links, versions, kbs, modelVars, answer,
                 lost>>

(* The process that handles the request dies between the two writes, with  *)
(* the public link open.                                                   *)
DieDisabling(r) ==
  /\ pc[r] = "disabled" /\ linkOpen
  /\ Losing("disable", TRUE)
  /\ End(r)
  /\ UNCHANGED <<life, app, links, versions, kbs, modelVars, linkOpen,
                 answer>>

-----------------------------------------------------------------------------
(* ApplicationPublicAccessEnableView opens the link there is or makes one, *)
(* ...RotateView makes a new one, which replaces the token of the old.     *)
OpenLink(r) ==
  /\ pc[r] = "open" /\ life = "LIVE"
  /\ linkOpen' = TRUE
  /\ Losing("access", app.status # "PUBLISHED")
  /\ End(r)
  /\ UNCHANGED <<life, app, links, versions, kbs, modelVars, answer>>

(* ApplicationPublicAccessDisableView                                      *)
CloseLink ==
  /\ linkOpen' = FALSE
  /\ UNCHANGED <<life, app, links, versions, kbs, modelVars, pc,
                 seenVars, answer, lost>>

(* A write that the database refuses (its row is gone, or a foreign key),  *)
(* or an operator who gives up: the request ends and nothing is written.   *)
GiveUp(r) ==
  /\ pc[r] \in {"save", "delete", "disable", "open", "edit", "test"}
  /\ End(r)
  /\ UNCHANGED <<life, app, links, versions, kbs, modelVars, linkOpen,
                 answer, lost>>

-----------------------------------------------------------------------------
(* The Chat model configuration: patch and test read the row and write it  *)
(* later, the test after a call to the model.                              *)
ReadModel(r, op) ==
  /\ pc[r] = "idle" /\ modelLive
  /\ op = "edit" => model.revision < MaxRevision
  /\ Goto(r, op)
  /\ modelRow' = [modelRow EXCEPT ![r] = model]
  /\ UNCHANGED <<life, app, links, versions, kbs, modelVars, linkOpen,
                 appRow, answer, lost>>

(* ModelConfigWriteSerializer.update: another address or name makes a new  *)
(* revision, another key only resets the test, a new title changes         *)
(* nothing here; every column of the row that was read is written.         *)
EditedModel(row, content) ==
  IF content # row.content
  THEN [revision |-> row.revision + 1, content |-> content, tested |-> FALSE]
  ELSE row

EditModel(r) ==
  /\ pc[r] = "edit"
  /\ \/ \E content \in Contents : model' = EditedModel(modelRow[r], content)
     \/ model' = [modelRow[r] EXCEPT !.tested = FALSE]
  /\ modelLive' = TRUE
  /\ Losing("edit", ~modelLive \/ model # modelRow[r])
  /\ End(r)
  /\ UNCHANGED <<life, app, links, versions, kbs, passed, linkOpen, answer>>

(* test_model_config: only the result is written, whatever the row says    *)
(* by then.                                                                *)
FinishTest(r) ==
  /\ pc[r] = "test" /\ modelLive
  /\ \/ /\ model' = [model EXCEPT !.tested = TRUE]
        /\ passed' = passed \cup {modelRow[r].content}
        /\ Losing("test", model.content # modelRow[r].content)
     \/ /\ model' = [model EXCEPT !.tested = FALSE]
        /\ UNCHANGED <<passed, lost>>
  /\ End(r)
  /\ UNCHANGED <<life, app, links, versions, kbs, modelLive, linkOpen,
                 answer>>

(* ModelConfigDetailView.delete is restricted by the draft that uses it,   *)
(* KnowledgeBaseDetailView.delete by the draft's links: not by snapshots.  *)
DeleteModel ==
  /\ modelLive /\ ~app.config
  /\ modelLive' = FALSE
  /\ UNCHANGED <<life, app, links, versions, kbs, model, passed, linkOpen,
                 pc, seenVars, answer, lost>>

DeleteKnowledgeBase(k) ==
  /\ k \in kbs \ links
  /\ kbs' = kbs \ {k}
  /\ UNCHANGED <<life, app, links, versions, modelVars, linkOpen, pc,
                 seenVars, answer, lost>>

-----------------------------------------------------------------------------
(* A question comes through the public link while it is open, or with an   *)
(* API key; keys are left out, so that a published application can always  *)
(* be asked.  Both doors read the published version here.                  *)
Authenticate(r) ==
  /\ pc[r] = "idle" /\ life = "LIVE"
  /\ app.status = "PUBLISHED" /\ app.current # 0
  /\ Goto(r, "resolve")
  /\ answer' = [answer EXCEPT ![r].version = app.current]
  /\ UNCHANGED <<life, app, links, versions, kbs, modelVars, linkOpen,
                 seenVars, lost>>

\* Fault: the revision of the model is not compared.
ResolvableAnyRevision(s) == (s.config => modelLive) /\ s.kbs \subseteq kbs

(* resolve_published_runtime: the model of the snapshot's revision and all *)
(* its knowledge bases, or a refusal.  The agent of a conversation that    *)
(* goes on resolves once more, the version the conversation began with:    *)
(* any of those published so far.                                          *)
Resolvable(s) ==
  /\ s.config => modelLive /\ model.revision = s.revision
  /\ s.kbs \subseteq kbs

ServedContent(s) == IF s.config THEN model.content ELSE s.content

Resolve(r) ==
  /\ pc[r] = "resolve"
  /\ Resolvable(versions[answer[r].version])
  /\ \E v \in DOMAIN versions :
       LET s == versions[v] IN
       /\ Resolvable(s)
       /\ answer' = [answer EXCEPT ![r] =
            [version |-> v, wanted |-> s, content |-> ServedContent(s),
             kbs |-> s.kbs \cap kbs]]
  /\ Goto(r, "answer")
  /\ UNCHANGED <<life, app, links, versions, kbs, modelVars, linkOpen,
                 seenVars, lost>>

Answered(r) ==
  /\ pc[r] \in {"resolve", "answer"}    \* refused, or answered
  /\ answer' = [answer EXCEPT ![r] = NoAnswer]
  /\ Goto(r, "idle")
  /\ UNCHANGED <<life, app, links, versions, kbs, modelVars, linkOpen,
                 seenVars, lost>>

-----------------------------------------------------------------------------
Operator ==
  \/ Create \/ Publish \/ CloseLink \/ DeleteModel
  \/ \E chosen \in SUBSET kbs : PutKnowledge(chosen)
  \/ \E v \in DOMAIN versions : Rollback(v)
  \/ \E k \in KnowledgeBases : DeleteKnowledgeBase(k)

Request(r) ==
  \/ \E op \in {"save", "delete", "disable", "open"} : ReadApplication(r, op)
  \/ \E op \in {"edit", "test"} : ReadModel(r, op)
  \/ SaveDraft(r) \/ DeleteApplication(r) \/ DisableStatus(r) \/ DisableLink(r)
  \/ DieDisabling(r) \/ OpenLink(r) \/ GiveUp(r)
  \/ EditModel(r) \/ FinishTest(r)
  \/ Authenticate(r) \/ Resolve(r) \/ Answered(r)

Next == Operator \/ \E r \in Requests : Request(r)

Spec == Init /\ [][Next]_vars

-----------------------------------------------------------------------------
TypeOK ==
  /\ life \in {"NEW", "LIVE", "GONE"} /\ app \in AppRow
  /\ links \subseteq KnowledgeBases
  /\ versions \in Seq(Snapshot)
  /\ kbs \subseteq KnowledgeBases
  /\ modelLive \in BOOLEAN /\ model \in ModelRow
  /\ linkOpen \in BOOLEAN
  /\ pc \in [Requests -> Phases]
  /\ appRow \in [Requests -> AppRow] /\ modelRow \in [Requests -> ModelRow]
  /\ answer \in [Requests -> Answer]
  /\ passed \subseteq Contents /\ lost \subseteq Losses

(* Whatever stale copies are written, the version that an application      *)
(* names is one of its own, and a published application names one: the     *)
(* foreign keys and the locked writes of publish and rollback see to it.   *)
NamesAVersion(row) ==
  /\ row.current <= Len(versions)
  /\ row.status = "PUBLISHED" => row.current # 0

CurrentIsAVersion ==
  /\ NamesAVersion(app)
  /\ \A r \in Requests : pc[r] = "save" => NamesAVersion(appRow[r])

(* An open public link belongs to a published application, except between  *)
(* the two writes of a disabling request, and after a process that died    *)
(* there, a link that was opened on a status read before, or a draft       *)
(* saved from a stale copy.                                                *)
OpenMeansPublished ==
  linkOpen =>
    \/ life = "LIVE" /\ app.status = "PUBLISHED"
    \/ \E r \in Requests : pc[r] = "disabled"
    \/ lost \cap {"draft", "disable", "access"} # {}

(* The model of a published version has passed a connectivity test, unless *)
(* the result of a test was saved on a configuration edited meanwhile.     *)
PublishedWasTested ==
  "test" \notin lost =>
    \A i \in DOMAIN versions : versions[i].config => versions[i].content \in passed

(* An answer comes from the knowledge bases and the model of the version   *)
(* it is for, even when the draft, the configuration or the knowledge      *)
(* bases have changed since, unless one edit of the configuration has      *)
(* overwritten another and two contents share a revision.                  *)
AnswersArePinned ==
  \A r \in Requests : pc[r] = "answer" =>
    /\ answer[r].kbs = answer[r].wanted.kbs
    /\ answer[r].content = answer[r].wanted.content \/ "edit" \in lost

(* What the proofs carry from step to step: a deleted application has      *)
(* nothing left, a row that says it was tested was, and while no edit has  *)
(* overwritten another a revision stands for one content.                  *)
GoneHasNothing == life = "GONE" => versions = <<>> /\ ~linkOpen

TestedHasPassed ==
  "test" \notin lost =>
    /\ model.tested => model.content \in passed
    /\ \A r \in Requests : modelRow[r].tested => modelRow[r].content \in passed

RevisionNamesContent ==
  "edit" \notin lost =>
    \A i \in DOMAIN versions : versions[i].config =>
      /\ versions[i].revision <= model.revision
      /\ versions[i].revision = model.revision => versions[i].content = model.content

QuestionsNameAVersion ==
  \A r \in Requests : pc[r] = "resolve" => answer[r].version \in DOMAIN versions

IInv ==
  /\ TypeOK
  /\ CurrentIsAVersion
  /\ GoneHasNothing
  /\ OpenMeansPublished
  /\ TestedHasPassed
  /\ PublishedWasTested
  /\ RevisionNamesContent
  /\ QuestionsNameAVersion
  /\ AnswersArePinned

(* An application that comes back from its deletion, because a draft was   *)
(* saved over the missing row, is not published and has no door.           *)
ComesBackUnpublished ==
  [][life = "GONE" /\ life' = "LIVE" =>
       app'.status # "PUBLISHED" /\ linkOpen' = FALSE]_vars

(* Saving a draft publishes nothing and takes nothing back: it leaves the  *)
(* status and the published version as they are.                           *)
DraftsKeepPublication ==
  [][(\E r \in Requests : pc[r] = "save" /\ SaveDraft(r)) /\ life = "LIVE" =>
       app'.status = app.status /\ app'.current = app.current]_vars
=============================================================================
