------------------------- MODULE Applications_proofs -------------------------
(***************************************************************************)
(* Proofs about Applications: the inductive invariant, whose parts are     *)
(* shown one by one, and what follows from it for every number of          *)
(* requests, knowledge bases, contents, versions and lost updates.         *)
(***************************************************************************)
EXTENDS Applications, TLAPS

LEMMA SomeContentIsOne == SomeContent \in Contents
  BY ConstantsAssumption DEF SomeContent

(* Every step keeps the types.                                             *)
LEMMA TypeStep ==
  IInv /\ [Next]_vars => TypeOK'
<1> SUFFICES ASSUME IInv, [Next]_vars
             PROVE  TypeOK'
  OBVIOUS
<1>0. CASE UNCHANGED vars
  BY <1>0 DEF vars, IInv, TypeOK, AppRow, ModelRow, Snapshot, Answer, Phases,
     Losses, NewApp, NewModel, NoSnapshot, NoAnswer
<1>1. CASE Create
  BY <1>1, SomeContentIsOne DEF IInv, TypeOK, AppRow, ModelRow, Snapshot, Answer,
     Phases, Losses, NewApp, NewModel, NoSnapshot, NoAnswer, Create, modelVars,
     seenVars
<1>2. CASE Publish
  <2>1. BuildSnapshot \in Snapshot
    BY SomeContentIsOne DEF BuildSnapshot, Snapshot, NoSnapshot, IInv, TypeOK,
       ModelRow
  <2>2. versions' \in Seq(Snapshot)
    BY <1>2, <2>1 DEF Publish, IInv, TypeOK
  <2>3. app' \in AppRow
    <3>1. app \in AppRow /\ Len(versions) + 1 \in Nat
      BY DEF IInv, TypeOK
    <3> QED
      BY <1>2, <3>1 DEF Publish, AppRow
  <2>4. UNCHANGED <<life, links, kbs, modelVars, linkOpen, pc, seenVars, answer, lost>>
    BY <1>2 DEF Publish
  <2> QED
    BY <2>2, <2>3, <2>4 DEF IInv, TypeOK, modelVars, seenVars
<1>3. CASE CloseLink
  BY <1>3, SomeContentIsOne DEF IInv, TypeOK, AppRow, ModelRow, Snapshot, Answer,
     Phases, Losses, NewApp, NewModel, NoSnapshot, NoAnswer, CloseLink, modelVars,
     seenVars
<1>4. CASE DeleteModel
  BY <1>4, SomeContentIsOne DEF IInv, TypeOK, AppRow, ModelRow, Snapshot, Answer,
     Phases, Losses, NewApp, NewModel, NoSnapshot, NoAnswer, DeleteModel, modelVars,
     seenVars
<1>5. ASSUME NEW chosen \in SUBSET kbs, PutKnowledge(chosen)
      PROVE  TypeOK'
  BY <1>5, SomeContentIsOne DEF IInv, TypeOK, AppRow, ModelRow, Snapshot, Answer,
     Phases, Losses, NewApp, NewModel, NoSnapshot, NoAnswer, PutKnowledge,
     modelVars, seenVars
<1>6. ASSUME NEW v \in DOMAIN versions, Rollback(v)
      PROVE  TypeOK'
  <2>1. app' \in AppRow
    <3>1. app \in AppRow /\ v \in Nat
      BY DEF IInv, TypeOK
    <3> QED
      BY <1>6, <3>1 DEF Rollback, AppRow
  <2>2. UNCHANGED <<life, links, versions, kbs, modelVars, linkOpen, pc, seenVars,
                    answer, lost>>
    BY <1>6 DEF Rollback
  <2> QED
    BY <2>1, <2>2 DEF IInv, TypeOK, modelVars, seenVars
<1>7. ASSUME NEW k \in KnowledgeBases, DeleteKnowledgeBase(k)
      PROVE  TypeOK'
  BY <1>7, SomeContentIsOne DEF IInv, TypeOK, AppRow, ModelRow, Snapshot, Answer,
     Phases, Losses, NewApp, NewModel, NoSnapshot, NoAnswer, DeleteKnowledgeBase,
     modelVars, seenVars
<1>8. ASSUME NEW r \in Requests, NEW op \in {"save", "delete", "disable", "open"}, ReadApplication(r, op)
      PROVE  TypeOK'
  BY <1>8, SomeContentIsOne DEF IInv, TypeOK, AppRow, ModelRow, Snapshot, Answer,
     Phases, Losses, NewApp, NewModel, NoSnapshot, NoAnswer, ReadApplication, Goto,
     modelVars, seenVars
<1>9. ASSUME NEW r \in Requests, NEW op \in {"edit", "test"}, ReadModel(r, op)
      PROVE  TypeOK'
  BY <1>9, SomeContentIsOne DEF IInv, TypeOK, AppRow, ModelRow, Snapshot, Answer,
     Phases, Losses, NewApp, NewModel, NoSnapshot, NoAnswer, ReadModel, Goto,
     modelVars, seenVars
<1>10. ASSUME NEW r \in Requests, SaveDraft(r)
      PROVE  TypeOK'
  BY <1>10, SomeContentIsOne DEF IInv, TypeOK, AppRow, ModelRow, Snapshot, Answer,
     Phases, Losses, NewApp, NewModel, NoSnapshot, NoAnswer, SaveDraft, End, Goto,
     Losing, modelVars, seenVars
<1>11. ASSUME NEW r \in Requests, DeleteApplication(r)
      PROVE  TypeOK'
  <2>1. app' \in AppRow /\ versions' \in Seq(Snapshot)
    BY <1>11 DEF DeleteApplication, NewApp, AppRow
  <2>2. pc' \in [Requests -> Phases]
    BY <1>11 DEF DeleteApplication, IInv, TypeOK, Phases
  <2>3. NewApp \in AppRow /\ NoAnswer \in Answer
    BY SomeContentIsOne DEF NewApp, AppRow, NoAnswer, Answer, NoSnapshot, Snapshot
  <2>4. appRow' \in [Requests -> AppRow] /\ answer' \in [Requests -> Answer]
    BY <1>11, <2>3 DEF DeleteApplication, IInv, TypeOK
  <2> QED
    BY <1>11, <2>1, <2>2, <2>4 DEF DeleteApplication, IInv, TypeOK, modelVars
<1>12. ASSUME NEW r \in Requests, DisableStatus(r)
      PROVE  TypeOK'
  <2>1. app' \in AppRow
    BY <1>12 DEF DisableStatus, IInv, TypeOK, AppRow
  <2>2. NewApp \in AppRow /\ NewModel \in ModelRow
    BY SomeContentIsOne DEF NewApp, AppRow, NewModel, ModelRow
  <2>3. pc' \in [Requests -> Phases]
    BY <1>12 DEF DisableStatus, End, Goto, IInv, TypeOK, Phases
  <2>4. appRow' \in [Requests -> AppRow] /\ modelRow' \in [Requests -> ModelRow]
    BY <1>12, <2>2 DEF DisableStatus, End, IInv, TypeOK, seenVars
  <2> QED
    BY <1>12, <2>1, <2>3, <2>4 DEF DisableStatus, IInv, TypeOK, modelVars
<1>13. ASSUME NEW r \in Requests, DisableLink(r)
      PROVE  TypeOK'
  BY <1>13, SomeContentIsOne DEF IInv, TypeOK, AppRow, ModelRow, Snapshot, Answer,
     Phases, Losses, NewApp, NewModel, NoSnapshot, NoAnswer, DisableLink, End, Goto,
     modelVars, seenVars
<1>14. ASSUME NEW r \in Requests, DieDisabling(r)
      PROVE  TypeOK'
  BY <1>14, SomeContentIsOne DEF IInv, TypeOK, AppRow, ModelRow, Snapshot, Answer,
     Phases, Losses, NewApp, NewModel, NoSnapshot, NoAnswer, DieDisabling, End,
     Goto, Losing, modelVars, seenVars
<1>15. ASSUME NEW r \in Requests, OpenLink(r)
      PROVE  TypeOK'
  BY <1>15, SomeContentIsOne DEF IInv, TypeOK, AppRow, ModelRow, Snapshot, Answer,
     Phases, Losses, NewApp, NewModel, NoSnapshot, NoAnswer, OpenLink, End, Goto,
     Losing, modelVars, seenVars
<1>16. ASSUME NEW r \in Requests, GiveUp(r)
      PROVE  TypeOK'
  BY <1>16, SomeContentIsOne DEF IInv, TypeOK, AppRow, ModelRow, Snapshot, Answer,
     Phases, Losses, NewApp, NewModel, NoSnapshot, NoAnswer, GiveUp, End, Goto,
     modelVars, seenVars
<1>17. ASSUME NEW r \in Requests, EditModel(r)
      PROVE  TypeOK'
  <2>1. model' \in ModelRow
    <3>1. modelRow[r] \in ModelRow
      BY DEF IInv, TypeOK
    <3>2. \A content \in Contents : EditedModel(modelRow[r], content) \in ModelRow
      BY <3>1 DEF EditedModel, ModelRow
    <3>3. [modelRow[r] EXCEPT !.tested = FALSE] \in ModelRow
      BY <3>1 DEF ModelRow
    <3> QED
      BY <1>17, <3>2, <3>3 DEF EditModel
  <2>2. NewApp \in AppRow /\ NewModel \in ModelRow
    BY SomeContentIsOne DEF NewApp, AppRow, NewModel, ModelRow
  <2>3. pc' \in [Requests -> Phases]
    BY <1>17 DEF EditModel, End, Goto, IInv, TypeOK, Phases
  <2>4. appRow' \in [Requests -> AppRow] /\ modelRow' \in [Requests -> ModelRow]
    BY <1>17, <2>2 DEF EditModel, End, IInv, TypeOK
  <2>5. lost' \subseteq Losses
    BY <1>17 DEF EditModel, Losing, IInv, TypeOK, Losses
  <2> QED
    BY <1>17, <2>1, <2>3, <2>4, <2>5 DEF EditModel, IInv, TypeOK
<1>18. ASSUME NEW r \in Requests, FinishTest(r)
      PROVE  TypeOK'
  <2>1. model' \in ModelRow
    BY <1>18 DEF FinishTest, IInv, TypeOK, ModelRow
  <2>2. NewApp \in AppRow /\ NewModel \in ModelRow
    BY SomeContentIsOne DEF NewApp, AppRow, NewModel, ModelRow
  <2>3. pc' \in [Requests -> Phases]
    BY <1>18 DEF FinishTest, End, Goto, IInv, TypeOK, Phases
  <2>4. appRow' \in [Requests -> AppRow] /\ modelRow' \in [Requests -> ModelRow]
    BY <1>18, <2>2 DEF FinishTest, End, IInv, TypeOK
  <2>5. lost' \subseteq Losses
    BY <1>18 DEF FinishTest, Losing, IInv, TypeOK, Losses
  <2>6. modelRow[r].content \in Contents
    BY DEF IInv, TypeOK, ModelRow
  <2>7. passed' \subseteq Contents
    BY <1>18, <2>6 DEF FinishTest, IInv, TypeOK
  <2> QED
    BY <1>18, <2>1, <2>3, <2>4, <2>5, <2>7 DEF FinishTest, IInv, TypeOK
<1>19. ASSUME NEW r \in Requests, Authenticate(r)
      PROVE  TypeOK'
  <2>1. app.current \in Nat
    BY DEF IInv, TypeOK, AppRow
  <2>2. answer' \in [Requests -> Answer]
    BY <1>19, <2>1 DEF Authenticate, IInv, TypeOK, Answer
  <2>3. pc' \in [Requests -> Phases]
    BY <1>19 DEF Authenticate, Goto, IInv, TypeOK, Phases
  <2> QED
    BY <1>19, <2>2, <2>3 DEF Authenticate, IInv, TypeOK, modelVars, seenVars
<1>20. ASSUME NEW r \in Requests, Resolve(r)
      PROVE  TypeOK'
  <2>1. PICK v \in DOMAIN versions :
          answer' = [answer EXCEPT ![r] =
            [version |-> v, wanted |-> versions[v],
             content |-> ServedContent(versions[v]), kbs |-> versions[v].kbs \cap kbs]]
    BY <1>20 DEF Resolve
  <2>2. v \in Nat /\ versions[v] \in Snapshot
    BY DEF IInv, TypeOK
  <2>3. ServedContent(versions[v]) \in Contents
    BY <2>2 DEF ServedContent, Snapshot, IInv, TypeOK, ModelRow
  <2>4. versions[v].kbs \cap kbs \subseteq KnowledgeBases
    BY DEF IInv, TypeOK
  <2>5. answer' \in [Requests -> Answer]
    BY <2>1, <2>2, <2>3, <2>4 DEF IInv, TypeOK, Answer
  <2>6. pc' \in [Requests -> Phases]
    BY <1>20 DEF Resolve, Goto, IInv, TypeOK, Phases
  <2> QED
    BY <1>20, <2>5, <2>6 DEF Resolve, IInv, TypeOK, modelVars, seenVars
<1>21. ASSUME NEW r \in Requests, Answered(r)
      PROVE  TypeOK'
  BY <1>21, SomeContentIsOne DEF IInv, TypeOK, AppRow, ModelRow, Snapshot, Answer,
     Phases, Losses, NewApp, NewModel, NoSnapshot, NoAnswer, Answered, Goto,
     modelVars, seenVars
<1> QED
  BY <1>0, <1>1, <1>2, <1>3, <1>4, <1>5, <1>6, <1>7, <1>8, <1>9, <1>10, <1>11,
     <1>12, <1>13, <1>14, <1>15, <1>16, <1>17, <1>18, <1>19, <1>20, <1>21 DEF Next,
     Operator, Request

(* The version an application names stays one of its own: publish and      *)
(* rollback write it under the lock, a stale draft names an older one, and *)
(* deletion ends the drafts that name any.                                 *)
LEMMA CurrentStep ==
  IInv /\ [Next]_vars => CurrentIsAVersion'
<1> SUFFICES ASSUME IInv, [Next]_vars
             PROVE  CurrentIsAVersion'
  OBVIOUS
<1>0. CASE UNCHANGED vars
  BY <1>0 DEF vars, IInv, TypeOK, AppRow, ModelRow, Snapshot, Answer, Phases,
     Losses, NewApp, NewModel, NoSnapshot, NoAnswer, CurrentIsAVersion,
     NamesAVersion
<1>1. CASE Create
  BY <1>1 DEF IInv, TypeOK, AppRow, ModelRow, Snapshot, Answer, Phases, Losses,
     NewApp, NewModel, NoSnapshot, NoAnswer, CurrentIsAVersion, NamesAVersion,
     Create, modelVars, seenVars
<1>2. CASE Publish
  BY <1>2 DEF IInv, TypeOK, AppRow, ModelRow, Snapshot, Answer, Phases, Losses,
     NewApp, NewModel, NoSnapshot, NoAnswer, CurrentIsAVersion, NamesAVersion,
     Publish, MayPublish, BuildSnapshot, modelVars, seenVars
<1>3. CASE CloseLink
  BY <1>3 DEF IInv, TypeOK, AppRow, ModelRow, Snapshot, Answer, Phases, Losses,
     NewApp, NewModel, NoSnapshot, NoAnswer, CurrentIsAVersion, NamesAVersion,
     CloseLink, modelVars, seenVars
<1>4. CASE DeleteModel
  BY <1>4 DEF IInv, TypeOK, AppRow, ModelRow, Snapshot, Answer, Phases, Losses,
     NewApp, NewModel, NoSnapshot, NoAnswer, CurrentIsAVersion, NamesAVersion,
     DeleteModel, modelVars, seenVars
<1>5. ASSUME NEW chosen \in SUBSET kbs, PutKnowledge(chosen)
      PROVE  CurrentIsAVersion'
  BY <1>5 DEF IInv, TypeOK, AppRow, ModelRow, Snapshot, Answer, Phases, Losses,
     NewApp, NewModel, NoSnapshot, NoAnswer, CurrentIsAVersion, NamesAVersion,
     PutKnowledge, modelVars, seenVars
<1>6. ASSUME NEW v \in DOMAIN versions, Rollback(v)
      PROVE  CurrentIsAVersion'
  BY <1>6 DEF IInv, TypeOK, AppRow, ModelRow, Snapshot, Answer, Phases, Losses,
     NewApp, NewModel, NoSnapshot, NoAnswer, CurrentIsAVersion, NamesAVersion,
     Rollback, modelVars, seenVars
<1>7. ASSUME NEW k \in KnowledgeBases, DeleteKnowledgeBase(k)
      PROVE  CurrentIsAVersion'
  BY <1>7 DEF IInv, TypeOK, AppRow, ModelRow, Snapshot, Answer, Phases, Losses,
     NewApp, NewModel, NoSnapshot, NoAnswer, CurrentIsAVersion, NamesAVersion,
     DeleteKnowledgeBase, modelVars, seenVars
<1>8. ASSUME NEW r \in Requests, NEW op \in {"save", "delete", "disable", "open"}, ReadApplication(r, op)
      PROVE  CurrentIsAVersion'
  BY <1>8 DEF IInv, TypeOK, AppRow, ModelRow, Snapshot, Answer, Phases, Losses,
     NewApp, NewModel, NoSnapshot, NoAnswer, CurrentIsAVersion, NamesAVersion,
     ReadApplication, Goto, modelVars, seenVars
<1>9. ASSUME NEW r \in Requests, NEW op \in {"edit", "test"}, ReadModel(r, op)
      PROVE  CurrentIsAVersion'
  BY <1>9 DEF IInv, TypeOK, AppRow, ModelRow, Snapshot, Answer, Phases, Losses,
     NewApp, NewModel, NoSnapshot, NoAnswer, CurrentIsAVersion, NamesAVersion,
     ReadModel, Goto, modelVars, seenVars
<1>10. ASSUME NEW r \in Requests, SaveDraft(r)
      PROVE  CurrentIsAVersion'
  BY <1>10 DEF IInv, TypeOK, AppRow, ModelRow, Snapshot, Answer, Phases, Losses,
     NewApp, NewModel, NoSnapshot, NoAnswer, CurrentIsAVersion, NamesAVersion,
     SaveDraft, End, Goto, Losing, modelVars, seenVars
<1>11. ASSUME NEW r \in Requests, DeleteApplication(r)
      PROVE  CurrentIsAVersion'
  BY <1>11 DEF IInv, TypeOK, AppRow, ModelRow, Snapshot, Answer, Phases, Losses,
     NewApp, NewModel, NoSnapshot, NoAnswer, CurrentIsAVersion, NamesAVersion,
     DeleteApplication, Doomed, modelVars, seenVars
<1>12. ASSUME NEW r \in Requests, DisableStatus(r)
      PROVE  CurrentIsAVersion'
  BY <1>12 DEF IInv, TypeOK, AppRow, ModelRow, Snapshot, Answer, Phases, Losses,
     NewApp, NewModel, NoSnapshot, NoAnswer, CurrentIsAVersion, NamesAVersion,
     DisableStatus, End, Goto, modelVars, seenVars
<1>13. ASSUME NEW r \in Requests, DisableLink(r)
      PROVE  CurrentIsAVersion'
  BY <1>13 DEF IInv, TypeOK, AppRow, ModelRow, Snapshot, Answer, Phases, Losses,
     NewApp, NewModel, NoSnapshot, NoAnswer, CurrentIsAVersion, NamesAVersion,
     DisableLink, End, Goto, modelVars, seenVars
<1>14. ASSUME NEW r \in Requests, DieDisabling(r)
      PROVE  CurrentIsAVersion'
  BY <1>14 DEF IInv, TypeOK, AppRow, ModelRow, Snapshot, Answer, Phases, Losses,
     NewApp, NewModel, NoSnapshot, NoAnswer, CurrentIsAVersion, NamesAVersion,
     DieDisabling, End, Goto, Losing, modelVars, seenVars
<1>15. ASSUME NEW r \in Requests, OpenLink(r)
      PROVE  CurrentIsAVersion'
  BY <1>15 DEF IInv, TypeOK, AppRow, ModelRow, Snapshot, Answer, Phases, Losses,
     NewApp, NewModel, NoSnapshot, NoAnswer, CurrentIsAVersion, NamesAVersion,
     OpenLink, End, Goto, Losing, modelVars, seenVars
<1>16. ASSUME NEW r \in Requests, GiveUp(r)
      PROVE  CurrentIsAVersion'
  BY <1>16 DEF IInv, TypeOK, AppRow, ModelRow, Snapshot, Answer, Phases, Losses,
     NewApp, NewModel, NoSnapshot, NoAnswer, CurrentIsAVersion, NamesAVersion,
     GiveUp, End, Goto, modelVars, seenVars
<1>17. ASSUME NEW r \in Requests, EditModel(r)
      PROVE  CurrentIsAVersion'
  BY <1>17 DEF IInv, TypeOK, AppRow, ModelRow, Snapshot, Answer, Phases, Losses,
     NewApp, NewModel, NoSnapshot, NoAnswer, CurrentIsAVersion, NamesAVersion,
     EditModel, End, Goto, Losing, EditedModel, modelVars, seenVars
<1>18. ASSUME NEW r \in Requests, FinishTest(r)
      PROVE  CurrentIsAVersion'
  BY <1>18 DEF IInv, TypeOK, AppRow, ModelRow, Snapshot, Answer, Phases, Losses,
     NewApp, NewModel, NoSnapshot, NoAnswer, CurrentIsAVersion, NamesAVersion,
     FinishTest, End, Goto, Losing, modelVars, seenVars
<1>19. ASSUME NEW r \in Requests, Authenticate(r)
      PROVE  CurrentIsAVersion'
  BY <1>19 DEF IInv, TypeOK, AppRow, ModelRow, Snapshot, Answer, Phases, Losses,
     NewApp, NewModel, NoSnapshot, NoAnswer, CurrentIsAVersion, NamesAVersion,
     Authenticate, Goto, modelVars, seenVars
<1>20. ASSUME NEW r \in Requests, Resolve(r)
      PROVE  CurrentIsAVersion'
  BY <1>20 DEF IInv, TypeOK, AppRow, ModelRow, Snapshot, Answer, Phases, Losses,
     NewApp, NewModel, NoSnapshot, NoAnswer, CurrentIsAVersion, NamesAVersion,
     Resolve, Goto, Resolvable, ServedContent, modelVars, seenVars
<1>21. ASSUME NEW r \in Requests, Answered(r)
      PROVE  CurrentIsAVersion'
  BY <1>21 DEF IInv, TypeOK, AppRow, ModelRow, Snapshot, Answer, Phases, Losses,
     NewApp, NewModel, NoSnapshot, NoAnswer, CurrentIsAVersion, NamesAVersion,
     Answered, Goto, modelVars, seenVars
<1> QED
  BY <1>0, <1>1, <1>2, <1>3, <1>4, <1>5, <1>6, <1>7, <1>8, <1>9, <1>10, <1>11,
     <1>12, <1>13, <1>14, <1>15, <1>16, <1>17, <1>18, <1>19, <1>20, <1>21 DEF Next,
     Operator, Request

(* Nothing is left of a deleted application.                               *)
LEMMA GoneStep ==
  IInv /\ [Next]_vars => GoneHasNothing'
<1> SUFFICES ASSUME IInv, [Next]_vars
             PROVE  GoneHasNothing'
  OBVIOUS
<1>0. CASE UNCHANGED vars
  BY <1>0 DEF vars, IInv, TypeOK, GoneHasNothing
<1>1. CASE Create
  BY <1>1 DEF IInv, TypeOK, GoneHasNothing, Create, modelVars, seenVars
<1>2. CASE Publish
  BY <1>2 DEF IInv, TypeOK, GoneHasNothing, Publish, MayPublish, BuildSnapshot,
     modelVars, seenVars
<1>3. CASE CloseLink
  BY <1>3 DEF IInv, TypeOK, GoneHasNothing, CloseLink, modelVars, seenVars
<1>4. CASE DeleteModel
  BY <1>4 DEF IInv, TypeOK, GoneHasNothing, DeleteModel, modelVars, seenVars
<1>5. ASSUME NEW chosen \in SUBSET kbs, PutKnowledge(chosen)
      PROVE  GoneHasNothing'
  BY <1>5 DEF IInv, TypeOK, GoneHasNothing, PutKnowledge, modelVars, seenVars
<1>6. ASSUME NEW v \in DOMAIN versions, Rollback(v)
      PROVE  GoneHasNothing'
  BY <1>6 DEF IInv, TypeOK, GoneHasNothing, Rollback, modelVars, seenVars
<1>7. ASSUME NEW k \in KnowledgeBases, DeleteKnowledgeBase(k)
      PROVE  GoneHasNothing'
  BY <1>7 DEF IInv, TypeOK, GoneHasNothing, DeleteKnowledgeBase, modelVars, seenVars
<1>8. ASSUME NEW r \in Requests, NEW op \in {"save", "delete", "disable", "open"}, ReadApplication(r, op)
      PROVE  GoneHasNothing'
  BY <1>8 DEF IInv, TypeOK, GoneHasNothing, ReadApplication, Goto, modelVars, seenVars
<1>9. ASSUME NEW r \in Requests, NEW op \in {"edit", "test"}, ReadModel(r, op)
      PROVE  GoneHasNothing'
  BY <1>9 DEF IInv, TypeOK, GoneHasNothing, ReadModel, Goto, modelVars, seenVars
<1>10. ASSUME NEW r \in Requests, SaveDraft(r)
      PROVE  GoneHasNothing'
  BY <1>10 DEF IInv, TypeOK, GoneHasNothing, SaveDraft, End, Goto, Losing,
     modelVars, seenVars
<1>11. ASSUME NEW r \in Requests, DeleteApplication(r)
      PROVE  GoneHasNothing'
  BY <1>11 DEF IInv, TypeOK, GoneHasNothing, DeleteApplication, Doomed, modelVars,
     seenVars
<1>12. ASSUME NEW r \in Requests, DisableStatus(r)
      PROVE  GoneHasNothing'
  BY <1>12 DEF IInv, TypeOK, GoneHasNothing, DisableStatus, End, Goto, modelVars,
     seenVars
<1>13. ASSUME NEW r \in Requests, DisableLink(r)
      PROVE  GoneHasNothing'
  BY <1>13 DEF IInv, TypeOK, GoneHasNothing, DisableLink, End, Goto, modelVars,
     seenVars
<1>14. ASSUME NEW r \in Requests, DieDisabling(r)
      PROVE  GoneHasNothing'
  BY <1>14 DEF IInv, TypeOK, GoneHasNothing, DieDisabling, End, Goto, Losing,
     modelVars, seenVars
<1>15. ASSUME NEW r \in Requests, OpenLink(r)
      PROVE  GoneHasNothing'
  BY <1>15 DEF IInv, TypeOK, GoneHasNothing, OpenLink, End, Goto, Losing, modelVars,
     seenVars
<1>16. ASSUME NEW r \in Requests, GiveUp(r)
      PROVE  GoneHasNothing'
  BY <1>16 DEF IInv, TypeOK, GoneHasNothing, GiveUp, End, Goto, modelVars, seenVars
<1>17. ASSUME NEW r \in Requests, EditModel(r)
      PROVE  GoneHasNothing'
  BY <1>17 DEF IInv, TypeOK, GoneHasNothing, EditModel, End, Goto, Losing,
     EditedModel, modelVars, seenVars
<1>18. ASSUME NEW r \in Requests, FinishTest(r)
      PROVE  GoneHasNothing'
  BY <1>18 DEF IInv, TypeOK, GoneHasNothing, FinishTest, End, Goto, Losing,
     modelVars, seenVars
<1>19. ASSUME NEW r \in Requests, Authenticate(r)
      PROVE  GoneHasNothing'
  BY <1>19 DEF IInv, TypeOK, GoneHasNothing, Authenticate, Goto, modelVars, seenVars
<1>20. ASSUME NEW r \in Requests, Resolve(r)
      PROVE  GoneHasNothing'
  BY <1>20 DEF IInv, TypeOK, GoneHasNothing, Resolve, Goto, Resolvable,
     ServedContent, modelVars, seenVars
<1>21. ASSUME NEW r \in Requests, Answered(r)
      PROVE  GoneHasNothing'
  BY <1>21 DEF IInv, TypeOK, GoneHasNothing, Answered, Goto, modelVars, seenVars
<1> QED
  BY <1>0, <1>1, <1>2, <1>3, <1>4, <1>5, <1>6, <1>7, <1>8, <1>9, <1>10, <1>11,
     <1>12, <1>13, <1>14, <1>15, <1>16, <1>17, <1>18, <1>19, <1>20, <1>21 DEF Next,
     Operator, Request

(* The public link is open only where it may be.                           *)
LEMMA OpenStep ==
  IInv /\ [Next]_vars => OpenMeansPublished'
<1> SUFFICES ASSUME IInv, [Next]_vars
             PROVE  OpenMeansPublished'
  OBVIOUS
<1>0. CASE UNCHANGED vars
  BY <1>0 DEF vars, IInv, TypeOK, AppRow, OpenMeansPublished, GoneHasNothing, NewApp
<1>1. CASE Create
  BY <1>1 DEF IInv, TypeOK, AppRow, OpenMeansPublished, GoneHasNothing, NewApp,
     Create, modelVars, seenVars
<1>2. CASE Publish
  BY <1>2 DEF IInv, TypeOK, AppRow, OpenMeansPublished, GoneHasNothing, NewApp,
     Publish, MayPublish, BuildSnapshot, modelVars, seenVars
<1>3. CASE CloseLink
  BY <1>3 DEF IInv, TypeOK, AppRow, OpenMeansPublished, GoneHasNothing, NewApp,
     CloseLink, modelVars, seenVars
<1>4. CASE DeleteModel
  BY <1>4 DEF IInv, TypeOK, AppRow, OpenMeansPublished, GoneHasNothing, NewApp,
     DeleteModel, modelVars, seenVars
<1>5. ASSUME NEW chosen \in SUBSET kbs, PutKnowledge(chosen)
      PROVE  OpenMeansPublished'
  BY <1>5 DEF IInv, TypeOK, AppRow, OpenMeansPublished, GoneHasNothing, NewApp,
     PutKnowledge, modelVars, seenVars
<1>6. ASSUME NEW v \in DOMAIN versions, Rollback(v)
      PROVE  OpenMeansPublished'
  BY <1>6 DEF IInv, TypeOK, AppRow, OpenMeansPublished, GoneHasNothing, NewApp,
     Rollback, modelVars, seenVars
<1>7. ASSUME NEW k \in KnowledgeBases, DeleteKnowledgeBase(k)
      PROVE  OpenMeansPublished'
  BY <1>7 DEF IInv, TypeOK, AppRow, OpenMeansPublished, GoneHasNothing, NewApp,
     DeleteKnowledgeBase, modelVars, seenVars
<1>8. ASSUME NEW r \in Requests, NEW op \in {"save", "delete", "disable", "open"}, ReadApplication(r, op)
      PROVE  OpenMeansPublished'
  BY <1>8 DEF IInv, TypeOK, AppRow, OpenMeansPublished, GoneHasNothing, NewApp,
     ReadApplication, Goto, modelVars, seenVars
<1>9. ASSUME NEW r \in Requests, NEW op \in {"edit", "test"}, ReadModel(r, op)
      PROVE  OpenMeansPublished'
  BY <1>9 DEF IInv, TypeOK, AppRow, OpenMeansPublished, GoneHasNothing, NewApp,
     ReadModel, Goto, modelVars, seenVars
<1>10. ASSUME NEW r \in Requests, SaveDraft(r)
      PROVE  OpenMeansPublished'
  BY <1>10 DEF IInv, TypeOK, AppRow, OpenMeansPublished, GoneHasNothing, NewApp,
     SaveDraft, End, Goto, Losing, modelVars, seenVars
<1>11. ASSUME NEW r \in Requests, DeleteApplication(r)
      PROVE  OpenMeansPublished'
  BY <1>11 DEF IInv, TypeOK, AppRow, OpenMeansPublished, GoneHasNothing, NewApp,
     DeleteApplication, Doomed, modelVars, seenVars
<1>12. ASSUME NEW r \in Requests, DisableStatus(r)
      PROVE  OpenMeansPublished'
  BY <1>12 DEF IInv, TypeOK, AppRow, OpenMeansPublished, GoneHasNothing, NewApp,
     DisableStatus, End, Goto, modelVars, seenVars
<1>13. ASSUME NEW r \in Requests, DisableLink(r)
      PROVE  OpenMeansPublished'
  BY <1>13 DEF IInv, TypeOK, AppRow, OpenMeansPublished, GoneHasNothing, NewApp,
     DisableLink, End, Goto, modelVars, seenVars
<1>14. ASSUME NEW r \in Requests, DieDisabling(r)
      PROVE  OpenMeansPublished'
  BY <1>14 DEF IInv, TypeOK, AppRow, OpenMeansPublished, GoneHasNothing, NewApp,
     DieDisabling, End, Goto, Losing, modelVars, seenVars
<1>15. ASSUME NEW r \in Requests, OpenLink(r)
      PROVE  OpenMeansPublished'
  BY <1>15 DEF IInv, TypeOK, AppRow, OpenMeansPublished, GoneHasNothing, NewApp,
     OpenLink, End, Goto, Losing, modelVars, seenVars
<1>16. ASSUME NEW r \in Requests, GiveUp(r)
      PROVE  OpenMeansPublished'
  BY <1>16 DEF IInv, TypeOK, AppRow, OpenMeansPublished, GoneHasNothing, NewApp,
     GiveUp, End, Goto, modelVars, seenVars
<1>17. ASSUME NEW r \in Requests, EditModel(r)
      PROVE  OpenMeansPublished'
  BY <1>17 DEF IInv, TypeOK, AppRow, OpenMeansPublished, GoneHasNothing, NewApp,
     EditModel, End, Goto, Losing, EditedModel, modelVars, seenVars
<1>18. ASSUME NEW r \in Requests, FinishTest(r)
      PROVE  OpenMeansPublished'
  BY <1>18 DEF IInv, TypeOK, AppRow, OpenMeansPublished, GoneHasNothing, NewApp,
     FinishTest, End, Goto, Losing, modelVars, seenVars
<1>19. ASSUME NEW r \in Requests, Authenticate(r)
      PROVE  OpenMeansPublished'
  BY <1>19 DEF IInv, TypeOK, AppRow, OpenMeansPublished, GoneHasNothing, NewApp,
     Authenticate, Goto, modelVars, seenVars
<1>20. ASSUME NEW r \in Requests, Resolve(r)
      PROVE  OpenMeansPublished'
  BY <1>20 DEF IInv, TypeOK, AppRow, OpenMeansPublished, GoneHasNothing, NewApp,
     Resolve, Goto, Resolvable, ServedContent, modelVars, seenVars
<1>21. ASSUME NEW r \in Requests, Answered(r)
      PROVE  OpenMeansPublished'
  BY <1>21 DEF IInv, TypeOK, AppRow, OpenMeansPublished, GoneHasNothing, NewApp,
     Answered, Goto, modelVars, seenVars
<1> QED
  BY <1>0, <1>1, <1>2, <1>3, <1>4, <1>5, <1>6, <1>7, <1>8, <1>9, <1>10, <1>11,
     <1>12, <1>13, <1>14, <1>15, <1>16, <1>17, <1>18, <1>19, <1>20, <1>21 DEF Next,
     Operator, Request

(* A row that says it was tested was.                                      *)
LEMMA TestedStep ==
  IInv /\ [Next]_vars => TestedHasPassed'
<1> SUFFICES ASSUME IInv, [Next]_vars
             PROVE  TestedHasPassed'
  OBVIOUS
<1>0. CASE UNCHANGED vars
  BY <1>0 DEF vars, IInv, TypeOK, ModelRow, TestedHasPassed, NewModel
<1>1. CASE Create
  BY <1>1 DEF IInv, TypeOK, ModelRow, TestedHasPassed, NewModel, Create, modelVars,
     seenVars
<1>2. CASE Publish
  BY <1>2 DEF IInv, TypeOK, ModelRow, TestedHasPassed, NewModel, Publish,
     MayPublish, BuildSnapshot, modelVars, seenVars
<1>3. CASE CloseLink
  BY <1>3 DEF IInv, TypeOK, ModelRow, TestedHasPassed, NewModel, CloseLink,
     modelVars, seenVars
<1>4. CASE DeleteModel
  BY <1>4 DEF IInv, TypeOK, ModelRow, TestedHasPassed, NewModel, DeleteModel,
     modelVars, seenVars
<1>5. ASSUME NEW chosen \in SUBSET kbs, PutKnowledge(chosen)
      PROVE  TestedHasPassed'
  BY <1>5 DEF IInv, TypeOK, ModelRow, TestedHasPassed, NewModel, PutKnowledge,
     modelVars, seenVars
<1>6. ASSUME NEW v \in DOMAIN versions, Rollback(v)
      PROVE  TestedHasPassed'
  BY <1>6 DEF IInv, TypeOK, ModelRow, TestedHasPassed, NewModel, Rollback,
     modelVars, seenVars
<1>7. ASSUME NEW k \in KnowledgeBases, DeleteKnowledgeBase(k)
      PROVE  TestedHasPassed'
  BY <1>7 DEF IInv, TypeOK, ModelRow, TestedHasPassed, NewModel,
     DeleteKnowledgeBase, modelVars, seenVars
<1>8. ASSUME NEW r \in Requests, NEW op \in {"save", "delete", "disable", "open"}, ReadApplication(r, op)
      PROVE  TestedHasPassed'
  BY <1>8 DEF IInv, TypeOK, ModelRow, TestedHasPassed, NewModel, ReadApplication,
     Goto, modelVars, seenVars
<1>9. ASSUME NEW r \in Requests, NEW op \in {"edit", "test"}, ReadModel(r, op)
      PROVE  TestedHasPassed'
  BY <1>9 DEF IInv, TypeOK, ModelRow, TestedHasPassed, NewModel, ReadModel, Goto,
     modelVars, seenVars
<1>10. ASSUME NEW r \in Requests, SaveDraft(r)
      PROVE  TestedHasPassed'
  BY <1>10 DEF IInv, TypeOK, ModelRow, TestedHasPassed, NewModel, SaveDraft, End,
     Goto, Losing, modelVars, seenVars
<1>11. ASSUME NEW r \in Requests, DeleteApplication(r)
      PROVE  TestedHasPassed'
  BY <1>11 DEF IInv, TypeOK, ModelRow, TestedHasPassed, NewModel, DeleteApplication,
     Doomed, modelVars, seenVars
<1>12. ASSUME NEW r \in Requests, DisableStatus(r)
      PROVE  TestedHasPassed'
  <2>1. modelRow' = modelRow \/ modelRow' = [modelRow EXCEPT ![r] = NewModel]
    BY <1>12 DEF DisableStatus, End, seenVars
  <2>2. ~NewModel.tested
    BY DEF NewModel
  <2> QED
    BY <1>12, <2>1, <2>2 DEF DisableStatus, IInv, TypeOK, TestedHasPassed, modelVars
<1>13. ASSUME NEW r \in Requests, DisableLink(r)
      PROVE  TestedHasPassed'
  BY <1>13 DEF IInv, TypeOK, ModelRow, TestedHasPassed, NewModel, DisableLink, End,
     Goto, modelVars, seenVars
<1>14. ASSUME NEW r \in Requests, DieDisabling(r)
      PROVE  TestedHasPassed'
  BY <1>14 DEF IInv, TypeOK, ModelRow, TestedHasPassed, NewModel, DieDisabling, End,
     Goto, Losing, modelVars, seenVars
<1>15. ASSUME NEW r \in Requests, OpenLink(r)
      PROVE  TestedHasPassed'
  BY <1>15 DEF IInv, TypeOK, ModelRow, TestedHasPassed, NewModel, OpenLink, End,
     Goto, Losing, modelVars, seenVars
<1>16. ASSUME NEW r \in Requests, GiveUp(r)
      PROVE  TestedHasPassed'
  BY <1>16 DEF IInv, TypeOK, ModelRow, TestedHasPassed, NewModel, GiveUp, End, Goto,
     modelVars, seenVars
<1>17. ASSUME NEW r \in Requests, EditModel(r)
      PROVE  TestedHasPassed'
  BY <1>17 DEF IInv, TypeOK, ModelRow, TestedHasPassed, NewModel, EditModel, End,
     Goto, Losing, EditedModel, modelVars, seenVars
<1>18. ASSUME NEW r \in Requests, FinishTest(r)
      PROVE  TestedHasPassed'
  BY <1>18 DEF IInv, TypeOK, ModelRow, TestedHasPassed, NewModel, FinishTest, End,
     Goto, Losing, modelVars, seenVars
<1>19. ASSUME NEW r \in Requests, Authenticate(r)
      PROVE  TestedHasPassed'
  BY <1>19 DEF IInv, TypeOK, ModelRow, TestedHasPassed, NewModel, Authenticate,
     Goto, modelVars, seenVars
<1>20. ASSUME NEW r \in Requests, Resolve(r)
      PROVE  TestedHasPassed'
  BY <1>20 DEF IInv, TypeOK, ModelRow, TestedHasPassed, NewModel, Resolve, Goto,
     Resolvable, ServedContent, modelVars, seenVars
<1>21. ASSUME NEW r \in Requests, Answered(r)
      PROVE  TestedHasPassed'
  BY <1>21 DEF IInv, TypeOK, ModelRow, TestedHasPassed, NewModel, Answered, Goto,
     modelVars, seenVars
<1> QED
  BY <1>0, <1>1, <1>2, <1>3, <1>4, <1>5, <1>6, <1>7, <1>8, <1>9, <1>10, <1>11,
     <1>12, <1>13, <1>14, <1>15, <1>16, <1>17, <1>18, <1>19, <1>20, <1>21 DEF Next,
     Operator, Request

(* So was the model of every published version.                            *)
LEMMA PublishedStep ==
  IInv /\ [Next]_vars => PublishedWasTested'
<1> SUFFICES ASSUME IInv, [Next]_vars
             PROVE  PublishedWasTested'
  OBVIOUS
<1>0. CASE UNCHANGED vars
  BY <1>0 DEF vars, IInv, TypeOK, Snapshot, ModelRow, TestedHasPassed,
     PublishedWasTested, NoSnapshot
<1>1. CASE Create
  BY <1>1 DEF IInv, TypeOK, Snapshot, ModelRow, TestedHasPassed, PublishedWasTested,
     NoSnapshot, Create, modelVars, seenVars
<1>2. CASE Publish
  BY <1>2 DEF IInv, TypeOK, Snapshot, ModelRow, TestedHasPassed, PublishedWasTested,
     NoSnapshot, Publish, MayPublish, BuildSnapshot, modelVars, seenVars
<1>3. CASE CloseLink
  BY <1>3 DEF IInv, TypeOK, Snapshot, ModelRow, TestedHasPassed, PublishedWasTested,
     NoSnapshot, CloseLink, modelVars, seenVars
<1>4. CASE DeleteModel
  BY <1>4 DEF IInv, TypeOK, Snapshot, ModelRow, TestedHasPassed, PublishedWasTested,
     NoSnapshot, DeleteModel, modelVars, seenVars
<1>5. ASSUME NEW chosen \in SUBSET kbs, PutKnowledge(chosen)
      PROVE  PublishedWasTested'
  BY <1>5 DEF IInv, TypeOK, Snapshot, ModelRow, TestedHasPassed, PublishedWasTested,
     NoSnapshot, PutKnowledge, modelVars, seenVars
<1>6. ASSUME NEW v \in DOMAIN versions, Rollback(v)
      PROVE  PublishedWasTested'
  BY <1>6 DEF IInv, TypeOK, Snapshot, ModelRow, TestedHasPassed, PublishedWasTested,
     NoSnapshot, Rollback, modelVars, seenVars
<1>7. ASSUME NEW k \in KnowledgeBases, DeleteKnowledgeBase(k)
      PROVE  PublishedWasTested'
  BY <1>7 DEF IInv, TypeOK, Snapshot, ModelRow, TestedHasPassed, PublishedWasTested,
     NoSnapshot, DeleteKnowledgeBase, modelVars, seenVars
<1>8. ASSUME NEW r \in Requests, NEW op \in {"save", "delete", "disable", "open"}, ReadApplication(r, op)
      PROVE  PublishedWasTested'
  BY <1>8 DEF IInv, TypeOK, Snapshot, ModelRow, TestedHasPassed, PublishedWasTested,
     NoSnapshot, ReadApplication, Goto, modelVars, seenVars
<1>9. ASSUME NEW r \in Requests, NEW op \in {"edit", "test"}, ReadModel(r, op)
      PROVE  PublishedWasTested'
  BY <1>9 DEF IInv, TypeOK, Snapshot, ModelRow, TestedHasPassed, PublishedWasTested,
     NoSnapshot, ReadModel, Goto, modelVars, seenVars
<1>10. ASSUME NEW r \in Requests, SaveDraft(r)
      PROVE  PublishedWasTested'
  BY <1>10 DEF IInv, TypeOK, Snapshot, ModelRow, TestedHasPassed,
     PublishedWasTested, NoSnapshot, SaveDraft, End, Goto, Losing, modelVars,
     seenVars
<1>11. ASSUME NEW r \in Requests, DeleteApplication(r)
      PROVE  PublishedWasTested'
  BY <1>11 DEF IInv, TypeOK, Snapshot, ModelRow, TestedHasPassed,
     PublishedWasTested, NoSnapshot, DeleteApplication, Doomed, modelVars, seenVars
<1>12. ASSUME NEW r \in Requests, DisableStatus(r)
      PROVE  PublishedWasTested'
  BY <1>12 DEF IInv, TypeOK, Snapshot, ModelRow, TestedHasPassed,
     PublishedWasTested, NoSnapshot, DisableStatus, End, Goto, modelVars, seenVars
<1>13. ASSUME NEW r \in Requests, DisableLink(r)
      PROVE  PublishedWasTested'
  BY <1>13 DEF IInv, TypeOK, Snapshot, ModelRow, TestedHasPassed,
     PublishedWasTested, NoSnapshot, DisableLink, End, Goto, modelVars, seenVars
<1>14. ASSUME NEW r \in Requests, DieDisabling(r)
      PROVE  PublishedWasTested'
  BY <1>14 DEF IInv, TypeOK, Snapshot, ModelRow, TestedHasPassed,
     PublishedWasTested, NoSnapshot, DieDisabling, End, Goto, Losing, modelVars,
     seenVars
<1>15. ASSUME NEW r \in Requests, OpenLink(r)
      PROVE  PublishedWasTested'
  BY <1>15 DEF IInv, TypeOK, Snapshot, ModelRow, TestedHasPassed,
     PublishedWasTested, NoSnapshot, OpenLink, End, Goto, Losing, modelVars,
     seenVars
<1>16. ASSUME NEW r \in Requests, GiveUp(r)
      PROVE  PublishedWasTested'
  BY <1>16 DEF IInv, TypeOK, Snapshot, ModelRow, TestedHasPassed,
     PublishedWasTested, NoSnapshot, GiveUp, End, Goto, modelVars, seenVars
<1>17. ASSUME NEW r \in Requests, EditModel(r)
      PROVE  PublishedWasTested'
  BY <1>17 DEF IInv, TypeOK, Snapshot, ModelRow, TestedHasPassed,
     PublishedWasTested, NoSnapshot, EditModel, End, Goto, Losing, EditedModel,
     modelVars, seenVars
<1>18. ASSUME NEW r \in Requests, FinishTest(r)
      PROVE  PublishedWasTested'
  BY <1>18 DEF IInv, TypeOK, Snapshot, ModelRow, TestedHasPassed,
     PublishedWasTested, NoSnapshot, FinishTest, End, Goto, Losing, modelVars,
     seenVars
<1>19. ASSUME NEW r \in Requests, Authenticate(r)
      PROVE  PublishedWasTested'
  BY <1>19 DEF IInv, TypeOK, Snapshot, ModelRow, TestedHasPassed,
     PublishedWasTested, NoSnapshot, Authenticate, Goto, modelVars, seenVars
<1>20. ASSUME NEW r \in Requests, Resolve(r)
      PROVE  PublishedWasTested'
  BY <1>20 DEF IInv, TypeOK, Snapshot, ModelRow, TestedHasPassed,
     PublishedWasTested, NoSnapshot, Resolve, Goto, Resolvable, ServedContent,
     modelVars, seenVars
<1>21. ASSUME NEW r \in Requests, Answered(r)
      PROVE  PublishedWasTested'
  BY <1>21 DEF IInv, TypeOK, Snapshot, ModelRow, TestedHasPassed,
     PublishedWasTested, NoSnapshot, Answered, Goto, modelVars, seenVars
<1> QED
  BY <1>0, <1>1, <1>2, <1>3, <1>4, <1>5, <1>6, <1>7, <1>8, <1>9, <1>10, <1>11,
     <1>12, <1>13, <1>14, <1>15, <1>16, <1>17, <1>18, <1>19, <1>20, <1>21 DEF Next,
     Operator, Request

(* A revision stands for one content until an edit overwrites another.     *)
LEMMA RevisionStep ==
  IInv /\ [Next]_vars => RevisionNamesContent'
<1> SUFFICES ASSUME IInv, [Next]_vars
             PROVE  RevisionNamesContent'
  OBVIOUS
<1>0. CASE UNCHANGED vars
  BY <1>0 DEF vars, IInv, TypeOK, Snapshot, ModelRow, AppRow, RevisionNamesContent,
     NoSnapshot
<1>1. CASE Create
  BY <1>1 DEF IInv, TypeOK, Snapshot, ModelRow, AppRow, RevisionNamesContent,
     NoSnapshot, Create, modelVars, seenVars
<1>2. CASE Publish
  BY <1>2 DEF IInv, TypeOK, Snapshot, ModelRow, AppRow, RevisionNamesContent,
     NoSnapshot, Publish, MayPublish, BuildSnapshot, modelVars, seenVars
<1>3. CASE CloseLink
  BY <1>3 DEF IInv, TypeOK, Snapshot, ModelRow, AppRow, RevisionNamesContent,
     NoSnapshot, CloseLink, modelVars, seenVars
<1>4. CASE DeleteModel
  BY <1>4 DEF IInv, TypeOK, Snapshot, ModelRow, AppRow, RevisionNamesContent,
     NoSnapshot, DeleteModel, modelVars, seenVars
<1>5. ASSUME NEW chosen \in SUBSET kbs, PutKnowledge(chosen)
      PROVE  RevisionNamesContent'
  BY <1>5 DEF IInv, TypeOK, Snapshot, ModelRow, AppRow, RevisionNamesContent,
     NoSnapshot, PutKnowledge, modelVars, seenVars
<1>6. ASSUME NEW v \in DOMAIN versions, Rollback(v)
      PROVE  RevisionNamesContent'
  BY <1>6 DEF IInv, TypeOK, Snapshot, ModelRow, AppRow, RevisionNamesContent,
     NoSnapshot, Rollback, modelVars, seenVars
<1>7. ASSUME NEW k \in KnowledgeBases, DeleteKnowledgeBase(k)
      PROVE  RevisionNamesContent'
  BY <1>7 DEF IInv, TypeOK, Snapshot, ModelRow, AppRow, RevisionNamesContent,
     NoSnapshot, DeleteKnowledgeBase, modelVars, seenVars
<1>8. ASSUME NEW r \in Requests, NEW op \in {"save", "delete", "disable", "open"}, ReadApplication(r, op)
      PROVE  RevisionNamesContent'
  BY <1>8 DEF IInv, TypeOK, Snapshot, ModelRow, AppRow, RevisionNamesContent,
     NoSnapshot, ReadApplication, Goto, modelVars, seenVars
<1>9. ASSUME NEW r \in Requests, NEW op \in {"edit", "test"}, ReadModel(r, op)
      PROVE  RevisionNamesContent'
  BY <1>9 DEF IInv, TypeOK, Snapshot, ModelRow, AppRow, RevisionNamesContent,
     NoSnapshot, ReadModel, Goto, modelVars, seenVars
<1>10. ASSUME NEW r \in Requests, SaveDraft(r)
      PROVE  RevisionNamesContent'
  BY <1>10 DEF IInv, TypeOK, Snapshot, ModelRow, AppRow, RevisionNamesContent,
     NoSnapshot, SaveDraft, End, Goto, Losing, modelVars, seenVars
<1>11. ASSUME NEW r \in Requests, DeleteApplication(r)
      PROVE  RevisionNamesContent'
  BY <1>11 DEF IInv, TypeOK, Snapshot, ModelRow, AppRow, RevisionNamesContent,
     NoSnapshot, DeleteApplication, Doomed, modelVars, seenVars
<1>12. ASSUME NEW r \in Requests, DisableStatus(r)
      PROVE  RevisionNamesContent'
  BY <1>12 DEF IInv, TypeOK, Snapshot, ModelRow, AppRow, RevisionNamesContent,
     NoSnapshot, DisableStatus, End, Goto, modelVars, seenVars
<1>13. ASSUME NEW r \in Requests, DisableLink(r)
      PROVE  RevisionNamesContent'
  BY <1>13 DEF IInv, TypeOK, Snapshot, ModelRow, AppRow, RevisionNamesContent,
     NoSnapshot, DisableLink, End, Goto, modelVars, seenVars
<1>14. ASSUME NEW r \in Requests, DieDisabling(r)
      PROVE  RevisionNamesContent'
  BY <1>14 DEF IInv, TypeOK, Snapshot, ModelRow, AppRow, RevisionNamesContent,
     NoSnapshot, DieDisabling, End, Goto, Losing, modelVars, seenVars
<1>15. ASSUME NEW r \in Requests, OpenLink(r)
      PROVE  RevisionNamesContent'
  BY <1>15 DEF IInv, TypeOK, Snapshot, ModelRow, AppRow, RevisionNamesContent,
     NoSnapshot, OpenLink, End, Goto, Losing, modelVars, seenVars
<1>16. ASSUME NEW r \in Requests, GiveUp(r)
      PROVE  RevisionNamesContent'
  BY <1>16 DEF IInv, TypeOK, Snapshot, ModelRow, AppRow, RevisionNamesContent,
     NoSnapshot, GiveUp, End, Goto, modelVars, seenVars
<1>17. ASSUME NEW r \in Requests, EditModel(r)
      PROVE  RevisionNamesContent'
  <2> SUFFICES ASSUME "edit" \notin lost'
               PROVE  RevisionNamesContent'
    BY DEF RevisionNamesContent
  <2>1. "edit" \notin lost /\ model = modelRow[r]
    BY <1>17 DEF EditModel, Losing
  <2>2. model' = model \/ model' = [model EXCEPT !.tested = FALSE]
         \/ model'.revision = model.revision + 1
    BY <1>17, <2>1 DEF EditModel, EditedModel
  <2>3. model.revision \in Nat /\ model \in ModelRow
    BY DEF IInv, TypeOK, ModelRow
  <2>4. CASE model'.revision = model.revision + 1
    <3>1. \A i \in DOMAIN versions : versions[i].config =>
            versions[i].revision \in Nat /\ versions[i].revision <= model.revision
      <4>1. \A i \in DOMAIN versions : versions[i] \in Snapshot
        BY DEF IInv, TypeOK
      <4> QED
        BY <2>1, <4>1 DEF IInv, Snapshot, RevisionNamesContent
    <3>2. \A i \in DOMAIN versions : versions[i].config =>
            versions[i].revision < model'.revision
      BY <2>3, <2>4, <3>1
    <3>3. versions' = versions
      BY <1>17 DEF EditModel
    <3>4. \A i \in DOMAIN versions : versions[i].config =>
            versions[i].revision <= model'.revision /\ versions[i].revision # model'.revision
      BY <2>3, <2>4, <3>1, <3>2
    <3> QED
      BY <3>3, <3>4 DEF RevisionNamesContent
  <2>5. CASE model' = model \/ model' = [model EXCEPT !.tested = FALSE]
    <3>1. [model EXCEPT !.tested = FALSE].revision = model.revision
           /\ [model EXCEPT !.tested = FALSE].content = model.content
      BY <2>3 DEF ModelRow
    <3>2. model'.revision = model.revision /\ model'.content = model.content
      BY <2>5, <3>1
    <3> QED
      BY <1>17, <2>1, <3>2 DEF EditModel, IInv, RevisionNamesContent
  <2> QED
    BY <2>2, <2>4, <2>5
<1>18. ASSUME NEW r \in Requests, FinishTest(r)
      PROVE  RevisionNamesContent'
  BY <1>18 DEF IInv, TypeOK, Snapshot, ModelRow, AppRow, RevisionNamesContent,
     NoSnapshot, FinishTest, End, Goto, Losing, modelVars, seenVars
<1>19. ASSUME NEW r \in Requests, Authenticate(r)
      PROVE  RevisionNamesContent'
  BY <1>19 DEF IInv, TypeOK, Snapshot, ModelRow, AppRow, RevisionNamesContent,
     NoSnapshot, Authenticate, Goto, modelVars, seenVars
<1>20. ASSUME NEW r \in Requests, Resolve(r)
      PROVE  RevisionNamesContent'
  BY <1>20 DEF IInv, TypeOK, Snapshot, ModelRow, AppRow, RevisionNamesContent,
     NoSnapshot, Resolve, Goto, Resolvable, ServedContent, modelVars, seenVars
<1>21. ASSUME NEW r \in Requests, Answered(r)
      PROVE  RevisionNamesContent'
  BY <1>21 DEF IInv, TypeOK, Snapshot, ModelRow, AppRow, RevisionNamesContent,
     NoSnapshot, Answered, Goto, modelVars, seenVars
<1> QED
  BY <1>0, <1>1, <1>2, <1>3, <1>4, <1>5, <1>6, <1>7, <1>8, <1>9, <1>10, <1>11,
     <1>12, <1>13, <1>14, <1>15, <1>16, <1>17, <1>18, <1>19, <1>20, <1>21 DEF Next,
     Operator, Request

(* A question that was let in names a version that is there.               *)
LEMMA QuestionStep ==
  IInv /\ [Next]_vars => QuestionsNameAVersion'
<1> SUFFICES ASSUME IInv, [Next]_vars
             PROVE  QuestionsNameAVersion'
  OBVIOUS
<1>0. CASE UNCHANGED vars
  BY <1>0 DEF vars, IInv, TypeOK, Answer, Phases, QuestionsNameAVersion,
     CurrentIsAVersion, NamesAVersion, Snapshot, AppRow
<1>1. CASE Create
  BY <1>1 DEF IInv, TypeOK, Answer, Phases, QuestionsNameAVersion,
     CurrentIsAVersion, NamesAVersion, Snapshot, AppRow, Create, modelVars, seenVars
<1>2. CASE Publish
  BY <1>2 DEF IInv, TypeOK, Answer, Phases, QuestionsNameAVersion,
     CurrentIsAVersion, NamesAVersion, Snapshot, AppRow, Publish, MayPublish,
     BuildSnapshot, modelVars, seenVars
<1>3. CASE CloseLink
  BY <1>3 DEF IInv, TypeOK, Answer, Phases, QuestionsNameAVersion,
     CurrentIsAVersion, NamesAVersion, Snapshot, AppRow, CloseLink, modelVars,
     seenVars
<1>4. CASE DeleteModel
  BY <1>4 DEF IInv, TypeOK, Answer, Phases, QuestionsNameAVersion,
     CurrentIsAVersion, NamesAVersion, Snapshot, AppRow, DeleteModel, modelVars,
     seenVars
<1>5. ASSUME NEW chosen \in SUBSET kbs, PutKnowledge(chosen)
      PROVE  QuestionsNameAVersion'
  BY <1>5 DEF IInv, TypeOK, Answer, Phases, QuestionsNameAVersion,
     CurrentIsAVersion, NamesAVersion, Snapshot, AppRow, PutKnowledge, modelVars,
     seenVars
<1>6. ASSUME NEW v \in DOMAIN versions, Rollback(v)
      PROVE  QuestionsNameAVersion'
  BY <1>6 DEF IInv, TypeOK, Answer, Phases, QuestionsNameAVersion,
     CurrentIsAVersion, NamesAVersion, Snapshot, AppRow, Rollback, modelVars,
     seenVars
<1>7. ASSUME NEW k \in KnowledgeBases, DeleteKnowledgeBase(k)
      PROVE  QuestionsNameAVersion'
  BY <1>7 DEF IInv, TypeOK, Answer, Phases, QuestionsNameAVersion,
     CurrentIsAVersion, NamesAVersion, Snapshot, AppRow, DeleteKnowledgeBase,
     modelVars, seenVars
<1>8. ASSUME NEW r \in Requests, NEW op \in {"save", "delete", "disable", "open"}, ReadApplication(r, op)
      PROVE  QuestionsNameAVersion'
  BY <1>8 DEF IInv, TypeOK, Answer, Phases, QuestionsNameAVersion,
     CurrentIsAVersion, NamesAVersion, Snapshot, AppRow, ReadApplication, Goto,
     modelVars, seenVars
<1>9. ASSUME NEW r \in Requests, NEW op \in {"edit", "test"}, ReadModel(r, op)
      PROVE  QuestionsNameAVersion'
  BY <1>9 DEF IInv, TypeOK, Answer, Phases, QuestionsNameAVersion,
     CurrentIsAVersion, NamesAVersion, Snapshot, AppRow, ReadModel, Goto, modelVars,
     seenVars
<1>10. ASSUME NEW r \in Requests, SaveDraft(r)
      PROVE  QuestionsNameAVersion'
  BY <1>10 DEF IInv, TypeOK, Answer, Phases, QuestionsNameAVersion,
     CurrentIsAVersion, NamesAVersion, Snapshot, AppRow, SaveDraft, End, Goto,
     Losing, modelVars, seenVars
<1>11. ASSUME NEW r \in Requests, DeleteApplication(r)
      PROVE  QuestionsNameAVersion'
  BY <1>11 DEF IInv, TypeOK, Answer, Phases, QuestionsNameAVersion,
     CurrentIsAVersion, NamesAVersion, Snapshot, AppRow, DeleteApplication, Doomed,
     modelVars, seenVars
<1>12. ASSUME NEW r \in Requests, DisableStatus(r)
      PROVE  QuestionsNameAVersion'
  BY <1>12 DEF IInv, TypeOK, Answer, Phases, QuestionsNameAVersion,
     CurrentIsAVersion, NamesAVersion, Snapshot, AppRow, DisableStatus, End, Goto,
     modelVars, seenVars
<1>13. ASSUME NEW r \in Requests, DisableLink(r)
      PROVE  QuestionsNameAVersion'
  BY <1>13 DEF IInv, TypeOK, Answer, Phases, QuestionsNameAVersion,
     CurrentIsAVersion, NamesAVersion, Snapshot, AppRow, DisableLink, End, Goto,
     modelVars, seenVars
<1>14. ASSUME NEW r \in Requests, DieDisabling(r)
      PROVE  QuestionsNameAVersion'
  BY <1>14 DEF IInv, TypeOK, Answer, Phases, QuestionsNameAVersion,
     CurrentIsAVersion, NamesAVersion, Snapshot, AppRow, DieDisabling, End, Goto,
     Losing, modelVars, seenVars
<1>15. ASSUME NEW r \in Requests, OpenLink(r)
      PROVE  QuestionsNameAVersion'
  BY <1>15 DEF IInv, TypeOK, Answer, Phases, QuestionsNameAVersion,
     CurrentIsAVersion, NamesAVersion, Snapshot, AppRow, OpenLink, End, Goto,
     Losing, modelVars, seenVars
<1>16. ASSUME NEW r \in Requests, GiveUp(r)
      PROVE  QuestionsNameAVersion'
  BY <1>16 DEF IInv, TypeOK, Answer, Phases, QuestionsNameAVersion,
     CurrentIsAVersion, NamesAVersion, Snapshot, AppRow, GiveUp, End, Goto,
     modelVars, seenVars
<1>17. ASSUME NEW r \in Requests, EditModel(r)
      PROVE  QuestionsNameAVersion'
  BY <1>17 DEF IInv, TypeOK, Answer, Phases, QuestionsNameAVersion,
     CurrentIsAVersion, NamesAVersion, Snapshot, AppRow, EditModel, End, Goto,
     Losing, EditedModel, modelVars, seenVars
<1>18. ASSUME NEW r \in Requests, FinishTest(r)
      PROVE  QuestionsNameAVersion'
  BY <1>18 DEF IInv, TypeOK, Answer, Phases, QuestionsNameAVersion,
     CurrentIsAVersion, NamesAVersion, Snapshot, AppRow, FinishTest, End, Goto,
     Losing, modelVars, seenVars
<1>19. ASSUME NEW r \in Requests, Authenticate(r)
      PROVE  QuestionsNameAVersion'
  BY <1>19 DEF IInv, TypeOK, Answer, Phases, QuestionsNameAVersion,
     CurrentIsAVersion, NamesAVersion, Snapshot, AppRow, Authenticate, Goto,
     modelVars, seenVars
<1>20. ASSUME NEW r \in Requests, Resolve(r)
      PROVE  QuestionsNameAVersion'
  BY <1>20 DEF IInv, TypeOK, Answer, Phases, QuestionsNameAVersion,
     CurrentIsAVersion, NamesAVersion, Snapshot, AppRow, Resolve, Goto, Resolvable,
     ServedContent, modelVars, seenVars
<1>21. ASSUME NEW r \in Requests, Answered(r)
      PROVE  QuestionsNameAVersion'
  BY <1>21 DEF IInv, TypeOK, Answer, Phases, QuestionsNameAVersion,
     CurrentIsAVersion, NamesAVersion, Snapshot, AppRow, Answered, Goto, modelVars,
     seenVars
<1> QED
  BY <1>0, <1>1, <1>2, <1>3, <1>4, <1>5, <1>6, <1>7, <1>8, <1>9, <1>10, <1>11,
     <1>12, <1>13, <1>14, <1>15, <1>16, <1>17, <1>18, <1>19, <1>20, <1>21 DEF Next,
     Operator, Request

(* An answer keeps to its version.                                         *)
LEMMA AnswerStep ==
  IInv /\ [Next]_vars => AnswersArePinned'
<1> SUFFICES ASSUME IInv, [Next]_vars
             PROVE  AnswersArePinned'
  OBVIOUS
<1>0. CASE UNCHANGED vars
  BY <1>0 DEF vars, IInv, TypeOK, Answer, Phases, AnswersArePinned,
     RevisionNamesContent, Snapshot
<1>1. CASE Create
  BY <1>1 DEF IInv, TypeOK, Answer, Phases, AnswersArePinned, RevisionNamesContent,
     Snapshot, Create, modelVars, seenVars
<1>2. CASE Publish
  BY <1>2 DEF IInv, TypeOK, Answer, Phases, AnswersArePinned, RevisionNamesContent,
     Snapshot, Publish, MayPublish, BuildSnapshot, modelVars, seenVars
<1>3. CASE CloseLink
  BY <1>3 DEF IInv, TypeOK, Answer, Phases, AnswersArePinned, RevisionNamesContent,
     Snapshot, CloseLink, modelVars, seenVars
<1>4. CASE DeleteModel
  BY <1>4 DEF IInv, TypeOK, Answer, Phases, AnswersArePinned, RevisionNamesContent,
     Snapshot, DeleteModel, modelVars, seenVars
<1>5. ASSUME NEW chosen \in SUBSET kbs, PutKnowledge(chosen)
      PROVE  AnswersArePinned'
  BY <1>5 DEF IInv, TypeOK, Answer, Phases, AnswersArePinned, RevisionNamesContent,
     Snapshot, PutKnowledge, modelVars, seenVars
<1>6. ASSUME NEW v \in DOMAIN versions, Rollback(v)
      PROVE  AnswersArePinned'
  BY <1>6 DEF IInv, TypeOK, Answer, Phases, AnswersArePinned, RevisionNamesContent,
     Snapshot, Rollback, modelVars, seenVars
<1>7. ASSUME NEW k \in KnowledgeBases, DeleteKnowledgeBase(k)
      PROVE  AnswersArePinned'
  BY <1>7 DEF IInv, TypeOK, Answer, Phases, AnswersArePinned, RevisionNamesContent,
     Snapshot, DeleteKnowledgeBase, modelVars, seenVars
<1>8. ASSUME NEW r \in Requests, NEW op \in {"save", "delete", "disable", "open"}, ReadApplication(r, op)
      PROVE  AnswersArePinned'
  BY <1>8 DEF IInv, TypeOK, Answer, Phases, AnswersArePinned, RevisionNamesContent,
     Snapshot, ReadApplication, Goto, modelVars, seenVars
<1>9. ASSUME NEW r \in Requests, NEW op \in {"edit", "test"}, ReadModel(r, op)
      PROVE  AnswersArePinned'
  BY <1>9 DEF IInv, TypeOK, Answer, Phases, AnswersArePinned, RevisionNamesContent,
     Snapshot, ReadModel, Goto, modelVars, seenVars
<1>10. ASSUME NEW r \in Requests, SaveDraft(r)
      PROVE  AnswersArePinned'
  BY <1>10 DEF IInv, TypeOK, Answer, Phases, AnswersArePinned, RevisionNamesContent,
     Snapshot, SaveDraft, End, Goto, Losing, modelVars, seenVars
<1>11. ASSUME NEW r \in Requests, DeleteApplication(r)
      PROVE  AnswersArePinned'
  BY <1>11 DEF IInv, TypeOK, Answer, Phases, AnswersArePinned, RevisionNamesContent,
     Snapshot, DeleteApplication, Doomed, modelVars, seenVars
<1>12. ASSUME NEW r \in Requests, DisableStatus(r)
      PROVE  AnswersArePinned'
  BY <1>12 DEF IInv, TypeOK, Answer, Phases, AnswersArePinned, RevisionNamesContent,
     Snapshot, DisableStatus, End, Goto, modelVars, seenVars
<1>13. ASSUME NEW r \in Requests, DisableLink(r)
      PROVE  AnswersArePinned'
  BY <1>13 DEF IInv, TypeOK, Answer, Phases, AnswersArePinned, RevisionNamesContent,
     Snapshot, DisableLink, End, Goto, modelVars, seenVars
<1>14. ASSUME NEW r \in Requests, DieDisabling(r)
      PROVE  AnswersArePinned'
  BY <1>14 DEF IInv, TypeOK, Answer, Phases, AnswersArePinned, RevisionNamesContent,
     Snapshot, DieDisabling, End, Goto, Losing, modelVars, seenVars
<1>15. ASSUME NEW r \in Requests, OpenLink(r)
      PROVE  AnswersArePinned'
  BY <1>15 DEF IInv, TypeOK, Answer, Phases, AnswersArePinned, RevisionNamesContent,
     Snapshot, OpenLink, End, Goto, Losing, modelVars, seenVars
<1>16. ASSUME NEW r \in Requests, GiveUp(r)
      PROVE  AnswersArePinned'
  BY <1>16 DEF IInv, TypeOK, Answer, Phases, AnswersArePinned, RevisionNamesContent,
     Snapshot, GiveUp, End, Goto, modelVars, seenVars
<1>17. ASSUME NEW r \in Requests, EditModel(r)
      PROVE  AnswersArePinned'
  BY <1>17 DEF IInv, TypeOK, Answer, Phases, AnswersArePinned, RevisionNamesContent,
     Snapshot, EditModel, End, Goto, Losing, EditedModel, modelVars, seenVars
<1>18. ASSUME NEW r \in Requests, FinishTest(r)
      PROVE  AnswersArePinned'
  BY <1>18 DEF IInv, TypeOK, Answer, Phases, AnswersArePinned, RevisionNamesContent,
     Snapshot, FinishTest, End, Goto, Losing, modelVars, seenVars
<1>19. ASSUME NEW r \in Requests, Authenticate(r)
      PROVE  AnswersArePinned'
  BY <1>19 DEF IInv, TypeOK, Answer, Phases, AnswersArePinned, RevisionNamesContent,
     Snapshot, Authenticate, Goto, modelVars, seenVars
<1>20. ASSUME NEW r \in Requests, Resolve(r)
      PROVE  AnswersArePinned'
  <2>1. PICK v \in DOMAIN versions :
          /\ Resolvable(versions[v])
          /\ answer' = [answer EXCEPT ![r] =
               [version |-> v, wanted |-> versions[v],
                content |-> ServedContent(versions[v]), kbs |-> versions[v].kbs \cap kbs]]
    BY <1>20 DEF Resolve
  <2>2. answer'[r].kbs = answer'[r].wanted.kbs
    BY <2>1 DEF Resolvable, IInv, TypeOK
  <2>3. answer'[r].content = answer'[r].wanted.content \/ "edit" \in lost
    <3>1. answer'[r].wanted = versions[v] /\ answer'[r].content = ServedContent(versions[v])
      BY <2>1 DEF IInv, TypeOK
    <3> QED
      BY <2>1, <3>1 DEF Resolvable, ServedContent, IInv, RevisionNamesContent
  <2>4. \A q \in Requests \ {r} : answer'[q] = answer[q] /\ pc'[q] = pc[q]
    BY <1>20, <2>1 DEF Resolve, Goto, IInv, TypeOK
  <2> QED
    BY <1>20, <2>2, <2>3, <2>4 DEF Resolve, IInv, AnswersArePinned
<1>21. ASSUME NEW r \in Requests, Answered(r)
      PROVE  AnswersArePinned'
  BY <1>21 DEF IInv, TypeOK, Answer, Phases, AnswersArePinned, RevisionNamesContent,
     Snapshot, Answered, Goto, modelVars, seenVars
<1> QED
  BY <1>0, <1>1, <1>2, <1>3, <1>4, <1>5, <1>6, <1>7, <1>8, <1>9, <1>10, <1>11,
     <1>12, <1>13, <1>14, <1>15, <1>16, <1>17, <1>18, <1>19, <1>20, <1>21 DEF Next,
     Operator, Request

-----------------------------------------------------------------------------
(* The inductive invariant holds of the initial states and of every step.  *)
THEOREM Invariance == Spec => []IInv
<1>1. Init => IInv
  <2> SUFFICES ASSUME Init PROVE IInv
    OBVIOUS
  <2>1. TypeOK
    <3>1. NewApp \in AppRow /\ NewModel \in ModelRow /\ NoAnswer \in Answer
      BY SomeContentIsOne DEF NewApp, AppRow, NewModel, ModelRow, NoAnswer, Answer,
         NoSnapshot, Snapshot
    <3>2. versions \in Seq(Snapshot)
      BY DEF Init
    <3> QED
      BY <3>1, <3>2 DEF Init, TypeOK, Phases
  <2>2. CurrentIsAVersion /\ GoneHasNothing /\ OpenMeansPublished /\ TestedHasPassed
    BY DEF Init, CurrentIsAVersion, NamesAVersion, NewApp, GoneHasNothing,
       OpenMeansPublished, TestedHasPassed, NewModel
  <2>3. PublishedWasTested /\ RevisionNamesContent /\ QuestionsNameAVersion
         /\ AnswersArePinned
    BY DEF Init, PublishedWasTested, RevisionNamesContent, QuestionsNameAVersion,
       AnswersArePinned
  <2> QED
    BY <2>1, <2>2, <2>3 DEF IInv
<1>2. IInv /\ [Next]_vars => IInv'
  BY TypeStep, CurrentStep, GoneStep, OpenStep, TestedStep, PublishedStep,
     RevisionStep,
     QuestionStep, AnswerStep DEF IInv
<1> QED
  BY <1>1, <1>2, PTL DEF Spec

(* Whatever stale rows are written, an application that is published names *)
(* one of its own versions.                                                *)
THEOREM PublishedNamesVersion == Spec => []CurrentIsAVersion
  BY Invariance, PTL DEF IInv

(* An open public link belongs to a published application, up to the       *)
(* exceptions that OpenMeansPublished lists.                               *)
THEOREM OpenLinkIsPublished == Spec => []OpenMeansPublished
  BY Invariance, PTL DEF IInv

(* No version is published with a model that was not tested, unless a      *)
(* test's result was saved on an edited row.                               *)
THEOREM PublishedModelsPassed == Spec => []PublishedWasTested
  BY Invariance, PTL DEF IInv

(* Answers come from the model and the knowledge bases of their version,   *)
(* unless one edit of the model configuration overwrote another.           *)
THEOREM AnswersComeFromTheirVersion == Spec => []AnswersArePinned
  BY Invariance, PTL DEF IInv

(* A deleted application can only come back unpublished and closed.        *)
THEOREM ComesBackClosed == Spec => ComesBackUnpublished
<1>1. IInv /\ [Next]_vars =>
        [life = "GONE" /\ life' = "LIVE" => app'.status # "PUBLISHED" /\ linkOpen' = FALSE]_vars
  <2> SUFFICES ASSUME IInv, Next, life = "GONE", life' = "LIVE"
               PROVE  app'.status # "PUBLISHED" /\ linkOpen' = FALSE
    OBVIOUS
  <2>1. PICK r \in Requests : SaveDraft(r)
    BY DEF Next, Operator, Request, Create, Publish, CloseLink, DeleteModel,
       PutKnowledge,
       Rollback, DeleteKnowledgeBase, ReadApplication, ReadModel, DeleteApplication,
       DisableStatus, DisableLink, DieDisabling, OpenLink, GiveUp, EditModel, FinishTest,
       Authenticate, Resolve, Answered
  <2>2. appRow[r] \in AppRow /\ appRow[r].status # "PUBLISHED"
    BY <2>1 DEF SaveDraft, IInv, TypeOK, AppRow, CurrentIsAVersion, NamesAVersion,
                GoneHasNothing
  <2> QED
    BY <2>1, <2>2 DEF SaveDraft, AppRow, IInv, GoneHasNothing
<1> QED
  BY <1>1, Invariance, PTL DEF Spec, ComesBackUnpublished
=============================================================================
