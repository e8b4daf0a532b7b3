-------------------------- MODULE ChatStreams_proofs --------------------------
(***************************************************************************)
(* Proofs about ChatStreams: the inductive invariant, part by part, and    *)
(* what follows from it for any requests, conversations, tools and limits. *)
(***************************************************************************)
EXTENDS ChatStreams, FiniteSetTheorems, TLAPS

(* Closing the open execution of a run makes no more of them, neither in   *)
(* all nor in a step.                                                      *)
LEMMA ClosingKeepsCounts ==
  ASSUME NEW T \in SUBSET Execution, IsFiniteSet(T), NEW s \in Nat,
         NEW status \in {"SUCCESS", "FAILURE", "REJECTED"}
  PROVE  LET G == {[x EXCEPT !.status = IF x.status = "RUNNING" THEN status ELSE x.status] :
                     x \in T}
         IN  /\ IsFiniteSet(G) /\ G \subseteq Execution
             /\ \A y \in G : y.status # "RUNNING" /\ \E x \in T : y.step = x.step
             /\ Cardinality(G) <= Cardinality(T)
             /\ Cardinality({y \in G : y.step = s}) <= Cardinality({x \in T : x.step = s})
<1> DEFINE F(x) == [x EXCEPT !.status = IF x.status = "RUNNING" THEN status ELSE x.status]
           G == {F(x) : x \in T}
           TS == {x \in T : x.step = s}
           GS == {y \in G : y.step = s}
           f == [x \in T |-> F(x)]
           h == [x \in TS |-> F(x)]
<1>1. \A x \in T : F(x) \in Execution /\ F(x).status # "RUNNING" /\ F(x).step = x.step
  BY DEF Execution
<1>2. f \in Surjection(T, G)
  <2>1. f \in [T -> G] /\ \A t \in G : \E x \in T : f[x] = t
    OBVIOUS
  <2> QED
    BY <2>1 DEF Surjection
<1>3. h \in Surjection(TS, GS)
  <2>1. \A x \in TS : F(x) \in GS
    BY <1>1
  <2>2. \A t \in GS : \E x \in TS : F(x) = t
    BY <1>1
  <2> HIDE DEF F, TS, GS
  <2>3. h \in [TS -> GS] /\ \A t \in GS : \E x \in TS : h[x] = t
    BY <2>1, <2>2
  <2> QED
    BY <2>3 DEF Surjection
<1>4. IsFiniteSet(TS)
  BY FS_Subset
<1>5. IsFiniteSet(G) /\ Cardinality(G) <= Cardinality(T)
  BY <1>2, FS_Surjection
<1>6. Cardinality(GS) <= Cardinality(TS)
  BY <1>3, <1>4, FS_Surjection
<1>7. G \subseteq Execution /\ \A y \in G : y.status # "RUNNING" /\ \E x \in T : y.step = x.step
  BY <1>1
<1> QED
  BY <1>5, <1>6, <1>7

(* What the invariant says of any request.                                 *)
LEMMA OfEach ==
  ASSUME IInv, NEW r \in Requests
  PROVE  /\ ToolsOf(r) /\ pc[r] \in Phases
         /\ step[r] \in Nat /\ calls[r] \in Nat /\ pending[r] \in Nat /\ total[r] \in Nat
         /\ \A x \in tools[r] : x \in Execution /\ x.step \in Nat
         /\ step[r] <= MaxSteps
<1>1. ToolsOf(r) /\ pc[r] \in Phases
  BY DEF IInv, ToolsFollow, TypeOK
<1>2. step[r] \in Nat /\ calls[r] \in Nat /\ pending[r] \in Nat /\ total[r] \in Nat
  BY DEF IInv, TypeOK
<1>3. \A x \in tools[r] : x \in Execution
  BY DEF IInv, TypeOK
<1>4. \A x \in Execution : x.step \in Nat
  BY DEF Execution
<1> QED
  BY <1>1, <1>2, <1>3, <1>4 DEF IInv, WithinLimits, LimitsOf

(* What ToolsOf says of the counters of any request.                       *)
LEMMA CountsAreNumbers ==
  ASSUME IInv, NEW r \in Requests, NEW s \in Nat
  PROVE  /\ IsFiniteSet(tools[r]) /\ IsFiniteSet({x \in tools[r] : x.step = s})
         /\ Cardinality(tools[r]) \in Nat
         /\ Cardinality({x \in tools[r] : x.step = s}) \in Nat
         /\ tools[r] \in SUBSET Execution
<1>1. IsFiniteSet(tools[r]) /\ tools[r] \in SUBSET Execution
  BY DEF IInv, TypeOK, ToolsFollow, ToolsOf
<1>2. IsFiniteSet({x \in tools[r] : x.step = s})
  BY <1>1, FS_Subset
<1> QED
  BY <1>1, <1>2, FS_CardinalityType

(* Every step keeps the types.                                             *)
LEMMA TypeStep ==
  IInv /\ [Next]_vars => TypeOK'
<1> SUFFICES ASSUME IInv, [Next]_vars
             PROVE  TypeOK'
  OBVIOUS
<1>0. CASE UNCHANGED vars
  BY <1>0 DEF vars, IInv, TypeOK, Terminal, Phases, Executing, Suspended, Hurts,
     Asked, Doors, Execution, rows, locals, Goto, Exists, Logged, Streamed
<1>1. ASSUME NEW r \in Requests, StartLog(r)
      PROVE  TypeOK'
  BY <1>1, ConstantsAssumption DEF IInv, TypeOK, Terminal, Phases, Executing,
     Suspended, Hurts, Asked, Doors, Execution, StartLog, SetLog, rows, locals,
     Goto, Exists, Logged, Streamed
<1>2. ASSUME NEW r \in Requests, Ask(r)
      PROVE  TypeOK'
  BY <1>2, ConstantsAssumption DEF IInv, TypeOK, Terminal, Phases, Executing,
     Suspended, Hurts, Asked, Doors, Execution, Ask, rows, locals, Goto, Exists,
     Logged, Streamed
<1>3. ASSUME NEW r \in Requests, Create(r)
      PROVE  TypeOK'
  BY <1>3, ConstantsAssumption DEF IInv, TypeOK, Terminal, Phases, Executing,
     Suspended, Hurts, Asked, Doors, Execution, Create, SetRun, SetLog, rows,
     locals, Goto, Exists, Logged, Streamed
<1>4. ASSUME NEW r \in Requests, Meta(r)
      PROVE  TypeOK'
  BY <1>4, ConstantsAssumption DEF IInv, TypeOK, Terminal, Phases, Executing,
     Suspended, Hurts, Asked, Doors, Execution, Meta, rows, locals, Goto, Exists,
     Logged, Streamed
<1>5. ASSUME NEW r \in Requests, Generate(r)
      PROVE  TypeOK'
  BY <1>5, ConstantsAssumption DEF IInv, TypeOK, Terminal, Phases, Executing,
     Suspended, Hurts, Asked, Doors, Execution, Generate, Raise, Begins, rows,
     locals, Goto, Exists, Logged, Streamed
<1>6. ASSUME NEW r \in Requests, Start(r)
      PROVE  TypeOK'
  BY <1>6, ConstantsAssumption DEF IInv, TypeOK, Terminal, Phases, Executing,
     Suspended, Hurts, Asked, Doors, Execution, Start, Raise, Begins, rows, locals,
     Goto, Exists, Logged, Streamed
<1>7. ASSUME NEW r \in Requests, Step(r)
      PROVE  TypeOK'
  <2>1. pc' \in [Requests -> Phases] /\ outcome' \in [Requests -> {"FAILURE", "LIMIT_REACHED"}]
    BY <1>7 DEF Step, Raise, Goto, IInv, TypeOK, Phases, Executing, Suspended
  <2>2. step' \in [Requests -> Nat]
    BY <1>7 DEF Step, IInv, TypeOK
  <2> QED
    BY <1>7, <2>1, <2>2 DEF Step, IInv, TypeOK, rows
<1>8. ASSUME NEW r \in Requests, Turn(r)
      PROVE  TypeOK'
  <2>1. pc' \in [Requests -> Phases] /\ outcome' \in [Requests -> {"FAILURE", "LIMIT_REACHED"}]
    BY <1>8 DEF Turn, Raise, Goto, IInv, TypeOK, Phases, Executing, Suspended
  <2>2. pending' \in [Requests -> Nat]
    <3>1. \A n \in 1 .. StepCalls + 1 : n \in Nat
      BY ConstantsAssumption
    <3> QED
      BY <1>8, <3>1 DEF Turn, IInv, TypeOK
  <2> QED
    BY <1>8, <2>1, <2>2 DEF Turn, IInv, TypeOK, rows
<1>9. ASSUME NEW r \in Requests, Prepare(r)
      PROVE  TypeOK'
  <2>1. pc' \in [Requests -> Phases]
    BY <1>9 DEF Prepare, Goto, IInv, TypeOK, Phases, Executing, Suspended
  <2>2. pending[r] \in Nat \ {0} /\ step[r] \in Nat
    <3>1. ToolsOf(r) /\ pending[r] \in Nat /\ step[r] \in Nat
      BY OfEach
    <3>2. pc[r] = "call" \/ pending[r] > 0
      BY <1>9 DEF Prepare
    <3> QED
      BY <3>1, <3>2 DEF ToolsOf
  <2>3. pending' \in [Requests -> Nat] /\ calls' \in [Requests -> Nat]
    BY <1>9, <2>2 DEF Prepare, IInv, TypeOK
  <2>4. Cardinality({x \in tools[r] : x.step = step[r]}) \in Nat
    BY <2>2, CountsAreNumbers
  <2>5. \A tool \in Tools \cup {"unknown"}, status \in {"RUNNING", "REJECTED"} :
          Called(r, tool, status) \in Execution
    BY <2>2, <2>4 DEF Called, Execution
  <2>6. tools' \in [Requests -> SUBSET Execution]
    BY <1>9, <2>5, ConstantsAssumption DEF Prepare, IInv, TypeOK
  <2> QED
    BY <1>9, <2>1, <2>3, <2>6 DEF Prepare, IInv, TypeOK
<1>10. ASSUME NEW r \in Requests, Execute(r)
      PROVE  TypeOK'
  <2>1. pc' \in [Requests -> Phases] /\ outcome' \in [Requests -> {"FAILURE", "LIMIT_REACHED"}]
    BY <1>10 DEF Execute, Raise, Goto, IInv, TypeOK, Phases, Executing, Suspended
  <2>2. total' \in [Requests -> Nat]
    <3>1. \A size \in 0 .. MaxResult : size \in Nat
      BY ConstantsAssumption
    <3> QED
      BY <1>10, <3>1 DEF Execute, IInv, TypeOK
  <2>3. \A status \in {"SUCCESS", "FAILURE", "REJECTED"} :
          {[x EXCEPT !.status = IF x.status = "RUNNING" THEN status ELSE x.status] :
             x \in tools[r]} \in SUBSET Execution
    BY CountsAreNumbers, ClosingKeepsCounts
  <2>4. tools' \in [Requests -> SUBSET Execution]
    BY <1>10, <2>3 DEF Execute, Closed, IInv, TypeOK
  <2> QED
    BY <1>10, <2>1, <2>2, <2>4 DEF Execute, IInv, TypeOK
<1>11. ASSUME NEW r \in Requests, ToolError(r)
      PROVE  TypeOK'
  BY <1>11, ConstantsAssumption DEF IInv, TypeOK, Terminal, Phases, Executing,
     Suspended, Hurts, Asked, Doors, Execution, ToolError, Raise, rows, locals,
     Goto, Exists, Logged, Streamed
<1>12. ASSUME NEW r \in Requests, SaveAnswer(r)
      PROVE  TypeOK'
  BY <1>12, ConstantsAssumption DEF IInv, TypeOK, Terminal, Phases, Executing,
     Suspended, Hurts, Asked, Doors, Execution, SaveAnswer, rows, locals, Goto,
     Exists, Logged, Streamed
<1>13. ASSUME NEW r \in Requests, Succeed(r)
      PROVE  TypeOK'
  BY <1>13, ConstantsAssumption DEF IInv, TypeOK, Terminal, Phases, Executing,
     Suspended, Hurts, Asked, Doors, Execution, Succeed, SetRun, rows, locals, Goto,
     Exists, Logged, Streamed
<1>14. ASSUME NEW r \in Requests, Done(r)
      PROVE  TypeOK'
  BY <1>14, ConstantsAssumption DEF IInv, TypeOK, Terminal, Phases, Executing,
     Suspended, Hurts, Asked, Doors, Execution, Done, SetLog, rows, locals, Goto,
     Exists, Logged, Streamed
<1>15. ASSUME NEW r \in Requests, Fail(r)
      PROVE  TypeOK'
  <2>1. run' \in [Requests -> {"NONE", "RUNNING"} \cup Terminal]
    BY <1>15 DEF Fail, SetRun, IInv, TypeOK, Terminal
  <2>2. log' \in [Requests -> {"NONE", "RUNNING", "SUCCESS", "FAILURE"}]
    BY <1>15 DEF Fail, SetLog, IInv, TypeOK
  <2>3. pc' \in [Requests -> Phases]
    BY <1>15 DEF Fail, Goto, IInv, TypeOK, Phases, Suspended
  <2> QED
    BY <1>15, <2>1, <2>2, <2>3 DEF Fail, IInv, TypeOK, locals
<1>16. ASSUME NEW r \in Requests, ErrorEvent(r)
      PROVE  TypeOK'
  BY <1>16, ConstantsAssumption DEF IInv, TypeOK, Terminal, Phases, Executing,
     Suspended, Hurts, Asked, Doors, Execution, ErrorEvent, SetLog, rows, locals,
     Goto, Exists, Logged, Streamed
<1>17. ASSUME NEW r \in Requests, Over(r)
      PROVE  TypeOK'
  BY <1>17, ConstantsAssumption DEF IInv, TypeOK, Terminal, Phases, Executing,
     Suspended, Hurts, Asked, Doors, Execution, Over, rows, locals, Goto, Exists,
     Logged, Streamed
<1>18. ASSUME NEW r \in Requests, CloseLog(r)
      PROVE  TypeOK'
  BY <1>18, ConstantsAssumption DEF IInv, TypeOK, Terminal, Phases, Executing,
     Suspended, Hurts, Asked, Doors, Execution, CloseLog, SetLog, rows, locals,
     Goto, Exists, Logged, Streamed
<1>19. ASSUME NEW r \in Requests, Vanished(r)
      PROVE  TypeOK'
  BY <1>19, ConstantsAssumption DEF IInv, TypeOK, Terminal, Phases, Executing,
     Suspended, Hurts, Asked, Doors, Execution, Vanished, rows, locals, Goto,
     Exists, Logged, Streamed
<1>20. ASSUME NEW r \in Requests, Leave(r)
      PROVE  TypeOK'
  BY <1>20, ConstantsAssumption DEF IInv, TypeOK, Terminal, Phases, Executing,
     Suspended, Hurts, Asked, Doors, Execution, Leave, Hurt, Finally, rows, locals,
     Goto, Exists, Logged, Streamed
<1>21. ASSUME NEW r \in Requests, StoreFails(r)
      PROVE  TypeOK'
  BY <1>21, ConstantsAssumption DEF IInv, TypeOK, Terminal, Phases, Executing,
     Suspended, Hurts, Asked, Doors, Execution, StoreFails, Hurt, Raise, Finally,
     rows, locals, Goto, Exists, Logged, Streamed
<1>22. ASSUME NEW r \in Requests, Die(r)
      PROVE  TypeOK'
  BY <1>22, ConstantsAssumption DEF IInv, TypeOK, Terminal, Phases, Executing,
     Suspended, Hurts, Asked, Doors, Execution, Die, Hurt, rows, locals, Goto,
     Exists, Logged, Streamed
<1>23. ASSUME NEW c \in Conversations, Delete(c)
      PROVE  TypeOK'
  BY <1>23, ConstantsAssumption DEF IInv, TypeOK, Terminal, Phases, Executing,
     Suspended, Hurts, Asked, Doors, Execution, Delete, rows, locals, Goto, Exists,
     Logged, Streamed
<1> QED
  BY <1>0, <1>1, <1>2, <1>3, <1>4, <1>5, <1>6, <1>7, <1>8, <1>9, <1>10, <1>11,
     <1>12, <1>13, <1>14, <1>15, <1>16, <1>17, <1>18, <1>19, <1>20, <1>21, <1>22,
     <1>23 DEF Next, Server

(* The run says where its request stands.                                  *)
LEMMA RunStep ==
  IInv /\ [Next]_vars => RunFollows'
<1> SUFFICES ASSUME IInv, [Next]_vars
             PROVE  RunFollows'
  OBVIOUS
<1>0. CASE UNCHANGED vars
  BY <1>0 DEF vars, IInv, TypeOK, Phases, Executing, Suspended, RunFollows,
     Terminal, rows, locals, Goto, Exists, Logged, Streamed
<1>1. ASSUME NEW r \in Requests, StartLog(r)
      PROVE  RunFollows'
  BY <1>1 DEF IInv, TypeOK, Phases, Executing, Suspended, RunFollows, Terminal,
     StartLog, SetLog, rows, locals, Goto, Exists, Logged, Streamed
<1>2. ASSUME NEW r \in Requests, Ask(r)
      PROVE  RunFollows'
  BY <1>2 DEF IInv, TypeOK, Phases, Executing, Suspended, RunFollows, Terminal, Ask,
     rows, locals, Goto, Exists, Logged, Streamed
<1>3. ASSUME NEW r \in Requests, Create(r)
      PROVE  RunFollows'
  BY <1>3 DEF IInv, TypeOK, Phases, Executing, Suspended, RunFollows, Terminal,
     Create, SetRun, SetLog, rows, locals, Goto, Exists, Logged, Streamed
<1>4. ASSUME NEW r \in Requests, Meta(r)
      PROVE  RunFollows'
  BY <1>4 DEF IInv, TypeOK, Phases, Executing, Suspended, RunFollows, Terminal,
     Meta, rows, locals, Goto, Exists, Logged, Streamed
<1>5. ASSUME NEW r \in Requests, Generate(r)
      PROVE  RunFollows'
  BY <1>5 DEF IInv, TypeOK, Phases, Executing, Suspended, RunFollows, Terminal,
     Generate, Raise, Begins, rows, locals, Goto, Exists, Logged, Streamed
<1>6. ASSUME NEW r \in Requests, Start(r)
      PROVE  RunFollows'
  BY <1>6 DEF IInv, TypeOK, Phases, Executing, Suspended, RunFollows, Terminal,
     Start, Raise, Begins, rows, locals, Goto, Exists, Logged, Streamed
<1>7. ASSUME NEW r \in Requests, Step(r)
      PROVE  RunFollows'
  BY <1>7 DEF IInv, TypeOK, Phases, Executing, Suspended, RunFollows, Terminal,
     Step, Raise, rows, locals, Goto, Exists, Logged, Streamed
<1>8. ASSUME NEW r \in Requests, Turn(r)
      PROVE  RunFollows'
  BY <1>8 DEF IInv, TypeOK, Phases, Executing, Suspended, RunFollows, Terminal,
     Turn, Raise, rows, locals, Goto, Exists, Logged, Streamed
<1>9. ASSUME NEW r \in Requests, Prepare(r)
      PROVE  RunFollows'
  BY <1>9 DEF IInv, TypeOK, Phases, Executing, Suspended, RunFollows, Terminal,
     Prepare, Called, rows, locals, Goto, Exists, Logged, Streamed
<1>10. ASSUME NEW r \in Requests, Execute(r)
      PROVE  RunFollows'
  BY <1>10 DEF IInv, TypeOK, Phases, Executing, Suspended, RunFollows, Terminal,
     Execute, Raise, Closed, rows, locals, Goto, Exists, Logged, Streamed
<1>11. ASSUME NEW r \in Requests, ToolError(r)
      PROVE  RunFollows'
  BY <1>11 DEF IInv, TypeOK, Phases, Executing, Suspended, RunFollows, Terminal,
     ToolError, Raise, rows, locals, Goto, Exists, Logged, Streamed
<1>12. ASSUME NEW r \in Requests, SaveAnswer(r)
      PROVE  RunFollows'
  BY <1>12 DEF IInv, TypeOK, Phases, Executing, Suspended, RunFollows, Terminal,
     SaveAnswer, rows, locals, Goto, Exists, Logged, Streamed
<1>13. ASSUME NEW r \in Requests, Succeed(r)
      PROVE  RunFollows'
  <2>1. ~asked[r].agent => run[r] = "NONE" /\ FALSE
    BY <1>13 DEF Succeed, Exists, IInv, RunFollows
  <2> QED
    BY <1>13, <2>1 DEF Succeed, SetRun, Goto, Exists, IInv, TypeOK, RunFollows,
       Phases, Executing, Suspended
<1>14. ASSUME NEW r \in Requests, Done(r)
      PROVE  RunFollows'
  BY <1>14 DEF IInv, TypeOK, Phases, Executing, Suspended, RunFollows, Terminal,
     Done, SetLog, rows, locals, Goto, Exists, Logged, Streamed
<1>15. ASSUME NEW r \in Requests, Fail(r)
      PROVE  RunFollows'
  BY <1>15 DEF IInv, TypeOK, Phases, Executing, Suspended, RunFollows, Terminal,
     Fail, SetRun, SetLog, rows, locals, Goto, Exists, Logged, Streamed
<1>16. ASSUME NEW r \in Requests, ErrorEvent(r)
      PROVE  RunFollows'
  BY <1>16 DEF IInv, TypeOK, Phases, Executing, Suspended, RunFollows, Terminal,
     ErrorEvent, SetLog, rows, locals, Goto, Exists, Logged, Streamed
<1>17. ASSUME NEW r \in Requests, Over(r)
      PROVE  RunFollows'
  BY <1>17 DEF IInv, TypeOK, Phases, Executing, Suspended, RunFollows, Terminal,
     Over, rows, locals, Goto, Exists, Logged, Streamed
<1>18. ASSUME NEW r \in Requests, CloseLog(r)
      PROVE  RunFollows'
  BY <1>18 DEF IInv, TypeOK, Phases, Executing, Suspended, RunFollows, Terminal,
     CloseLog, SetLog, rows, locals, Goto, Exists, Logged, Streamed
<1>19. ASSUME NEW r \in Requests, Vanished(r)
      PROVE  RunFollows'
  BY <1>19 DEF IInv, TypeOK, Phases, Executing, Suspended, RunFollows, Terminal,
     Vanished, rows, locals, Goto, Exists, Logged, Streamed
<1>20. ASSUME NEW r \in Requests, Leave(r)
      PROVE  RunFollows'
  BY <1>20 DEF IInv, TypeOK, Phases, Executing, Suspended, RunFollows, Terminal,
     Leave, Hurt, Finally, rows, locals, Goto, Exists, Logged, Streamed
<1>21. ASSUME NEW r \in Requests, StoreFails(r)
      PROVE  RunFollows'
  BY <1>21 DEF IInv, TypeOK, Phases, Executing, Suspended, RunFollows, Terminal,
     StoreFails, Hurt, Raise, Finally, rows, locals, Goto, Exists, Logged, Streamed
<1>22. ASSUME NEW r \in Requests, Die(r)
      PROVE  RunFollows'
  BY <1>22 DEF IInv, TypeOK, Phases, Executing, Suspended, RunFollows, Terminal,
     Die, Hurt, rows, locals, Goto, Exists, Logged, Streamed
<1>23. ASSUME NEW c \in Conversations, Delete(c)
      PROVE  RunFollows'
  BY <1>23 DEF IInv, TypeOK, Phases, Executing, Suspended, RunFollows, Terminal,
     Delete, rows, locals, Goto, Exists, Logged, Streamed
<1> QED
  BY <1>0, <1>1, <1>2, <1>3, <1>4, <1>5, <1>6, <1>7, <1>8, <1>9, <1>10, <1>11,
     <1>12, <1>13, <1>14, <1>15, <1>16, <1>17, <1>18, <1>19, <1>20, <1>21, <1>22,
     <1>23 DEF Next, Server

(* So does the log.                                                        *)
LEMMA LogStep ==
  IInv /\ [Next]_vars => LogFollows'
<1> SUFFICES ASSUME IInv, [Next]_vars
             PROVE  LogFollows'
  OBVIOUS
<1>0. CASE UNCHANGED vars
  BY <1>0 DEF vars, IInv, TypeOK, Phases, Executing, Suspended, LogFollows,
     RunFollows, rows, locals, Goto, Exists, Logged, Streamed
<1>1. ASSUME NEW r \in Requests, StartLog(r)
      PROVE  LogFollows'
  BY <1>1 DEF IInv, TypeOK, Phases, Executing, Suspended, LogFollows, RunFollows,
     StartLog, SetLog, rows, locals, Goto, Exists, Logged, Streamed
<1>2. ASSUME NEW r \in Requests, Ask(r)
      PROVE  LogFollows'
  BY <1>2 DEF IInv, TypeOK, Phases, Executing, Suspended, LogFollows, RunFollows,
     Ask, rows, locals, Goto, Exists, Logged, Streamed
<1>3. ASSUME NEW r \in Requests, Create(r)
      PROVE  LogFollows'
  BY <1>3 DEF IInv, TypeOK, Phases, Executing, Suspended, LogFollows, RunFollows,
     Create, SetRun, SetLog, rows, locals, Goto, Exists, Logged, Streamed
<1>4. ASSUME NEW r \in Requests, Meta(r)
      PROVE  LogFollows'
  BY <1>4 DEF IInv, TypeOK, Phases, Executing, Suspended, LogFollows, RunFollows,
     Meta, rows, locals, Goto, Exists, Logged, Streamed
<1>5. ASSUME NEW r \in Requests, Generate(r)
      PROVE  LogFollows'
  BY <1>5 DEF IInv, TypeOK, Phases, Executing, Suspended, LogFollows, RunFollows,
     Generate, Raise, Begins, rows, locals, Goto, Exists, Logged, Streamed
<1>6. ASSUME NEW r \in Requests, Start(r)
      PROVE  LogFollows'
  BY <1>6 DEF IInv, TypeOK, Phases, Executing, Suspended, LogFollows, RunFollows,
     Start, Raise, Begins, rows, locals, Goto, Exists, Logged, Streamed
<1>7. ASSUME NEW r \in Requests, Step(r)
      PROVE  LogFollows'
  BY <1>7 DEF IInv, TypeOK, Phases, Executing, Suspended, LogFollows, RunFollows,
     Step, Raise, rows, locals, Goto, Exists, Logged, Streamed
<1>8. ASSUME NEW r \in Requests, Turn(r)
      PROVE  LogFollows'
  BY <1>8 DEF IInv, TypeOK, Phases, Executing, Suspended, LogFollows, RunFollows,
     Turn, Raise, rows, locals, Goto, Exists, Logged, Streamed
<1>9. ASSUME NEW r \in Requests, Prepare(r)
      PROVE  LogFollows'
  BY <1>9 DEF IInv, TypeOK, Phases, Executing, Suspended, LogFollows, RunFollows,
     Prepare, Called, rows, locals, Goto, Exists, Logged, Streamed
<1>10. ASSUME NEW r \in Requests, Execute(r)
      PROVE  LogFollows'
  BY <1>10 DEF IInv, TypeOK, Phases, Executing, Suspended, LogFollows, RunFollows,
     Execute, Raise, Closed, rows, locals, Goto, Exists, Logged, Streamed
<1>11. ASSUME NEW r \in Requests, ToolError(r)
      PROVE  LogFollows'
  BY <1>11 DEF IInv, TypeOK, Phases, Executing, Suspended, LogFollows, RunFollows,
     ToolError, Raise, rows, locals, Goto, Exists, Logged, Streamed
<1>12. ASSUME NEW r \in Requests, SaveAnswer(r)
      PROVE  LogFollows'
  BY <1>12 DEF IInv, TypeOK, Phases, Executing, Suspended, LogFollows, RunFollows,
     SaveAnswer, rows, locals, Goto, Exists, Logged, Streamed
<1>13. ASSUME NEW r \in Requests, Succeed(r)
      PROVE  LogFollows'
  BY <1>13 DEF IInv, TypeOK, Phases, Executing, Suspended, LogFollows, RunFollows,
     Succeed, SetRun, rows, locals, Goto, Exists, Logged, Streamed
<1>14. ASSUME NEW r \in Requests, Done(r)
      PROVE  LogFollows'
  BY <1>14 DEF IInv, TypeOK, Phases, Executing, Suspended, LogFollows, RunFollows,
     Done, SetLog, rows, locals, Goto, Exists, Logged, Streamed
<1>15. ASSUME NEW r \in Requests, Fail(r)
      PROVE  LogFollows'
  BY <1>15 DEF IInv, TypeOK, Phases, Executing, Suspended, LogFollows, RunFollows,
     Fail, SetRun, SetLog, rows, locals, Goto, Exists, Logged, Streamed
<1>16. ASSUME NEW r \in Requests, ErrorEvent(r)
      PROVE  LogFollows'
  BY <1>16 DEF IInv, TypeOK, Phases, Executing, Suspended, LogFollows, RunFollows,
     ErrorEvent, SetLog, rows, locals, Goto, Exists, Logged, Streamed
<1>17. ASSUME NEW r \in Requests, Over(r)
      PROVE  LogFollows'
  BY <1>17 DEF IInv, TypeOK, Phases, Executing, Suspended, LogFollows, RunFollows,
     Over, rows, locals, Goto, Exists, Logged, Streamed
<1>18. ASSUME NEW r \in Requests, CloseLog(r)
      PROVE  LogFollows'
  BY <1>18 DEF IInv, TypeOK, Phases, Executing, Suspended, LogFollows, RunFollows,
     CloseLog, SetLog, rows, locals, Goto, Exists, Logged, Streamed
<1>19. ASSUME NEW r \in Requests, Vanished(r)
      PROVE  LogFollows'
  BY <1>19 DEF IInv, TypeOK, Phases, Executing, Suspended, LogFollows, RunFollows,
     Vanished, rows, locals, Goto, Exists, Logged, Streamed
<1>20. ASSUME NEW r \in Requests, Leave(r)
      PROVE  LogFollows'
  BY <1>20 DEF IInv, TypeOK, Phases, Executing, Suspended, LogFollows, RunFollows,
     Leave, Hurt, Finally, rows, locals, Goto, Exists, Logged, Streamed
<1>21. ASSUME NEW r \in Requests, StoreFails(r)
      PROVE  LogFollows'
  BY <1>21 DEF IInv, TypeOK, Phases, Executing, Suspended, LogFollows, RunFollows,
     StoreFails, Hurt, Raise, Finally, rows, locals, Goto, Exists, Logged, Streamed
<1>22. ASSUME NEW r \in Requests, Die(r)
      PROVE  LogFollows'
  BY <1>22 DEF IInv, TypeOK, Phases, Executing, Suspended, LogFollows, RunFollows,
     Die, Hurt, rows, locals, Goto, Exists, Logged, Streamed
<1>23. ASSUME NEW c \in Conversations, Delete(c)
      PROVE  LogFollows'
  BY <1>23 DEF IInv, TypeOK, Phases, Executing, Suspended, LogFollows, RunFollows,
     Delete, rows, locals, Goto, Exists, Logged, Streamed
<1> QED
  BY <1>0, <1>1, <1>2, <1>3, <1>4, <1>5, <1>6, <1>7, <1>8, <1>9, <1>10, <1>11,
     <1>12, <1>13, <1>14, <1>15, <1>16, <1>17, <1>18, <1>19, <1>20, <1>21, <1>22,
     <1>23 DEF Next, Server

(* So do the tool executions and the counters.                             *)
LEMMA ToolsStep ==
  IInv /\ [Next]_vars => ToolsFollow'
<1> SUFFICES ASSUME IInv, [Next]_vars
             PROVE  ToolsFollow'
  OBVIOUS
<1>0. CASE UNCHANGED vars
  BY <1>0 DEF vars, IInv, TypeOK, Phases, Executing, Suspended, ToolsFollow,
     ToolsOf, Execution, rows, locals, Goto, Exists, Logged, Streamed
<1>1. ASSUME NEW r \in Requests, StartLog(r)
      PROVE  ToolsFollow'
  BY <1>1, ConstantsAssumption DEF IInv, TypeOK, Phases, Executing, Suspended,
     ToolsFollow, ToolsOf, Execution, StartLog, SetLog, rows, locals, Goto, Exists,
     Logged, Streamed
<1>2. ASSUME NEW r \in Requests, Ask(r)
      PROVE  ToolsFollow'
  BY <1>2, ConstantsAssumption DEF IInv, TypeOK, Phases, Executing, Suspended,
     ToolsFollow, ToolsOf, Execution, Ask, rows, locals, Goto, Exists, Logged,
     Streamed
<1>3. ASSUME NEW r \in Requests, Create(r)
      PROVE  ToolsFollow'
  <2>1. ASSUME NEW q \in Requests, q # r
        PROVE  ToolsOf(q)'
    <3>1. /\ pc'[q] = pc[q] /\ tools'[q] = tools[q] /\ step'[q] = step[q]
          /\ calls'[q] = calls[q] /\ pending'[q] = pending[q] /\ total'[q] = total[q]
          /\ hurt'[q] = hurt[q]
      BY <1>3, <2>1 DEF Create, Goto, rows, locals, IInv, TypeOK
    <3> QED
      BY <3>1 DEF ToolsOf, IInv, ToolsFollow
  <2>2. /\ tools'[r] = tools[r] /\ step'[r] = step[r]
        /\ calls'[r] = calls[r] /\ pending'[r] = pending[r] /\ total'[r] = total[r]
        /\ hurt'[r] = hurt[r]
    BY <1>3 DEF Create, Goto, rows, locals, IInv, TypeOK
  <2>3. pc'[r] # pc[r] /\ pc[r] \in {"create", "ready", "meta"} /\ pc'[r] \in {"ready", "ended", "content", "start", "fail"}
    BY <1>3 DEF Create, Goto, rows, locals, IInv, TypeOK
  <2>9. ToolsOf(r)'
    BY <2>2, <2>3 DEF ToolsOf, IInv, ToolsFollow
  <2> QED
    BY <2>1, <2>9 DEF ToolsFollow
<1>4. ASSUME NEW r \in Requests, Meta(r)
      PROVE  ToolsFollow'
  BY <1>4, ConstantsAssumption DEF IInv, TypeOK, Phases, Executing, Suspended,
     ToolsFollow, ToolsOf, Execution, Meta, rows, locals, Goto, Exists, Logged,
     Streamed
<1>5. ASSUME NEW r \in Requests, Generate(r)
      PROVE  ToolsFollow'
  <2>1. ASSUME NEW q \in Requests, q # r
        PROVE  ToolsOf(q)'
    <3>1. /\ pc'[q] = pc[q] /\ tools'[q] = tools[q] /\ step'[q] = step[q]
          /\ calls'[q] = calls[q] /\ pending'[q] = pending[q] /\ total'[q] = total[q]
          /\ hurt'[q] = hurt[q]
      BY <1>5, <2>1 DEF Generate, Goto, rows, locals, Begins, Raise, IInv, TypeOK
    <3> QED
      BY <3>1 DEF ToolsOf, IInv, ToolsFollow
  <2>2. /\ tools'[r] = tools[r] /\ step'[r] = step[r]
        /\ calls'[r] = calls[r] /\ pending'[r] = pending[r] /\ total'[r] = total[r]
        /\ hurt'[r] = hurt[r]
    BY <1>5 DEF Generate, Goto, rows, locals, Begins, Raise, IInv, TypeOK
  <2>3. pc'[r] # pc[r] /\ pc[r] \in {"create", "ready", "meta"} /\ pc'[r] \in {"ready", "ended", "content", "start", "fail"}
    BY <1>5 DEF Generate, Goto, rows, locals, Begins, Raise, IInv, TypeOK
  <2>9. ToolsOf(r)'
    BY <2>2, <2>3 DEF ToolsOf, IInv, ToolsFollow
  <2> QED
    BY <2>1, <2>9 DEF ToolsFollow
<1>6. ASSUME NEW r \in Requests, Start(r)
      PROVE  ToolsFollow'
  <2>1. ASSUME NEW q \in Requests, q # r
        PROVE  ToolsOf(q)'
    <3>1. /\ pc'[q] = pc[q] /\ tools'[q] = tools[q] /\ step'[q] = step[q]
          /\ calls'[q] = calls[q] /\ pending'[q] = pending[q] /\ total'[q] = total[q]
          /\ hurt'[q] = hurt[q]
      BY <1>6, <2>1 DEF Start, Goto, rows, locals, Begins, Raise, IInv, TypeOK
    <3> QED
      BY <3>1 DEF ToolsOf, IInv, ToolsFollow
  <2>2. /\ tools'[r] = tools[r] /\ step'[r] = step[r]
        /\ calls'[r] = calls[r] /\ pending'[r] = pending[r] /\ total'[r] = total[r]
        /\ hurt'[r] = hurt[r]
    BY <1>6 DEF Start, Goto, rows, locals, Begins, Raise, IInv, TypeOK
  <2>3. pc'[r] # pc[r] /\ pc[r] \in {"create", "ready", "meta"} /\ pc'[r] \in {"ready", "ended", "content", "start", "fail"}
    BY <1>6 DEF Start, Goto, rows, locals, Begins, Raise, IInv, TypeOK
  <2>9. ToolsOf(r)'
    BY <2>2, <2>3 DEF ToolsOf, IInv, ToolsFollow
  <2> QED
    BY <2>1, <2>9 DEF ToolsFollow
<1>7. ASSUME NEW r \in Requests, Step(r)
      PROVE  ToolsFollow'
  <2>1. ASSUME NEW q \in Requests, q # r
        PROVE  ToolsOf(q)'
    <3>1. /\ pc'[q] = pc[q] /\ tools'[q] = tools[q] /\ step'[q] = step[q]
          /\ calls'[q] = calls[q] /\ pending'[q] = pending[q] /\ total'[q] = total[q]
          /\ hurt'[q] = hurt[q]
      BY <1>7, <2>1 DEF Step, Goto, rows, locals, Raise, IInv, TypeOK
    <3> QED
      BY <3>1 DEF ToolsOf, IInv, ToolsFollow
  <2>2. /\ tools'[r] = tools[r] /\ step'[r] = step[r] + 1 /\ step[r] \in Nat
        /\ calls'[r] = calls[r] /\ pending'[r] = pending[r] /\ total'[r] = total[r]
        /\ hurt'[r] = hurt[r] /\ pc'[r] \in {"step", "fail"}
    BY <1>7 DEF Step, Raise, Goto, rows, IInv, TypeOK
  <2>3. pending[r] = 0 /\ step[r] < MaxSteps
    <3>1. ToolsOf(r) /\ pc[r] \in {"start", "tool_result"} /\ (pc[r] = "tool_result" => pending[r] = 0)
      BY <1>7, OfEach DEF Step
    <3> QED
      BY <3>1, ConstantsAssumption DEF ToolsOf
  <2>4. \A x \in tools[r] : x.step < step'[r] /\ x.step <= step'[r] /\ x.step # step'[r]
    <3>1. \A x \in tools[r] : x.step \in Nat /\ x.step <= step[r]
      BY OfEach DEF ToolsOf
    <3> QED
      BY <2>2, <3>1
  <2>5. Cardinality({x \in tools[r] : x.step = step'[r]}) = 0
    <3>1. {x \in tools[r] : x.step = step'[r]} = {}
      BY <2>4
    <3> QED
      BY <3>1, FS_EmptySet
  <2>6. pc[r] \in {"start", "tool_result"}
    BY <1>7 DEF Step
  <2>9. ToolsOf(r)'
    <3>1. /\ IsFiniteSet(tools[r]) /\ Cardinality(tools[r]) <= calls[r]
          /\ pending[r] + calls[r] <= RunCalls /\ total[r] <= MaxTotal
          /\ \A x \in tools[r] : x.status # "RUNNING"
      BY <2>6, OfEach DEF ToolsOf
    <3> QED
      BY <2>2, <2>3, <2>4, <2>5, <3>1, ConstantsAssumption DEF ToolsOf
  <2> QED
    BY <2>1, <2>9 DEF ToolsFollow
<1>8. ASSUME NEW r \in Requests, Turn(r)
      PROVE  ToolsFollow'
  <2>1. ASSUME NEW q \in Requests, q # r
        PROVE  ToolsOf(q)'
    <3>1. /\ pc'[q] = pc[q] /\ tools'[q] = tools[q] /\ step'[q] = step[q]
          /\ calls'[q] = calls[q] /\ pending'[q] = pending[q] /\ total'[q] = total[q]
          /\ hurt'[q] = hurt[q]
      BY <1>8, <2>1 DEF Turn, Goto, rows, locals, Raise, IInv, TypeOK
    <3> QED
      BY <3>1 DEF ToolsOf, IInv, ToolsFollow
  <2>2. /\ tools'[r] = tools[r] /\ step'[r] = step[r]
        /\ calls'[r] = calls[r] /\ total'[r] = total[r]
        /\ hurt'[r] = hurt[r] /\ pc[r] = "step"
    BY <1>8 DEF Turn, Raise, Goto, rows, IInv, TypeOK
  <2>3. \/ pc'[r] \in {"content", "fail"} /\ pending'[r] = pending[r]
        \/ /\ pc'[r] = "call" /\ step[r] # MaxSteps
            /\ pending'[r] \in Nat \ {0} /\ pending'[r] <= StepCalls
            /\ calls[r] + pending'[r] <= RunCalls
    <3>1. ASSUME NEW n \in 1 .. StepCalls + 1, ~(n > StepCalls \/ calls[r] + n > RunCalls),
                 pending' = [pending EXCEPT ![r] = n], Goto(r, "call"), step[r] # MaxSteps
          PROVE  <2>3
      <4>1. n \in Nat \ {0} /\ calls[r] \in Nat
        BY ConstantsAssumption DEF IInv, TypeOK
      <4>2. pending'[r] = n /\ pc'[r] = "call"
        BY <3>1 DEF Goto, IInv, TypeOK
      <4> QED
        BY <3>1, <4>1, <4>2, ConstantsAssumption
    <3> QED
      BY <1>8, <3>1 DEF Turn, Raise, Goto, IInv, TypeOK
  <2>4. Cardinality({x \in tools[r] : x.step = step[r]}) = 0
    <3>1. {x \in tools[r] : x.step = step[r]} = {}
      <4>1. \A x \in tools[r] : x.step < step[r] /\ x.step \in Nat
        BY <2>2, OfEach DEF ToolsOf
      <4> QED
        BY <4>1 DEF IInv, TypeOK
    <3> QED
      BY <3>1, FS_EmptySet
  <2>5. step[r] \in Nat /\ calls[r] \in Nat /\ step[r] <= MaxSteps
    BY OfEach
  <2>9. ToolsOf(r)'
    BY <2>2, <2>3, <2>4, <2>5, ConstantsAssumption DEF ToolsOf, IInv, ToolsFollow
  <2> QED
    BY <2>1, <2>9 DEF ToolsFollow
<1>9. ASSUME NEW r \in Requests, Prepare(r)
      PROVE  ToolsFollow'
  <2>1. ASSUME NEW q \in Requests, q # r
        PROVE  ToolsOf(q)'
    <3>1. /\ pc'[q] = pc[q] /\ tools'[q] = tools[q] /\ step'[q] = step[q]
          /\ calls'[q] = calls[q] /\ pending'[q] = pending[q] /\ total'[q] = total[q]
          /\ hurt'[q] = hurt[q]
      BY <1>9, <2>1 DEF Prepare, Goto, rows, locals, IInv, TypeOK
    <3> QED
      BY <3>1 DEF ToolsOf, IInv, ToolsFollow
  <2>2. pending[r] \in Nat \ {0} /\ step[r] \in Nat /\ calls[r] \in Nat
    <3>1. ToolsOf(r) /\ pending[r] \in Nat /\ step[r] \in Nat /\ calls[r] \in Nat
      BY OfEach
    <3>2. pc[r] = "call" \/ pending[r] > 0
      BY <1>9 DEF Prepare
    <3> QED
      BY <3>1, <3>2 DEF ToolsOf
  <2>3. /\ step'[r] = step[r] /\ calls'[r] = calls[r] + 1 /\ pending'[r] = pending[r] - 1
        /\ total'[r] = total[r] /\ hurt'[r] = hurt[r]
        /\ pc[r] \in {"call", "tool_result"}
    BY <1>9 DEF Prepare, IInv, TypeOK
  <2>4. PICK tool \in Tools \cup {"unknown"}, status \in {"RUNNING", "REJECTED"} :
          /\ tools'[r] = tools[r] \cup {Called(r, tool, status)}
          /\ pc'[r] = IF status = "RUNNING" THEN "tool_start" ELSE "tool_error"
    BY <1>9, ConstantsAssumption DEF Prepare, Goto, IInv, TypeOK
  <2> DEFINE x0 == Called(r, tool, status)
             S == {x \in tools[r] : x.step = step[r]}
  <2>5. x0.step = step[r] /\ x0.status = status
    BY DEF Called
  <2> HIDE DEF x0
  <2>6. {x \in tools'[r] : x.step = step'[r]} = S \cup {x0}
    BY <2>3, <2>4, <2>5 DEF x0
  <2>7. /\ IsFiniteSet(tools[r]) /\ IsFiniteSet(S)
        /\ Cardinality(tools[r]) \in Nat /\ Cardinality(S) \in Nat
    BY <2>2, CountsAreNumbers
  <2>8. /\ IsFiniteSet(tools'[r]) /\ Cardinality(tools'[r]) <= Cardinality(tools[r]) + 1
        /\ Cardinality({x \in tools'[r] : x.step = step'[r]}) <= Cardinality(S) + 1
    <3> HIDE DEF S
    <3>1. IsFiniteSet(tools[r] \cup {x0}) /\ Cardinality(tools[r] \cup {x0}) <= Cardinality(tools[r]) + 1
      <4>1. IsFiniteSet(tools[r]) /\ Cardinality(tools[r]) \in Nat
        BY <2>7
      <4>2. /\ IsFiniteSet(tools[r] \cup {x0})
            /\ Cardinality(tools[r] \cup {x0}) = IF x0 \in tools[r] THEN Cardinality(tools[r])
                                                 ELSE Cardinality(tools[r]) + 1
        BY <4>1, FS_AddElement
      <4> QED
        BY <4>1, <4>2
    <3>2. Cardinality(S \cup {x0}) <= Cardinality(S) + 1
      BY <2>7, FS_AddElement
    <3> QED
      BY <2>4, <2>6, <3>1, <3>2 DEF x0
  <2>9. ToolsOf(r)'
    <3>1. /\ Cardinality(tools[r]) <= calls[r]
          /\ pending[r] + calls[r] <= RunCalls
          /\ pending[r] + Cardinality(S) <= StepCalls
          /\ step[r] < MaxSteps /\ total[r] <= MaxTotal
          /\ \A x \in tools[r] : x.step <= step[r] /\ x.status # "RUNNING"
      BY <2>3 DEF IInv, ToolsFollow, ToolsOf
    <3>2. Cardinality(tools'[r]) \in Nat /\ Cardinality({x \in tools'[r] : x.step = step'[r]}) \in Nat
      <4>1. IsFiniteSet({x \in tools'[r] : x.step = step'[r]})
        BY <2>8, FS_Subset
      <4> QED
        BY <2>8, <4>1, FS_CardinalityType
    <3>3. \A x \in tools'[r] : x.step <= step'[r]
      BY <2>2, <2>3, <2>4, <2>5, <3>1 DEF x0
    <3>4. status = "REJECTED" => \A x \in tools'[r] : x.status # "RUNNING"
      BY <2>4, <2>5, <3>1 DEF x0
    <3>5. /\ Cardinality(tools'[r]) <= calls'[r]
          /\ pending'[r] + calls'[r] <= RunCalls
          /\ pending'[r] + Cardinality({x \in tools'[r] : x.step = step'[r]}) <= StepCalls
      <4> HIDE DEF S
      <4> QED
        BY <2>2, <2>3, <2>7, <2>8, <3>1, <3>2, ConstantsAssumption
    <3> QED
      BY <2>3, <2>4, <2>8, <3>1, <3>3, <3>4, <3>5 DEF ToolsOf
  <2> QED
    BY <2>1, <2>9 DEF ToolsFollow
<1>10. ASSUME NEW r \in Requests, Execute(r)
      PROVE  ToolsFollow'
  <2>1. ASSUME NEW q \in Requests, q # r
        PROVE  ToolsOf(q)'
    <3>1. /\ pc'[q] = pc[q] /\ tools'[q] = tools[q] /\ step'[q] = step[q]
          /\ calls'[q] = calls[q] /\ pending'[q] = pending[q] /\ total'[q] = total[q]
          /\ hurt'[q] = hurt[q]
      BY <1>10, <2>1 DEF Execute, Goto, rows, locals, Raise, Closed, IInv, TypeOK
    <3> QED
      BY <3>1 DEF ToolsOf, IInv, ToolsFollow
  <2>2. PICK status \in {"SUCCESS", "FAILURE", "REJECTED"} : Closed(r, status)
    BY <1>10 DEF Execute
  <2> DEFINE G == {[x EXCEPT !.status = IF x.status = "RUNNING" THEN status ELSE x.status] :
                     x \in tools[r]}
  <2>3. tools'[r] = G
    BY <2>2 DEF Closed, IInv, TypeOK
  <2>4. /\ step'[r] = step[r] /\ calls'[r] = calls[r] /\ pending'[r] = pending[r]
        /\ hurt'[r] = hurt[r] /\ pc[r] = "tool_start" /\ step[r] \in Nat
    BY <1>10 DEF Execute, IInv, TypeOK
  <2>5. /\ IsFiniteSet(G)
        /\ \A y \in G : y.status # "RUNNING" /\ \E x \in tools[r] : y.step = x.step
        /\ Cardinality(G) <= Cardinality(tools[r])
        /\ Cardinality({y \in G : y.step = step[r]}) <= Cardinality({x \in tools[r] : x.step = step[r]})
    <3>1. IsFiniteSet(tools[r]) /\ tools[r] \in SUBSET Execution
      BY <2>4, CountsAreNumbers
    <3> QED
      BY <2>4, <3>1, ClosingKeepsCounts
  <2> HIDE DEF G
  <2>6. \/ pc'[r] \in {"fail", "tool_error"}
        \/ pc'[r] = "tool_result" /\ total'[r] <= MaxTotal
    <3>1. CASE \E size \in 0 .. MaxResult :
                 /\ total' = [total EXCEPT ![r] = @ + size]
                 /\ IF total[r] + size > MaxTotal
                    THEN Raise(r, "FAILURE")
                    ELSE Goto(r, "tool_result") /\ UNCHANGED outcome
      <4>1. PICK size \in 0 .. MaxResult :
                 /\ total' = [total EXCEPT ![r] = @ + size]
                 /\ IF total[r] + size > MaxTotal
                    THEN Raise(r, "FAILURE")
                    ELSE Goto(r, "tool_result") /\ UNCHANGED outcome
        BY <3>1
      <4>2. total'[r] = total[r] + size /\ total[r] + size \in Nat
        <5>1. size \in Nat /\ total[r] \in Nat
          BY ConstantsAssumption, OfEach
        <5> QED
          BY <4>1, <5>1 DEF IInv, TypeOK
      <4>3. pc'[r] = IF total[r] + size > MaxTotal THEN "fail" ELSE "tool_result"
        BY <4>1 DEF Raise, Goto, IInv, TypeOK
      <4> QED
        <5>1. MaxTotal \in Nat
          BY ConstantsAssumption
        <5>2. CASE total[r] + size > MaxTotal
          <6>1. pc'[r] = "fail"
            BY <4>3, <5>2
          <6> QED
            BY <6>1
        <5>3. CASE ~(total[r] + size > MaxTotal)
          BY <4>2, <4>3, <5>1, <5>3
        <5> QED
          BY <5>2, <5>3
    <3>2. CASE Goto(r, "tool_error")
      <4>1. pc \in [Requests -> Phases]
        BY DEF IInv, TypeOK
      <4>2. pc'[r] = "tool_error"
        BY <3>2, <4>1 DEF Goto
      <4> QED
        BY <4>2
    <3> QED
      BY <1>10, <3>1, <3>2 DEF Execute
  <2>7. /\ Cardinality(tools[r]) \in Nat
        /\ Cardinality({x \in tools[r] : x.step = step[r]}) \in Nat
        /\ Cardinality(G) \in Nat /\ Cardinality({y \in G : y.step = step[r]}) \in Nat
    <3>1. IsFiniteSet({y \in G : y.step = step[r]})
      BY <2>5, FS_Subset
    <3> QED
      BY <2>4, <2>5, <3>1, CountsAreNumbers, FS_CardinalityType
  <2>8. /\ Cardinality(tools[r]) <= calls[r]
        /\ pending[r] + calls[r] <= RunCalls
        /\ pending[r] + Cardinality({x \in tools[r] : x.step = step[r]}) <= StepCalls
        /\ step[r] < MaxSteps /\ calls[r] \in Nat /\ pending[r] \in Nat
        /\ \A x \in tools[r] : x.step <= step[r]
    BY <2>4 DEF IInv, TypeOK, ToolsFollow, ToolsOf
  <2>9. ToolsOf(r)'
    <3>1. /\ Cardinality(G) <= calls[r]
          /\ pending[r] + Cardinality({y \in G : y.step = step[r]}) <= StepCalls
      <4>1. StepCalls \in Nat
        BY ConstantsAssumption
      <4> QED
        <5> DEFINE a == Cardinality({x \in tools[r] : x.step = step[r]})
                   b == Cardinality({y \in G : y.step = step[r]})
        <5>1. b <= a /\ a \in Nat /\ b \in Nat /\ pending[r] + a <= StepCalls /\ pending[r] \in Nat
          <6>1. b <= a
            BY <2>5
          <6>2. a \in Nat /\ b \in Nat
            BY <2>7
          <6>3. pending[r] + a <= StepCalls /\ pending[r] \in Nat
            BY <2>8
          <6> QED
            BY <6>1, <6>2, <6>3
        <5>2. Cardinality(G) <= calls[r]
          <6> DEFINE c == Cardinality(G)
                     d == Cardinality(tools[r])
          <6>1. c <= d /\ d <= calls[r] /\ c \in Nat /\ d \in Nat /\ calls[r] \in Nat
            <7>1. c <= d
              BY <2>5
            <7>2. d <= calls[r] /\ calls[r] \in Nat
              BY <2>8
            <7>3. c \in Nat /\ d \in Nat
              BY <2>7
            <7> QED
              BY <7>1, <7>2, <7>3
          <6> HIDE DEF c, d
          <6>2. c <= calls[r]
            BY <6>1
          <6> QED
            BY <6>2 DEF c
        <5>3. pending[r] + b <= StepCalls
          <6> HIDE DEF a, b
          <6> QED
            BY <4>1, <5>1
        <5> QED
          BY <5>2, <5>3
    <3>2. \A y \in G : y.step <= step[r]
      BY <2>5, <2>8
    <3> QED
      BY <2>3, <2>4, <2>5, <2>6, <2>8, <3>1, <3>2 DEF ToolsOf
  <2> QED
    BY <2>1, <2>9 DEF ToolsFollow
<1>11. ASSUME NEW r \in Requests, ToolError(r)
      PROVE  ToolsFollow'
  BY <1>11, ConstantsAssumption DEF IInv, TypeOK, Phases, Executing, Suspended,
     ToolsFollow, ToolsOf, Execution, ToolError, Raise, rows, locals, Goto, Exists,
     Logged, Streamed
<1>12. ASSUME NEW r \in Requests, SaveAnswer(r)
      PROVE  ToolsFollow'
  BY <1>12, ConstantsAssumption DEF IInv, TypeOK, Phases, Executing, Suspended,
     ToolsFollow, ToolsOf, Execution, SaveAnswer, rows, locals, Goto, Exists,
     Logged, Streamed
<1>13. ASSUME NEW r \in Requests, Succeed(r)
      PROVE  ToolsFollow'
  BY <1>13, ConstantsAssumption DEF IInv, TypeOK, Phases, Executing, Suspended,
     ToolsFollow, ToolsOf, Execution, Succeed, SetRun, rows, locals, Goto, Exists,
     Logged, Streamed
<1>14. ASSUME NEW r \in Requests, Done(r)
      PROVE  ToolsFollow'
  BY <1>14, ConstantsAssumption DEF IInv, TypeOK, Phases, Executing, Suspended,
     ToolsFollow, ToolsOf, Execution, Done, SetLog, rows, locals, Goto, Exists,
     Logged, Streamed
<1>15. ASSUME NEW r \in Requests, Fail(r)
      PROVE  ToolsFollow'
  BY <1>15, ConstantsAssumption DEF IInv, TypeOK, Phases, Executing, Suspended,
     ToolsFollow, ToolsOf, Execution, Fail, SetRun, SetLog, rows, locals, Goto,
     Exists, Logged, Streamed
<1>16. ASSUME NEW r \in Requests, ErrorEvent(r)
      PROVE  ToolsFollow'
  BY <1>16, ConstantsAssumption DEF IInv, TypeOK, Phases, Executing, Suspended,
     ToolsFollow, ToolsOf, Execution, ErrorEvent, SetLog, rows, locals, Goto,
     Exists, Logged, Streamed
<1>17. ASSUME NEW r \in Requests, Over(r)
      PROVE  ToolsFollow'
  BY <1>17, ConstantsAssumption DEF IInv, TypeOK, Phases, Executing, Suspended,
     ToolsFollow, ToolsOf, Execution, Over, rows, locals, Goto, Exists, Logged,
     Streamed
<1>18. ASSUME NEW r \in Requests, CloseLog(r)
      PROVE  ToolsFollow'
  BY <1>18, ConstantsAssumption DEF IInv, TypeOK, Phases, Executing, Suspended,
     ToolsFollow, ToolsOf, Execution, CloseLog, SetLog, rows, locals, Goto, Exists,
     Logged, Streamed
<1>19. ASSUME NEW r \in Requests, Vanished(r)
      PROVE  ToolsFollow'
  BY <1>19, ConstantsAssumption DEF IInv, TypeOK, Phases, Executing, Suspended,
     ToolsFollow, ToolsOf, Execution, Vanished, rows, locals, Goto, Exists, Logged,
     Streamed
<1>20. ASSUME NEW r \in Requests, Leave(r)
      PROVE  ToolsFollow'
  BY <1>20, ConstantsAssumption DEF IInv, TypeOK, Phases, Executing, Suspended,
     ToolsFollow, ToolsOf, Execution, Leave, Hurt, Finally, rows, locals, Goto,
     Exists, Logged, Streamed
<1>21. ASSUME NEW r \in Requests, StoreFails(r)
      PROVE  ToolsFollow'
  BY <1>21, ConstantsAssumption DEF IInv, TypeOK, Phases, Executing, Suspended,
     ToolsFollow, ToolsOf, Execution, StoreFails, Hurt, Raise, Finally, rows,
     locals, Goto, Exists, Logged, Streamed
<1>22. ASSUME NEW r \in Requests, Die(r)
      PROVE  ToolsFollow'
  BY <1>22, ConstantsAssumption DEF IInv, TypeOK, Phases, Executing, Suspended,
     ToolsFollow, ToolsOf, Execution, Die, Hurt, rows, locals, Goto, Exists, Logged,
     Streamed
<1>23. ASSUME NEW c \in Conversations, Delete(c)
      PROVE  ToolsFollow'
  <2>1. ASSUME NEW q \in Requests
        PROVE  ToolsOf(q)'
    <3>1. /\ pc'[q] = pc[q] /\ (tools'[q] = tools[q] \/ tools'[q] = {}) /\ step'[q] = step[q]
          /\ calls'[q] = calls[q] /\ pending'[q] = pending[q] /\ total'[q] = total[q]
          /\ hurt'[q] = hurt[q]
      BY <1>23, <2>1 DEF Delete, locals, IInv, TypeOK
    <3>2. ToolsOf(q)
      BY DEF IInv, ToolsFollow
    <3>3. CASE tools'[q] = tools[q]
      BY <3>1, <3>2, <3>3 DEF ToolsOf
    <3>4. CASE tools'[q] = {}
      <4>1. IsFiniteSet({}) /\ Cardinality({}) = 0
        BY FS_EmptySet
      <4>2. {x \in tools'[q] : x.step = step'[q]} = {}
        BY <3>4
      <4>3. /\ calls[q] \in Nat /\ pending[q] \in Nat /\ step[q] \in Nat
            /\ Cardinality({x \in tools[q] : x.step = step[q]}) \in Nat
        <5>1. calls[q] \in Nat /\ pending[q] \in Nat /\ step[q] \in Nat
          BY DEF IInv, TypeOK
        <5> QED
          BY <5>1, CountsAreNumbers
      <4>4. pending[q] <= StepCalls
        BY <3>2, <4>3, ConstantsAssumption DEF ToolsOf
      <4> QED
        BY <3>1, <3>2, <3>4, <4>1, <4>2, <4>3, <4>4 DEF ToolsOf
    <3> QED
      BY <3>1, <3>3, <3>4
  <2> QED
    BY <2>1 DEF ToolsFollow
<1> QED
  BY <1>0, <1>1, <1>2, <1>3, <1>4, <1>5, <1>6, <1>7, <1>8, <1>9, <1>10, <1>11,
     <1>12, <1>13, <1>14, <1>15, <1>16, <1>17, <1>18, <1>19, <1>20, <1>21, <1>22,
     <1>23 DEF Next, Server

(* The rows tell whether there is an answer.                               *)
LEMMA RowsStep ==
  IInv /\ [Next]_vars => RowsTellTheAnswer'
<1> SUFFICES ASSUME IInv, [Next]_vars
             PROVE  RowsTellTheAnswer'
  OBVIOUS
<1>0. CASE UNCHANGED vars
  BY <1>0 DEF vars, IInv, TypeOK, Phases, Executing, Suspended, RowsTellTheAnswer,
     RunFollows, LogFollows, DeletedLeavesNothing, Terminal, rows, locals, Goto,
     Exists, Logged, Streamed
<1>1. ASSUME NEW r \in Requests, StartLog(r)
      PROVE  RowsTellTheAnswer'
  BY <1>1 DEF IInv, TypeOK, Phases, Executing, Suspended, RowsTellTheAnswer,
     RunFollows, LogFollows, DeletedLeavesNothing, Terminal, StartLog, SetLog, rows,
     locals, Goto, Exists, Logged, Streamed
<1>2. ASSUME NEW r \in Requests, Ask(r)
      PROVE  RowsTellTheAnswer'
  BY <1>2 DEF IInv, TypeOK, Phases, Executing, Suspended, RowsTellTheAnswer,
     RunFollows, LogFollows, DeletedLeavesNothing, Terminal, Ask, rows, locals,
     Goto, Exists, Logged, Streamed
<1>3. ASSUME NEW r \in Requests, Create(r)
      PROVE  RowsTellTheAnswer'
  BY <1>3 DEF IInv, TypeOK, Phases, Executing, Suspended, RowsTellTheAnswer,
     RunFollows, LogFollows, DeletedLeavesNothing, Terminal, Create, SetRun, SetLog,
     rows, locals, Goto, Exists, Logged, Streamed
<1>4. ASSUME NEW r \in Requests, Meta(r)
      PROVE  RowsTellTheAnswer'
  BY <1>4 DEF IInv, TypeOK, Phases, Executing, Suspended, RowsTellTheAnswer,
     RunFollows, LogFollows, DeletedLeavesNothing, Terminal, Meta, rows, locals,
     Goto, Exists, Logged, Streamed
<1>5. ASSUME NEW r \in Requests, Generate(r)
      PROVE  RowsTellTheAnswer'
  BY <1>5 DEF IInv, TypeOK, Phases, Executing, Suspended, RowsTellTheAnswer,
     RunFollows, LogFollows, DeletedLeavesNothing, Terminal, Generate, Raise,
     Begins, rows, locals, Goto, Exists, Logged, Streamed
<1>6. ASSUME NEW r \in Requests, Start(r)
      PROVE  RowsTellTheAnswer'
  BY <1>6 DEF IInv, TypeOK, Phases, Executing, Suspended, RowsTellTheAnswer,
     RunFollows, LogFollows, DeletedLeavesNothing, Terminal, Start, Raise, Begins,
     rows, locals, Goto, Exists, Logged, Streamed
<1>7. ASSUME NEW r \in Requests, Step(r)
      PROVE  RowsTellTheAnswer'
  BY <1>7 DEF IInv, TypeOK, Phases, Executing, Suspended, RowsTellTheAnswer,
     RunFollows, LogFollows, DeletedLeavesNothing, Terminal, Step, Raise, rows,
     locals, Goto, Exists, Logged, Streamed
<1>8. ASSUME NEW r \in Requests, Turn(r)
      PROVE  RowsTellTheAnswer'
  BY <1>8 DEF IInv, TypeOK, Phases, Executing, Suspended, RowsTellTheAnswer,
     RunFollows, LogFollows, DeletedLeavesNothing, Terminal, Turn, Raise, rows,
     locals, Goto, Exists, Logged, Streamed
<1>9. ASSUME NEW r \in Requests, Prepare(r)
      PROVE  RowsTellTheAnswer'
  BY <1>9 DEF IInv, TypeOK, Phases, Executing, Suspended, RowsTellTheAnswer,
     RunFollows, LogFollows, DeletedLeavesNothing, Terminal, Prepare, Called, rows,
     locals, Goto, Exists, Logged, Streamed
<1>10. ASSUME NEW r \in Requests, Execute(r)
      PROVE  RowsTellTheAnswer'
  BY <1>10 DEF IInv, TypeOK, Phases, Executing, Suspended, RowsTellTheAnswer,
     RunFollows, LogFollows, DeletedLeavesNothing, Terminal, Execute, Raise, Closed,
     rows, locals, Goto, Exists, Logged, Streamed
<1>11. ASSUME NEW r \in Requests, ToolError(r)
      PROVE  RowsTellTheAnswer'
  BY <1>11 DEF IInv, TypeOK, Phases, Executing, Suspended, RowsTellTheAnswer,
     RunFollows, LogFollows, DeletedLeavesNothing, Terminal, ToolError, Raise, rows,
     locals, Goto, Exists, Logged, Streamed
<1>12. ASSUME NEW r \in Requests, SaveAnswer(r)
      PROVE  RowsTellTheAnswer'
  BY <1>12 DEF IInv, TypeOK, Phases, Executing, Suspended, RowsTellTheAnswer,
     RunFollows, LogFollows, DeletedLeavesNothing, Terminal, SaveAnswer, rows,
     locals, Goto, Exists, Logged, Streamed
<1>13. ASSUME NEW r \in Requests, Succeed(r)
      PROVE  RowsTellTheAnswer'
  BY <1>13 DEF IInv, TypeOK, Phases, Executing, Suspended, RowsTellTheAnswer,
     RunFollows, LogFollows, DeletedLeavesNothing, Terminal, Succeed, SetRun, rows,
     locals, Goto, Exists, Logged, Streamed
<1>14. ASSUME NEW r \in Requests, Done(r)
      PROVE  RowsTellTheAnswer'
  BY <1>14 DEF IInv, TypeOK, Phases, Executing, Suspended, RowsTellTheAnswer,
     RunFollows, LogFollows, DeletedLeavesNothing, Terminal, Done, SetLog, rows,
     locals, Goto, Exists, Logged, Streamed
<1>15. ASSUME NEW r \in Requests, Fail(r)
      PROVE  RowsTellTheAnswer'
  BY <1>15 DEF IInv, TypeOK, Phases, Executing, Suspended, RowsTellTheAnswer,
     RunFollows, LogFollows, DeletedLeavesNothing, Terminal, Fail, SetRun, SetLog,
     rows, locals, Goto, Exists, Logged, Streamed
<1>16. ASSUME NEW r \in Requests, ErrorEvent(r)
      PROVE  RowsTellTheAnswer'
  BY <1>16 DEF IInv, TypeOK, Phases, Executing, Suspended, RowsTellTheAnswer,
     RunFollows, LogFollows, DeletedLeavesNothing, Terminal, ErrorEvent, SetLog,
     rows, locals, Goto, Exists, Logged, Streamed
<1>17. ASSUME NEW r \in Requests, Over(r)
      PROVE  RowsTellTheAnswer'
  BY <1>17 DEF IInv, TypeOK, Phases, Executing, Suspended, RowsTellTheAnswer,
     RunFollows, LogFollows, DeletedLeavesNothing, Terminal, Over, rows, locals,
     Goto, Exists, Logged, Streamed
<1>18. ASSUME NEW r \in Requests, CloseLog(r)
      PROVE  RowsTellTheAnswer'
  BY <1>18 DEF IInv, TypeOK, Phases, Executing, Suspended, RowsTellTheAnswer,
     RunFollows, LogFollows, DeletedLeavesNothing, Terminal, CloseLog, SetLog, rows,
     locals, Goto, Exists, Logged, Streamed
<1>19. ASSUME NEW r \in Requests, Vanished(r)
      PROVE  RowsTellTheAnswer'
  BY <1>19 DEF IInv, TypeOK, Phases, Executing, Suspended, RowsTellTheAnswer,
     RunFollows, LogFollows, DeletedLeavesNothing, Terminal, Vanished, rows, locals,
     Goto, Exists, Logged, Streamed
<1>20. ASSUME NEW r \in Requests, Leave(r)
      PROVE  RowsTellTheAnswer'
  BY <1>20 DEF IInv, TypeOK, Phases, Executing, Suspended, RowsTellTheAnswer,
     RunFollows, LogFollows, DeletedLeavesNothing, Terminal, Leave, Hurt, Finally,
     rows, locals, Goto, Exists, Logged, Streamed
<1>21. ASSUME NEW r \in Requests, StoreFails(r)
      PROVE  RowsTellTheAnswer'
  BY <1>21 DEF IInv, TypeOK, Phases, Executing, Suspended, RowsTellTheAnswer,
     RunFollows, LogFollows, DeletedLeavesNothing, Terminal, StoreFails, Hurt,
     Raise, Finally, rows, locals, Goto, Exists, Logged, Streamed
<1>22. ASSUME NEW r \in Requests, Die(r)
      PROVE  RowsTellTheAnswer'
  BY <1>22 DEF IInv, TypeOK, Phases, Executing, Suspended, RowsTellTheAnswer,
     RunFollows, LogFollows, DeletedLeavesNothing, Terminal, Die, Hurt, rows,
     locals, Goto, Exists, Logged, Streamed
<1>23. ASSUME NEW c \in Conversations, Delete(c)
      PROVE  RowsTellTheAnswer'
  BY <1>23 DEF IInv, TypeOK, Phases, Executing, Suspended, RowsTellTheAnswer,
     RunFollows, LogFollows, DeletedLeavesNothing, Terminal, Delete, rows, locals,
     Goto, Exists, Logged, Streamed
<1> QED
  BY <1>0, <1>1, <1>2, <1>3, <1>4, <1>5, <1>6, <1>7, <1>8, <1>9, <1>10, <1>11,
     <1>12, <1>13, <1>14, <1>15, <1>16, <1>17, <1>18, <1>19, <1>20, <1>21, <1>22,
     <1>23 DEF Next, Server

(* A failure in the log of an answer has its reason.                       *)
LEMMA ExplainedStep ==
  IInv /\ [Next]_vars => FailedLogsAreExplained'
<1> SUFFICES ASSUME IInv, [Next]_vars
             PROVE  FailedLogsAreExplained'
  OBVIOUS
<1>0. CASE UNCHANGED vars
  BY <1>0 DEF vars, IInv, TypeOK, Phases, Executing, Suspended,
     FailedLogsAreExplained, RunFollows, LogFollows, DeletedLeavesNothing, rows,
     locals, Goto, Exists, Logged, Streamed
<1>1. ASSUME NEW r \in Requests, StartLog(r)
      PROVE  FailedLogsAreExplained'
  BY <1>1 DEF IInv, TypeOK, Phases, Executing, Suspended, FailedLogsAreExplained,
     RunFollows, LogFollows, DeletedLeavesNothing, StartLog, SetLog, rows, locals,
     Goto, Exists, Logged, Streamed
<1>2. ASSUME NEW r \in Requests, Ask(r)
      PROVE  FailedLogsAreExplained'
  BY <1>2 DEF IInv, TypeOK, Phases, Executing, Suspended, FailedLogsAreExplained,
     RunFollows, LogFollows, DeletedLeavesNothing, Ask, rows, locals, Goto, Exists,
     Logged, Streamed
<1>3. ASSUME NEW r \in Requests, Create(r)
      PROVE  FailedLogsAreExplained'
  BY <1>3 DEF IInv, TypeOK, Phases, Executing, Suspended, FailedLogsAreExplained,
     RunFollows, LogFollows, DeletedLeavesNothing, Create, SetRun, SetLog, rows,
     locals, Goto, Exists, Logged, Streamed
<1>4. ASSUME NEW r \in Requests, Meta(r)
      PROVE  FailedLogsAreExplained'
  BY <1>4 DEF IInv, TypeOK, Phases, Executing, Suspended, FailedLogsAreExplained,
     RunFollows, LogFollows, DeletedLeavesNothing, Meta, rows, locals, Goto, Exists,
     Logged, Streamed
<1>5. ASSUME NEW r \in Requests, Generate(r)
      PROVE  FailedLogsAreExplained'
  BY <1>5 DEF IInv, TypeOK, Phases, Executing, Suspended, FailedLogsAreExplained,
     RunFollows, LogFollows, DeletedLeavesNothing, Generate, Raise, Begins, rows,
     locals, Goto, Exists, Logged, Streamed
<1>6. ASSUME NEW r \in Requests, Start(r)
      PROVE  FailedLogsAreExplained'
  BY <1>6 DEF IInv, TypeOK, Phases, Executing, Suspended, FailedLogsAreExplained,
     RunFollows, LogFollows, DeletedLeavesNothing, Start, Raise, Begins, rows,
     locals, Goto, Exists, Logged, Streamed
<1>7. ASSUME NEW r \in Requests, Step(r)
      PROVE  FailedLogsAreExplained'
  BY <1>7 DEF IInv, TypeOK, Phases, Executing, Suspended, FailedLogsAreExplained,
     RunFollows, LogFollows, DeletedLeavesNothing, Step, Raise, rows, locals, Goto,
     Exists, Logged, Streamed
<1>8. ASSUME NEW r \in Requests, Turn(r)
      PROVE  FailedLogsAreExplained'
  BY <1>8 DEF IInv, TypeOK, Phases, Executing, Suspended, FailedLogsAreExplained,
     RunFollows, LogFollows, DeletedLeavesNothing, Turn, Raise, rows, locals, Goto,
     Exists, Logged, Streamed
<1>9. ASSUME NEW r \in Requests, Prepare(r)
      PROVE  FailedLogsAreExplained'
  BY <1>9 DEF IInv, TypeOK, Phases, Executing, Suspended, FailedLogsAreExplained,
     RunFollows, LogFollows, DeletedLeavesNothing, Prepare, Called, rows, locals,
     Goto, Exists, Logged, Streamed
<1>10. ASSUME NEW r \in Requests, Execute(r)
      PROVE  FailedLogsAreExplained'
  BY <1>10 DEF IInv, TypeOK, Phases, Executing, Suspended, FailedLogsAreExplained,
     RunFollows, LogFollows, DeletedLeavesNothing, Execute, Raise, Closed, rows,
     locals, Goto, Exists, Logged, Streamed
<1>11. ASSUME NEW r \in Requests, ToolError(r)
      PROVE  FailedLogsAreExplained'
  BY <1>11 DEF IInv, TypeOK, Phases, Executing, Suspended, FailedLogsAreExplained,
     RunFollows, LogFollows, DeletedLeavesNothing, ToolError, Raise, rows, locals,
     Goto, Exists, Logged, Streamed
<1>12. ASSUME NEW r \in Requests, SaveAnswer(r)
      PROVE  FailedLogsAreExplained'
  BY <1>12 DEF IInv, TypeOK, Phases, Executing, Suspended, FailedLogsAreExplained,
     RunFollows, LogFollows, DeletedLeavesNothing, SaveAnswer, rows, locals, Goto,
     Exists, Logged, Streamed
<1>13. ASSUME NEW r \in Requests, Succeed(r)
      PROVE  FailedLogsAreExplained'
  BY <1>13 DEF IInv, TypeOK, Phases, Executing, Suspended, FailedLogsAreExplained,
     RunFollows, LogFollows, DeletedLeavesNothing, Succeed, SetRun, rows, locals,
     Goto, Exists, Logged, Streamed
<1>14. ASSUME NEW r \in Requests, Done(r)
      PROVE  FailedLogsAreExplained'
  BY <1>14 DEF IInv, TypeOK, Phases, Executing, Suspended, FailedLogsAreExplained,
     RunFollows, LogFollows, DeletedLeavesNothing, Done, SetLog, rows, locals, Goto,
     Exists, Logged, Streamed
<1>15. ASSUME NEW r \in Requests, Fail(r)
      PROVE  FailedLogsAreExplained'
  BY <1>15 DEF IInv, TypeOK, Phases, Executing, Suspended, FailedLogsAreExplained,
     RunFollows, LogFollows, DeletedLeavesNothing, Fail, SetRun, SetLog, rows,
     locals, Goto, Exists, Logged, Streamed
<1>16. ASSUME NEW r \in Requests, ErrorEvent(r)
      PROVE  FailedLogsAreExplained'
  BY <1>16 DEF IInv, TypeOK, Phases, Executing, Suspended, FailedLogsAreExplained,
     RunFollows, LogFollows, DeletedLeavesNothing, ErrorEvent, SetLog, rows, locals,
     Goto, Exists, Logged, Streamed
<1>17. ASSUME NEW r \in Requests, Over(r)
      PROVE  FailedLogsAreExplained'
  BY <1>17 DEF IInv, TypeOK, Phases, Executing, Suspended, FailedLogsAreExplained,
     RunFollows, LogFollows, DeletedLeavesNothing, Over, rows, locals, Goto, Exists,
     Logged, Streamed
<1>18. ASSUME NEW r \in Requests, CloseLog(r)
      PROVE  FailedLogsAreExplained'
  BY <1>18 DEF IInv, TypeOK, Phases, Executing, Suspended, FailedLogsAreExplained,
     RunFollows, LogFollows, DeletedLeavesNothing, CloseLog, SetLog, rows, locals,
     Goto, Exists, Logged, Streamed
<1>19. ASSUME NEW r \in Requests, Vanished(r)
      PROVE  FailedLogsAreExplained'
  BY <1>19 DEF IInv, TypeOK, Phases, Executing, Suspended, FailedLogsAreExplained,
     RunFollows, LogFollows, DeletedLeavesNothing, Vanished, rows, locals, Goto,
     Exists, Logged, Streamed
<1>20. ASSUME NEW r \in Requests, Leave(r)
      PROVE  FailedLogsAreExplained'
  BY <1>20 DEF IInv, TypeOK, Phases, Executing, Suspended, FailedLogsAreExplained,
     RunFollows, LogFollows, DeletedLeavesNothing, Leave, Hurt, Finally, rows,
     locals, Goto, Exists, Logged, Streamed
<1>21. ASSUME NEW r \in Requests, StoreFails(r)
      PROVE  FailedLogsAreExplained'
  BY <1>21 DEF IInv, TypeOK, Phases, Executing, Suspended, FailedLogsAreExplained,
     RunFollows, LogFollows, DeletedLeavesNothing, StoreFails, Hurt, Raise, Finally,
     rows, locals, Goto, Exists, Logged, Streamed
<1>22. ASSUME NEW r \in Requests, Die(r)
      PROVE  FailedLogsAreExplained'
  BY <1>22 DEF IInv, TypeOK, Phases, Executing, Suspended, FailedLogsAreExplained,
     RunFollows, LogFollows, DeletedLeavesNothing, Die, Hurt, rows, locals, Goto,
     Exists, Logged, Streamed
<1>23. ASSUME NEW c \in Conversations, Delete(c)
      PROVE  FailedLogsAreExplained'
  BY <1>23 DEF IInv, TypeOK, Phases, Executing, Suspended, FailedLogsAreExplained,
     RunFollows, LogFollows, DeletedLeavesNothing, Delete, rows, locals, Goto,
     Exists, Logged, Streamed
<1> QED
  BY <1>0, <1>1, <1>2, <1>3, <1>4, <1>5, <1>6, <1>7, <1>8, <1>9, <1>10, <1>11,
     <1>12, <1>13, <1>14, <1>15, <1>16, <1>17, <1>18, <1>19, <1>20, <1>21, <1>22,
     <1>23 DEF Next, Server

(* A run that ends by itself leaves no tool execution open.                *)
LEMMA ClosedStep ==
  IInv /\ [Next]_vars => ToolsAreClosed'
<1> SUFFICES ASSUME IInv, [Next]_vars
             PROVE  ToolsAreClosed'
  OBVIOUS
<1>0. CASE UNCHANGED vars
  BY <1>0 DEF vars, IInv, TypeOK, Phases, Executing, Suspended, ToolsAreClosed,
     RunFollows, ToolsFollow, ToolsOf, DeletedLeavesNothing, Terminal, Execution,
     rows, locals, Goto, Exists, Logged, Streamed
<1>1. ASSUME NEW r \in Requests, StartLog(r)
      PROVE  ToolsAreClosed'
  BY <1>1 DEF IInv, TypeOK, Phases, Executing, Suspended, ToolsAreClosed,
     RunFollows, ToolsFollow, ToolsOf, DeletedLeavesNothing, Terminal, Execution,
     StartLog, SetLog, rows, locals, Goto, Exists, Logged, Streamed
<1>2. ASSUME NEW r \in Requests, Ask(r)
      PROVE  ToolsAreClosed'
  BY <1>2 DEF IInv, TypeOK, Phases, Executing, Suspended, ToolsAreClosed,
     RunFollows, ToolsFollow, ToolsOf, DeletedLeavesNothing, Terminal, Execution,
     Ask, rows, locals, Goto, Exists, Logged, Streamed
<1>3. ASSUME NEW r \in Requests, Create(r)
      PROVE  ToolsAreClosed'
  BY <1>3 DEF IInv, TypeOK, Phases, Executing, Suspended, ToolsAreClosed,
     RunFollows, ToolsFollow, ToolsOf, DeletedLeavesNothing, Terminal, Execution,
     Create, SetRun, SetLog, rows, locals, Goto, Exists, Logged, Streamed
<1>4. ASSUME NEW r \in Requests, Meta(r)
      PROVE  ToolsAreClosed'
  BY <1>4 DEF IInv, TypeOK, Phases, Executing, Suspended, ToolsAreClosed,
     RunFollows, ToolsFollow, ToolsOf, DeletedLeavesNothing, Terminal, Execution,
     Meta, rows, locals, Goto, Exists, Logged, Streamed
<1>5. ASSUME NEW r \in Requests, Generate(r)
      PROVE  ToolsAreClosed'
  BY <1>5 DEF IInv, TypeOK, Phases, Executing, Suspended, ToolsAreClosed,
     RunFollows, ToolsFollow, ToolsOf, DeletedLeavesNothing, Terminal, Execution,
     Generate, Raise, Begins, rows, locals, Goto, Exists, Logged, Streamed
<1>6. ASSUME NEW r \in Requests, Start(r)
      PROVE  ToolsAreClosed'
  BY <1>6 DEF IInv, TypeOK, Phases, Executing, Suspended, ToolsAreClosed,
     RunFollows, ToolsFollow, ToolsOf, DeletedLeavesNothing, Terminal, Execution,
     Start, Raise, Begins, rows, locals, Goto, Exists, Logged, Streamed
<1>7. ASSUME NEW r \in Requests, Step(r)
      PROVE  ToolsAreClosed'
  BY <1>7 DEF IInv, TypeOK, Phases, Executing, Suspended, ToolsAreClosed,
     RunFollows, ToolsFollow, ToolsOf, DeletedLeavesNothing, Terminal, Execution,
     Step, Raise, rows, locals, Goto, Exists, Logged, Streamed
<1>8. ASSUME NEW r \in Requests, Turn(r)
      PROVE  ToolsAreClosed'
  BY <1>8 DEF IInv, TypeOK, Phases, Executing, Suspended, ToolsAreClosed,
     RunFollows, ToolsFollow, ToolsOf, DeletedLeavesNothing, Terminal, Execution,
     Turn, Raise, rows, locals, Goto, Exists, Logged, Streamed
<1>9. ASSUME NEW r \in Requests, Prepare(r)
      PROVE  ToolsAreClosed'
  <2>1. run[r] = "RUNNING" /\ run' = run /\ asked' = asked /\ hurt' = hurt
    BY <1>9 DEF Prepare, Executing, Exists, IInv, RunFollows
  <2>2. ASSUME NEW q \in Requests, q # r
        PROVE  tools'[q] = tools[q]
    BY <1>9, <2>2 DEF Prepare, IInv, TypeOK
  <2>3. \A x \in tools[r] : x.status # "RUNNING"
    BY <1>9, OfEach DEF Prepare, ToolsOf
  <2>4. \E x0 : tools'[r] = tools[r] \cup {x0}
    BY <1>9 DEF Prepare, IInv, TypeOK
  <2> QED
    BY <2>1, <2>2, <2>3, <2>4 DEF ToolsAreClosed, IInv, Terminal
<1>10. ASSUME NEW r \in Requests, Execute(r)
      PROVE  ToolsAreClosed'
  BY <1>10 DEF IInv, TypeOK, Phases, Executing, Suspended, ToolsAreClosed,
     RunFollows, ToolsFollow, ToolsOf, DeletedLeavesNothing, Terminal, Execution,
     Execute, Raise, Closed, rows, locals, Goto, Exists, Logged, Streamed
<1>11. ASSUME NEW r \in Requests, ToolError(r)
      PROVE  ToolsAreClosed'
  BY <1>11 DEF IInv, TypeOK, Phases, Executing, Suspended, ToolsAreClosed,
     RunFollows, ToolsFollow, ToolsOf, DeletedLeavesNothing, Terminal, Execution,
     ToolError, Raise, rows, locals, Goto, Exists, Logged, Streamed
<1>12. ASSUME NEW r \in Requests, SaveAnswer(r)
      PROVE  ToolsAreClosed'
  BY <1>12 DEF IInv, TypeOK, Phases, Executing, Suspended, ToolsAreClosed,
     RunFollows, ToolsFollow, ToolsOf, DeletedLeavesNothing, Terminal, Execution,
     SaveAnswer, rows, locals, Goto, Exists, Logged, Streamed
<1>13. ASSUME NEW r \in Requests, Succeed(r)
      PROVE  ToolsAreClosed'
  <2>1. tools' = tools /\ hurt' = hurt /\ \A q \in Requests : q # r => run'[q] = run[q]
    BY <1>13 DEF Succeed, SetRun, IInv, TypeOK
  <2>2. \A x \in tools[r] : x.status # "RUNNING"
    BY <1>13, OfEach DEF Succeed, ToolsOf
  <2> QED
    BY <2>1, <2>2 DEF ToolsAreClosed, IInv
<1>14. ASSUME NEW r \in Requests, Done(r)
      PROVE  ToolsAreClosed'
  BY <1>14 DEF IInv, TypeOK, Phases, Executing, Suspended, ToolsAreClosed,
     RunFollows, ToolsFollow, ToolsOf, DeletedLeavesNothing, Terminal, Execution,
     Done, SetLog, rows, locals, Goto, Exists, Logged, Streamed
<1>15. ASSUME NEW r \in Requests, Fail(r)
      PROVE  ToolsAreClosed'
  <2>1. tools' = tools /\ hurt' = hurt /\ \A q \in Requests : q # r => run'[q] = run[q]
    BY <1>15 DEF Fail, SetRun, IInv, TypeOK
  <2>2. "store" \notin hurt[r] => \A x \in tools[r] : x.status # "RUNNING"
    BY <1>15, OfEach DEF Fail, ToolsOf
  <2> QED
    BY <2>1, <2>2 DEF ToolsAreClosed, IInv
<1>16. ASSUME NEW r \in Requests, ErrorEvent(r)
      PROVE  ToolsAreClosed'
  BY <1>16 DEF IInv, TypeOK, Phases, Executing, Suspended, ToolsAreClosed,
     RunFollows, ToolsFollow, ToolsOf, DeletedLeavesNothing, Terminal, Execution,
     ErrorEvent, SetLog, rows, locals, Goto, Exists, Logged, Streamed
<1>17. ASSUME NEW r \in Requests, Over(r)
      PROVE  ToolsAreClosed'
  BY <1>17 DEF IInv, TypeOK, Phases, Executing, Suspended, ToolsAreClosed,
     RunFollows, ToolsFollow, ToolsOf, DeletedLeavesNothing, Terminal, Execution,
     Over, rows, locals, Goto, Exists, Logged, Streamed
<1>18. ASSUME NEW r \in Requests, CloseLog(r)
      PROVE  ToolsAreClosed'
  BY <1>18 DEF IInv, TypeOK, Phases, Executing, Suspended, ToolsAreClosed,
     RunFollows, ToolsFollow, ToolsOf, DeletedLeavesNothing, Terminal, Execution,
     CloseLog, SetLog, rows, locals, Goto, Exists, Logged, Streamed
<1>19. ASSUME NEW r \in Requests, Vanished(r)
      PROVE  ToolsAreClosed'
  BY <1>19 DEF IInv, TypeOK, Phases, Executing, Suspended, ToolsAreClosed,
     RunFollows, ToolsFollow, ToolsOf, DeletedLeavesNothing, Terminal, Execution,
     Vanished, rows, locals, Goto, Exists, Logged, Streamed
<1>20. ASSUME NEW r \in Requests, Leave(r)
      PROVE  ToolsAreClosed'
  BY <1>20 DEF IInv, TypeOK, Phases, Executing, Suspended, ToolsAreClosed,
     RunFollows, ToolsFollow, ToolsOf, DeletedLeavesNothing, Terminal, Execution,
     Leave, Hurt, Finally, rows, locals, Goto, Exists, Logged, Streamed
<1>21. ASSUME NEW r \in Requests, StoreFails(r)
      PROVE  ToolsAreClosed'
  BY <1>21 DEF IInv, TypeOK, Phases, Executing, Suspended, ToolsAreClosed,
     RunFollows, ToolsFollow, ToolsOf, DeletedLeavesNothing, Terminal, Execution,
     StoreFails, Hurt, Raise, Finally, rows, locals, Goto, Exists, Logged, Streamed
<1>22. ASSUME NEW r \in Requests, Die(r)
      PROVE  ToolsAreClosed'
  BY <1>22 DEF IInv, TypeOK, Phases, Executing, Suspended, ToolsAreClosed,
     RunFollows, ToolsFollow, ToolsOf, DeletedLeavesNothing, Terminal, Execution,
     Die, Hurt, rows, locals, Goto, Exists, Logged, Streamed
<1>23. ASSUME NEW c \in Conversations, Delete(c)
      PROVE  ToolsAreClosed'
  BY <1>23 DEF IInv, TypeOK, Phases, Executing, Suspended, ToolsAreClosed,
     RunFollows, ToolsFollow, ToolsOf, DeletedLeavesNothing, Terminal, Execution,
     Delete, rows, locals, Goto, Exists, Logged, Streamed
<1> QED
  BY <1>0, <1>1, <1>2, <1>3, <1>4, <1>5, <1>6, <1>7, <1>8, <1>9, <1>10, <1>11,
     <1>12, <1>13, <1>14, <1>15, <1>16, <1>17, <1>18, <1>19, <1>20, <1>21, <1>22,
     <1>23 DEF Next, Server

(* The limits hold.                                                        *)
LEMMA LimitsStep ==
  IInv /\ [Next]_vars => WithinLimits'
<1> SUFFICES ASSUME IInv, [Next]_vars
             PROVE  WithinLimits'
  OBVIOUS
<1>0. CASE UNCHANGED vars
  BY <1>0 DEF vars, IInv, TypeOK, Phases, Executing, Suspended, WithinLimits,
     LimitsOf, RunFollows, ToolsFollow, ToolsOf, DeletedLeavesNothing, rows, locals,
     Goto, Exists, Logged, Streamed
<1>1. ASSUME NEW r \in Requests, StartLog(r)
      PROVE  WithinLimits'
  BY <1>1, ConstantsAssumption DEF IInv, TypeOK, Phases, Executing, Suspended,
     WithinLimits, LimitsOf, RunFollows, ToolsFollow, ToolsOf, DeletedLeavesNothing,
     StartLog, SetLog, rows, locals, Goto, Exists, Logged, Streamed
<1>2. ASSUME NEW r \in Requests, Ask(r)
      PROVE  WithinLimits'
  BY <1>2, ConstantsAssumption DEF IInv, TypeOK, Phases, Executing, Suspended,
     WithinLimits, LimitsOf, RunFollows, ToolsFollow, ToolsOf, DeletedLeavesNothing,
     Ask, rows, locals, Goto, Exists, Logged, Streamed
<1>3. ASSUME NEW r \in Requests, Create(r)
      PROVE  WithinLimits'
  BY <1>3, ConstantsAssumption DEF IInv, TypeOK, Phases, Executing, Suspended,
     WithinLimits, LimitsOf, RunFollows, ToolsFollow, ToolsOf, DeletedLeavesNothing,
     Create, SetRun, SetLog, rows, locals, Goto, Exists, Logged, Streamed
<1>4. ASSUME NEW r \in Requests, Meta(r)
      PROVE  WithinLimits'
  BY <1>4, ConstantsAssumption DEF IInv, TypeOK, Phases, Executing, Suspended,
     WithinLimits, LimitsOf, RunFollows, ToolsFollow, ToolsOf, DeletedLeavesNothing,
     Meta, rows, locals, Goto, Exists, Logged, Streamed
<1>5. ASSUME NEW r \in Requests, Generate(r)
      PROVE  WithinLimits'
  BY <1>5, ConstantsAssumption DEF IInv, TypeOK, Phases, Executing, Suspended,
     WithinLimits, LimitsOf, RunFollows, ToolsFollow, ToolsOf, DeletedLeavesNothing,
     Generate, Raise, Begins, rows, locals, Goto, Exists, Logged, Streamed
<1>6. ASSUME NEW r \in Requests, Start(r)
      PROVE  WithinLimits'
  BY <1>6, ConstantsAssumption DEF IInv, TypeOK, Phases, Executing, Suspended,
     WithinLimits, LimitsOf, RunFollows, ToolsFollow, ToolsOf, DeletedLeavesNothing,
     Start, Raise, Begins, rows, locals, Goto, Exists, Logged, Streamed
<1>7. ASSUME NEW r \in Requests, Step(r)
      PROVE  WithinLimits'
  <2>1. ASSUME NEW q \in Requests, q # r
        PROVE  LimitsOf(q)'
    <3>1. tools'[q] = tools[q] /\ step'[q] = step[q] /\ run'[q] = run[q] /\ total'[q] = total[q]
      BY <1>7, <2>1 DEF Step, Goto, rows, locals, Raise, IInv, TypeOK
    <3> QED
      BY <3>1 DEF LimitsOf, IInv, WithinLimits
  <2>2. LimitsOf(r)
    BY DEF IInv, WithinLimits
  <2>3. /\ tools'[r] = tools[r] /\ step'[r] = step[r] + 1 /\ step[r] < MaxSteps
        /\ run'[r] = run[r] /\ total'[r] = total[r] /\ step[r] \in Nat
    <3>1. ToolsOf(r) /\ step[r] \in Nat
      BY OfEach
    <3>2. pc[r] \in {"start", "tool_result"}
      BY <1>7 DEF Step
    <3>3. step[r] < MaxSteps
      <4>1. CASE pc[r] = "start"
        <5>1. step[r] = 0
          BY <3>1, <4>1 DEF ToolsOf
        <5> QED
          BY <5>1, ConstantsAssumption
      <4>2. CASE pc[r] = "tool_result"
        BY <3>1, <4>2 DEF ToolsOf
      <4> QED
        BY <3>2, <4>1, <4>2
    <3>4. step'[r] = step[r] + 1
      BY <1>7 DEF Step, IInv, TypeOK
    <3> QED
      BY <1>7, <3>1, <3>3, <3>4 DEF Step, rows
  <2>4. \A s \in 1 .. step'[r] : s \in 1 .. step[r] \/ s = step'[r]
    BY <2>3
  <2>5. /\ Cardinality(tools'[r]) <= RunCalls
        /\ Cardinality({x \in tools'[r] : x.step = step'[r]}) <= StepCalls
    <3>1. ToolsOf(r)'
      BY ToolsStep DEF ToolsFollow
    <3>2. /\ calls'[r] \in Nat /\ pending'[r] \in Nat /\ IsFiniteSet(tools'[r])
      BY TypeStep, <3>1 DEF TypeOK, ToolsOf
    <3>3. /\ Cardinality(tools'[r]) \in Nat
          /\ Cardinality({x \in tools'[r] : x.step = step'[r]}) \in Nat
      BY <3>2, FS_CardinalityType, FS_Subset
    <3>4. /\ Cardinality(tools'[r]) <= calls'[r] /\ pending'[r] + calls'[r] <= RunCalls
          /\ pending'[r] + Cardinality({x \in tools'[r] : x.step = step'[r]}) <= StepCalls
      BY <3>1 DEF ToolsOf
    <3>5. RunCalls \in Nat /\ StepCalls \in Nat
      BY ConstantsAssumption
    <3> QED
      BY <3>2, <3>3, <3>4, <3>5
  <2>6. \A s \in 1 .. step'[r] : Cardinality({x \in tools'[r] : x.step = s}) <= StepCalls
    <3> TAKE s \in 1 .. step'[r]
    <3>1. CASE s \in 1 .. step[r]
      BY <2>2, <2>3, <3>1 DEF LimitsOf
    <3>2. CASE s = step'[r]
      BY <2>5, <3>2
    <3> QED
      BY <2>4, <3>1, <3>2
  <2>7. step'[r] <= MaxSteps
    BY <2>3, ConstantsAssumption
  <2>9. LimitsOf(r)'
    BY <2>2, <2>3, <2>5, <2>6, <2>7 DEF LimitsOf
  <2> QED
    BY <2>1, <2>9 DEF WithinLimits
<1>8. ASSUME NEW r \in Requests, Turn(r)
      PROVE  WithinLimits'
  BY <1>8, ConstantsAssumption DEF IInv, TypeOK, Phases, Executing, Suspended,
     WithinLimits, LimitsOf, RunFollows, ToolsFollow, ToolsOf, DeletedLeavesNothing,
     Turn, Raise, rows, locals, Goto, Exists, Logged, Streamed
<1>9. ASSUME NEW r \in Requests, Prepare(r)
      PROVE  WithinLimits'
  <2>1. ASSUME NEW q \in Requests, q # r
        PROVE  LimitsOf(q)'
    <3>1. tools'[q] = tools[q] /\ step'[q] = step[q] /\ run'[q] = run[q] /\ total'[q] = total[q]
      BY <1>9, <2>1 DEF Prepare, Goto, rows, locals, IInv, TypeOK
    <3> QED
      BY <3>1 DEF LimitsOf, IInv, WithinLimits
  <2>2. LimitsOf(r)
    BY DEF IInv, WithinLimits
  <2>3. /\ step'[r] = step[r] /\ run'[r] = run[r] /\ total'[r] = total[r]
        /\ step[r] \in Nat /\ step[r] < MaxSteps
        /\ \E x0 : x0.step = step[r] /\ tools'[r] = tools[r] \cup {x0}
    <3>1. step[r] < MaxSteps /\ step[r] \in Nat
      BY <1>9, OfEach DEF Prepare, ToolsOf
    <3>2. \A tool, status : Called(r, tool, status).step = step[r]
      BY DEF Called
    <3>3. \E tool, status : tools' = [tools EXCEPT ![r] = @ \cup {Called(r, tool, status)}]
      BY <1>9 DEF Prepare
    <3> QED
      BY <1>9, <3>1, <3>2, <3>3 DEF Prepare, IInv, TypeOK
  <2>4. PICK x0 : x0.step = step[r] /\ tools'[r] = tools[r] \cup {x0}
    BY <2>3
  <2>5. /\ Cardinality(tools'[r]) <= RunCalls
        /\ Cardinality({x \in tools'[r] : x.step = step'[r]}) <= StepCalls
    <3>1. ToolsOf(r)'
      BY ToolsStep DEF ToolsFollow
    <3>2. /\ calls'[r] \in Nat /\ pending'[r] \in Nat /\ IsFiniteSet(tools'[r])
      BY TypeStep, <3>1 DEF TypeOK, ToolsOf
    <3>3. /\ Cardinality(tools'[r]) \in Nat
          /\ Cardinality({x \in tools'[r] : x.step = step'[r]}) \in Nat
      BY <3>2, FS_CardinalityType, FS_Subset
    <3>4. /\ Cardinality(tools'[r]) <= calls'[r] /\ pending'[r] + calls'[r] <= RunCalls
          /\ pending'[r] + Cardinality({x \in tools'[r] : x.step = step'[r]}) <= StepCalls
      BY <3>1 DEF ToolsOf
    <3>5. RunCalls \in Nat /\ StepCalls \in Nat
      BY ConstantsAssumption
    <3> QED
      BY <3>2, <3>3, <3>4, <3>5
  <2>6. \A s \in 1 .. step'[r] : Cardinality({x \in tools'[r] : x.step = s}) <= StepCalls
    <3> TAKE s \in 1 .. step'[r]
    <3>1. CASE s = step'[r]
      BY <2>5, <3>1
    <3>2. CASE s # step'[r]
      <4>1. {x \in tools'[r] : x.step = s} = {x \in tools[r] : x.step = s}
        BY <2>3, <2>4, <3>2
      <4> QED
        BY <2>2, <2>3, <4>1 DEF LimitsOf
    <3> QED
      BY <3>1, <3>2
  <2>7. \A x \in tools'[r] : x.step < MaxSteps
    BY <2>2, <2>3, <2>4 DEF LimitsOf
  <2>9. LimitsOf(r)'
    BY <2>2, <2>3, <2>5, <2>6, <2>7 DEF LimitsOf
  <2> QED
    BY <2>1, <2>9 DEF WithinLimits
<1>10. ASSUME NEW r \in Requests, Execute(r)
      PROVE  WithinLimits'
  <2>1. ASSUME NEW q \in Requests, q # r
        PROVE  LimitsOf(q)'
    <3>1. tools'[q] = tools[q] /\ step'[q] = step[q] /\ run'[q] = run[q] /\ total'[q] = total[q]
      BY <1>10, <2>1 DEF Execute, Goto, rows, locals, Raise, Closed, IInv, TypeOK
    <3> QED
      BY <3>1 DEF LimitsOf, IInv, WithinLimits
  <2>2. LimitsOf(r)
    BY DEF IInv, WithinLimits
  <2>3. /\ step'[r] = step[r] /\ run'[r] = run[r] /\ run[r] # "SUCCESS" /\ step[r] \in Nat
    BY <1>10 DEF Execute, Exists, IInv, TypeOK, RunFollows, Executing
  <2>4. PICK status \in {"SUCCESS", "FAILURE", "REJECTED"} :
          tools'[r] = {[x EXCEPT !.status = IF x.status = "RUNNING" THEN status ELSE x.status] :
                         x \in tools[r]}
    BY <1>10 DEF Execute, Closed, IInv, TypeOK
  <2>5. /\ Cardinality(tools'[r]) <= RunCalls
        /\ Cardinality({x \in tools'[r] : x.step = step'[r]}) <= StepCalls
    <3>1. ToolsOf(r)'
      BY ToolsStep DEF ToolsFollow
    <3>2. /\ calls'[r] \in Nat /\ pending'[r] \in Nat /\ IsFiniteSet(tools'[r])
      BY TypeStep, <3>1 DEF TypeOK, ToolsOf
    <3>3. /\ Cardinality(tools'[r]) \in Nat
          /\ Cardinality({x \in tools'[r] : x.step = step'[r]}) \in Nat
      BY <3>2, FS_CardinalityType, FS_Subset
    <3>4. /\ Cardinality(tools'[r]) <= calls'[r] /\ pending'[r] + calls'[r] <= RunCalls
          /\ pending'[r] + Cardinality({x \in tools'[r] : x.step = step'[r]}) <= StepCalls
      BY <3>1 DEF ToolsOf
    <3>5. RunCalls \in Nat /\ StepCalls \in Nat
      BY ConstantsAssumption
    <3> QED
      BY <3>2, <3>3, <3>4, <3>5
  <2>6. /\ IsFiniteSet(tools[r]) /\ tools[r] \in SUBSET Execution
        /\ \A x \in tools[r] : x.step \in Nat /\ x.step < MaxSteps
    BY <2>2, <2>3, CountsAreNumbers, OfEach DEF LimitsOf
  <2>7. \A x \in tools'[r] : x.step < MaxSteps
    <3>1. \A y \in tools'[r] : \E x \in tools[r] : y.step = x.step
      BY <2>3, <2>4, <2>6, ClosingKeepsCounts
    <3> QED
      BY <2>6, <3>1
  <2>8. \A s \in 1 .. step'[r] : Cardinality({x \in tools'[r] : x.step = s}) <= StepCalls
    <3> TAKE s \in 1 .. step'[r]
    <3>1. s \in Nat /\ s \in 1 .. step[r]
      BY <2>3
    <3>2. Cardinality({x \in tools'[r] : x.step = s}) <= Cardinality({x \in tools[r] : x.step = s})
      BY <2>4, <2>6, <3>1, ClosingKeepsCounts
    <3>3. Cardinality({x \in tools[r] : x.step = s}) <= StepCalls
      BY <2>2, <3>1 DEF LimitsOf
    <3>4. /\ Cardinality({x \in tools[r] : x.step = s}) \in Nat
          /\ Cardinality({x \in tools'[r] : x.step = s}) \in Nat
      <4>1. IsFiniteSet(tools'[r])
        BY <2>4, <2>6, <3>1, ClosingKeepsCounts
      <4> QED
        BY <2>6, <4>1, FS_Subset, FS_CardinalityType
    <3> QED
      BY <3>2, <3>3, <3>4, ConstantsAssumption
  <2>9. LimitsOf(r)'
    BY <2>2, <2>3, <2>5, <2>7, <2>8 DEF LimitsOf
  <2> QED
    BY <2>1, <2>9 DEF WithinLimits
<1>11. ASSUME NEW r \in Requests, ToolError(r)
      PROVE  WithinLimits'
  BY <1>11, ConstantsAssumption DEF IInv, TypeOK, Phases, Executing, Suspended,
     WithinLimits, LimitsOf, RunFollows, ToolsFollow, ToolsOf, DeletedLeavesNothing,
     ToolError, Raise, rows, locals, Goto, Exists, Logged, Streamed
<1>12. ASSUME NEW r \in Requests, SaveAnswer(r)
      PROVE  WithinLimits'
  BY <1>12, ConstantsAssumption DEF IInv, TypeOK, Phases, Executing, Suspended,
     WithinLimits, LimitsOf, RunFollows, ToolsFollow, ToolsOf, DeletedLeavesNothing,
     SaveAnswer, rows, locals, Goto, Exists, Logged, Streamed
<1>13. ASSUME NEW r \in Requests, Succeed(r)
      PROVE  WithinLimits'
  BY <1>13, ConstantsAssumption DEF IInv, TypeOK, Phases, Executing, Suspended,
     WithinLimits, LimitsOf, RunFollows, ToolsFollow, ToolsOf, DeletedLeavesNothing,
     Succeed, SetRun, rows, locals, Goto, Exists, Logged, Streamed
<1>14. ASSUME NEW r \in Requests, Done(r)
      PROVE  WithinLimits'
  BY <1>14, ConstantsAssumption DEF IInv, TypeOK, Phases, Executing, Suspended,
     WithinLimits, LimitsOf, RunFollows, ToolsFollow, ToolsOf, DeletedLeavesNothing,
     Done, SetLog, rows, locals, Goto, Exists, Logged, Streamed
<1>15. ASSUME NEW r \in Requests, Fail(r)
      PROVE  WithinLimits'
  BY <1>15, ConstantsAssumption DEF IInv, TypeOK, Phases, Executing, Suspended,
     WithinLimits, LimitsOf, RunFollows, ToolsFollow, ToolsOf, DeletedLeavesNothing,
     Fail, SetRun, SetLog, rows, locals, Goto, Exists, Logged, Streamed
<1>16. ASSUME NEW r \in Requests, ErrorEvent(r)
      PROVE  WithinLimits'
  BY <1>16, ConstantsAssumption DEF IInv, TypeOK, Phases, Executing, Suspended,
     WithinLimits, LimitsOf, RunFollows, ToolsFollow, ToolsOf, DeletedLeavesNothing,
     ErrorEvent, SetLog, rows, locals, Goto, Exists, Logged, Streamed
<1>17. ASSUME NEW r \in Requests, Over(r)
      PROVE  WithinLimits'
  BY <1>17, ConstantsAssumption DEF IInv, TypeOK, Phases, Executing, Suspended,
     WithinLimits, LimitsOf, RunFollows, ToolsFollow, ToolsOf, DeletedLeavesNothing,
     Over, rows, locals, Goto, Exists, Logged, Streamed
<1>18. ASSUME NEW r \in Requests, CloseLog(r)
      PROVE  WithinLimits'
  BY <1>18, ConstantsAssumption DEF IInv, TypeOK, Phases, Executing, Suspended,
     WithinLimits, LimitsOf, RunFollows, ToolsFollow, ToolsOf, DeletedLeavesNothing,
     CloseLog, SetLog, rows, locals, Goto, Exists, Logged, Streamed
<1>19. ASSUME NEW r \in Requests, Vanished(r)
      PROVE  WithinLimits'
  BY <1>19, ConstantsAssumption DEF IInv, TypeOK, Phases, Executing, Suspended,
     WithinLimits, LimitsOf, RunFollows, ToolsFollow, ToolsOf, DeletedLeavesNothing,
     Vanished, rows, locals, Goto, Exists, Logged, Streamed
<1>20. ASSUME NEW r \in Requests, Leave(r)
      PROVE  WithinLimits'
  BY <1>20, ConstantsAssumption DEF IInv, TypeOK, Phases, Executing, Suspended,
     WithinLimits, LimitsOf, RunFollows, ToolsFollow, ToolsOf, DeletedLeavesNothing,
     Leave, Hurt, Finally, rows, locals, Goto, Exists, Logged, Streamed
<1>21. ASSUME NEW r \in Requests, StoreFails(r)
      PROVE  WithinLimits'
  BY <1>21, ConstantsAssumption DEF IInv, TypeOK, Phases, Executing, Suspended,
     WithinLimits, LimitsOf, RunFollows, ToolsFollow, ToolsOf, DeletedLeavesNothing,
     StoreFails, Hurt, Raise, Finally, rows, locals, Goto, Exists, Logged, Streamed
<1>22. ASSUME NEW r \in Requests, Die(r)
      PROVE  WithinLimits'
  BY <1>22, ConstantsAssumption DEF IInv, TypeOK, Phases, Executing, Suspended,
     WithinLimits, LimitsOf, RunFollows, ToolsFollow, ToolsOf, DeletedLeavesNothing,
     Die, Hurt, rows, locals, Goto, Exists, Logged, Streamed
<1>23. ASSUME NEW c \in Conversations, Delete(c)
      PROVE  WithinLimits'
  <2>1. ASSUME NEW q \in Requests
        PROVE  LimitsOf(q)'
    <3>1. /\ step'[q] = step[q] /\ total'[q] = total[q]
          /\ \/ tools'[q] = tools[q] /\ run'[q] = run[q]
             \/ tools'[q] = {} /\ run'[q] = "NONE"
      BY <1>23 DEF Delete, locals, IInv, TypeOK
    <3>2. LimitsOf(q)
      BY DEF IInv, WithinLimits
    <3>3. CASE tools'[q] = tools[q] /\ run'[q] = run[q]
      BY <3>1, <3>2, <3>3 DEF LimitsOf
    <3>4. CASE tools'[q] = {} /\ run'[q] = "NONE"
      <4>1. /\ Cardinality(tools'[q]) = 0
            /\ \A s : Cardinality({x \in tools'[q] : x.step = s}) = 0
        <5>1. \A s : {x \in tools'[q] : x.step = s} = {}
          BY <3>4
        <5> QED
          BY <3>4, <5>1, FS_EmptySet
      <4> QED
        BY <3>1, <3>2, <3>4, <4>1, ConstantsAssumption DEF LimitsOf
    <3> QED
      BY <3>1, <3>3, <3>4
  <2> QED
    BY <2>1 DEF WithinLimits
<1> QED
  BY <1>0, <1>1, <1>2, <1>3, <1>4, <1>5, <1>6, <1>7, <1>8, <1>9, <1>10, <1>11,
     <1>12, <1>13, <1>14, <1>15, <1>16, <1>17, <1>18, <1>19, <1>20, <1>21, <1>22,
     <1>23 DEF Next, Server

(* Nothing is written for a deleted conversation.                          *)
LEMMA DeletedStep ==
  IInv /\ [Next]_vars => DeletedLeavesNothing'
<1> SUFFICES ASSUME IInv, [Next]_vars
             PROVE  DeletedLeavesNothing'
  OBVIOUS
<1>0. CASE UNCHANGED vars
  BY <1>0 DEF vars, IInv, TypeOK, Phases, Executing, Suspended,
     DeletedLeavesNothing, rows, locals, Goto, Exists, Logged, Streamed
<1>1. ASSUME NEW r \in Requests, StartLog(r)
      PROVE  DeletedLeavesNothing'
  BY <1>1 DEF IInv, TypeOK, Phases, Executing, Suspended, DeletedLeavesNothing,
     StartLog, SetLog, rows, locals, Goto, Exists, Logged, Streamed
<1>2. ASSUME NEW r \in Requests, Ask(r)
      PROVE  DeletedLeavesNothing'
  BY <1>2 DEF IInv, TypeOK, Phases, Executing, Suspended, DeletedLeavesNothing, Ask,
     rows, locals, Goto, Exists, Logged, Streamed
<1>3. ASSUME NEW r \in Requests, Create(r)
      PROVE  DeletedLeavesNothing'
  BY <1>3 DEF IInv, TypeOK, Phases, Executing, Suspended, DeletedLeavesNothing,
     Create, SetRun, SetLog, rows, locals, Goto, Exists, Logged, Streamed
<1>4. ASSUME NEW r \in Requests, Meta(r)
      PROVE  DeletedLeavesNothing'
  BY <1>4 DEF IInv, TypeOK, Phases, Executing, Suspended, DeletedLeavesNothing,
     Meta, rows, locals, Goto, Exists, Logged, Streamed
<1>5. ASSUME NEW r \in Requests, Generate(r)
      PROVE  DeletedLeavesNothing'
  BY <1>5 DEF IInv, TypeOK, Phases, Executing, Suspended, DeletedLeavesNothing,
     Generate, Raise, Begins, rows, locals, Goto, Exists, Logged, Streamed
<1>6. ASSUME NEW r \in Requests, Start(r)
      PROVE  DeletedLeavesNothing'
  BY <1>6 DEF IInv, TypeOK, Phases, Executing, Suspended, DeletedLeavesNothing,
     Start, Raise, Begins, rows, locals, Goto, Exists, Logged, Streamed
<1>7. ASSUME NEW r \in Requests, Step(r)
      PROVE  DeletedLeavesNothing'
  BY <1>7 DEF IInv, TypeOK, Phases, Executing, Suspended, DeletedLeavesNothing,
     Step, Raise, rows, locals, Goto, Exists, Logged, Streamed
<1>8. ASSUME NEW r \in Requests, Turn(r)
      PROVE  DeletedLeavesNothing'
  BY <1>8 DEF IInv, TypeOK, Phases, Executing, Suspended, DeletedLeavesNothing,
     Turn, Raise, rows, locals, Goto, Exists, Logged, Streamed
<1>9. ASSUME NEW r \in Requests, Prepare(r)
      PROVE  DeletedLeavesNothing'
  BY <1>9 DEF IInv, TypeOK, Phases, Executing, Suspended, DeletedLeavesNothing,
     Prepare, Called, rows, locals, Goto, Exists, Logged, Streamed
<1>10. ASSUME NEW r \in Requests, Execute(r)
      PROVE  DeletedLeavesNothing'
  BY <1>10 DEF IInv, TypeOK, Phases, Executing, Suspended, DeletedLeavesNothing,
     Execute, Raise, Closed, rows, locals, Goto, Exists, Logged, Streamed
<1>11. ASSUME NEW r \in Requests, ToolError(r)
      PROVE  DeletedLeavesNothing'
  BY <1>11 DEF IInv, TypeOK, Phases, Executing, Suspended, DeletedLeavesNothing,
     ToolError, Raise, rows, locals, Goto, Exists, Logged, Streamed
<1>12. ASSUME NEW r \in Requests, SaveAnswer(r)
      PROVE  DeletedLeavesNothing'
  BY <1>12 DEF IInv, TypeOK, Phases, Executing, Suspended, DeletedLeavesNothing,
     SaveAnswer, rows, locals, Goto, Exists, Logged, Streamed
<1>13. ASSUME NEW r \in Requests, Succeed(r)
      PROVE  DeletedLeavesNothing'
  BY <1>13 DEF IInv, TypeOK, Phases, Executing, Suspended, DeletedLeavesNothing,
     Succeed, SetRun, rows, locals, Goto, Exists, Logged, Streamed
<1>14. ASSUME NEW r \in Requests, Done(r)
      PROVE  DeletedLeavesNothing'
  BY <1>14 DEF IInv, TypeOK, Phases, Executing, Suspended, DeletedLeavesNothing,
     Done, SetLog, rows, locals, Goto, Exists, Logged, Streamed
<1>15. ASSUME NEW r \in Requests, Fail(r)
      PROVE  DeletedLeavesNothing'
  BY <1>15 DEF IInv, TypeOK, Phases, Executing, Suspended, DeletedLeavesNothing,
     Fail, SetRun, SetLog, rows, locals, Goto, Exists, Logged, Streamed
<1>16. ASSUME NEW r \in Requests, ErrorEvent(r)
      PROVE  DeletedLeavesNothing'
  BY <1>16 DEF IInv, TypeOK, Phases, Executing, Suspended, DeletedLeavesNothing,
     ErrorEvent, SetLog, rows, locals, Goto, Exists, Logged, Streamed
<1>17. ASSUME NEW r \in Requests, Over(r)
      PROVE  DeletedLeavesNothing'
  BY <1>17 DEF IInv, TypeOK, Phases, Executing, Suspended, DeletedLeavesNothing,
     Over, rows, locals, Goto, Exists, Logged, Streamed
<1>18. ASSUME NEW r \in Requests, CloseLog(r)
      PROVE  DeletedLeavesNothing'
  BY <1>18 DEF IInv, TypeOK, Phases, Executing, Suspended, DeletedLeavesNothing,
     CloseLog, SetLog, rows, locals, Goto, Exists, Logged, Streamed
<1>19. ASSUME NEW r \in Requests, Vanished(r)
      PROVE  DeletedLeavesNothing'
  BY <1>19 DEF IInv, TypeOK, Phases, Executing, Suspended, DeletedLeavesNothing,
     Vanished, rows, locals, Goto, Exists, Logged, Streamed
<1>20. ASSUME NEW r \in Requests, Leave(r)
      PROVE  DeletedLeavesNothing'
  BY <1>20 DEF IInv, TypeOK, Phases, Executing, Suspended, DeletedLeavesNothing,
     Leave, Hurt, Finally, rows, locals, Goto, Exists, Logged, Streamed
<1>21. ASSUME NEW r \in Requests, StoreFails(r)
      PROVE  DeletedLeavesNothing'
  BY <1>21 DEF IInv, TypeOK, Phases, Executing, Suspended, DeletedLeavesNothing,
     StoreFails, Hurt, Raise, Finally, rows, locals, Goto, Exists, Logged, Streamed
<1>22. ASSUME NEW r \in Requests, Die(r)
      PROVE  DeletedLeavesNothing'
  BY <1>22 DEF IInv, TypeOK, Phases, Executing, Suspended, DeletedLeavesNothing,
     Die, Hurt, rows, locals, Goto, Exists, Logged, Streamed
<1>23. ASSUME NEW c \in Conversations, Delete(c)
      PROVE  DeletedLeavesNothing'
  BY <1>23 DEF IInv, TypeOK, Phases, Executing, Suspended, DeletedLeavesNothing,
     Delete, rows, locals, Goto, Exists, Logged, Streamed
<1> QED
  BY <1>0, <1>1, <1>2, <1>3, <1>4, <1>5, <1>6, <1>7, <1>8, <1>9, <1>10, <1>11,
     <1>12, <1>13, <1>14, <1>15, <1>16, <1>17, <1>18, <1>19, <1>20, <1>21, <1>22,
     <1>23 DEF Next, Server

-----------------------------------------------------------------------------
(* The inductive invariant holds of the initial states and of every step.  *)
THEOREM Invariance == Spec => []IInv
<1>1. Init => IInv
  <2> SUFFICES ASSUME Init PROVE IInv
    OBVIOUS
  <2>1. TypeOK
    BY DEF Init, TypeOK, Phases, Terminal
  <2>2. RunFollows /\ LogFollows /\ RowsTellTheAnswer /\ FailedLogsAreExplained
         /\ ToolsAreClosed /\ DeletedLeavesNothing
    BY DEF Init, RunFollows, LogFollows, RowsTellTheAnswer, FailedLogsAreExplained,
       ToolsAreClosed, DeletedLeavesNothing, Executing, Terminal
  <2>3. IsFiniteSet({}) /\ Cardinality({}) = 0
    BY FS_EmptySet
  <2>4. \A r \in Requests : /\ tools[r] = {} /\ {x \in tools[r] : x.step = step[r]} = {}
                              /\ step[r] = 0 /\ calls[r] = 0 /\ pending[r] = 0
                              /\ total[r] = 0 /\ pc[r] = "idle" /\ run[r] = "NONE"
    BY DEF Init
  <2>5. ToolsFollow /\ WithinLimits
    <3> SUFFICES ASSUME NEW r \in Requests PROVE ToolsOf(r) /\ LimitsOf(r)
      BY DEF ToolsFollow, WithinLimits
    <3>1. /\ tools[r] = {} /\ {x \in tools[r] : x.step = step[r]} = {}
          /\ step[r] = 0 /\ calls[r] = 0 /\ pending[r] = 0
          /\ total[r] = 0 /\ pc[r] = "idle" /\ run[r] = "NONE"
      BY <2>4
    <3>2. Cardinality(tools[r]) = 0 /\ Cardinality({x \in tools[r] : x.step = step[r]}) = 0
      BY <2>3, <3>1
    <3>3. 0 <= RunCalls /\ 0 <= StepCalls /\ 0 <= MaxTotal /\ 0 <= MaxSteps /\ 1 .. 0 = {}
      BY ConstantsAssumption
    <3>4. ToolsOf(r)
      <4>1. 0 + 0 <= RunCalls /\ 0 + 0 <= StepCalls /\ 0 <= 0
        BY <3>3
      <4> QED
        BY <2>3, <3>1, <3>2, <3>3, <4>1 DEF ToolsOf
    <3>5. LimitsOf(r)
      BY <3>1, <3>2, <3>3 DEF LimitsOf
    <3> QED
      BY <3>4, <3>5
  <2> QED
    BY <2>1, <2>2, <2>5 DEF IInv
<1>2. IInv /\ [Next]_vars => IInv'
  BY TypeStep, RunStep, LogStep, ToolsStep, RowsStep, ExplainedStep, ClosedStep,
     LimitsStep, DeletedStep DEF IInv
<1> QED
  BY <1>1, <1>2, PTL DEF Spec

(* A run or a log that succeeded has its answer, one that failed has none. *)
THEOREM RowsTellTheTruth == Spec => []RowsTellTheAnswer
  BY Invariance, PTL DEF IInv

(* The log of an answer says failure only for a reason.                    *)
THEOREM FailuresAreExplained == Spec => []FailedLogsAreExplained
  BY Invariance, PTL DEF IInv

(* A run that ends by itself has no open tool execution.                   *)
THEOREM NoToolStaysOpen == Spec => []ToolsAreClosed
  BY Invariance, PTL DEF IInv

(* Steps, calls and tool output stay within their limits.                  *)
THEOREM RunsKeepLimits == Spec => []WithinLimits
  BY Invariance, PTL DEF IInv

(* Nothing is written for a deleted conversation.                          *)
THEOREM NothingAfterDeletion == Spec => []DeletedLeavesNothing
  BY Invariance, PTL DEF IInv

(* The outcome of a run, and of a log, is written once.                    *)
THEOREM OutcomesAreFinal == Spec => OutcomeIsFinal
<1>1. IInv /\ [Next]_vars =>
        [\A r \in Requests : asked[r].conv \notin deleted' =>
           /\ run[r] \in Terminal => run'[r] = run[r]
           /\ log[r] \in {"SUCCESS", "FAILURE"} => log'[r] = log[r]]_vars
  <2> SUFFICES ASSUME IInv, Next, NEW r \in Requests, asked[r].conv \notin deleted'
               PROVE  /\ run[r] \in Terminal => run'[r] = run[r]
                      /\ log[r] \in {"SUCCESS", "FAILURE"} => log'[r] = log[r]
    OBVIOUS
  <2>1. ASSUME NEW q \in Requests, Server(q) \/ Leave(q) \/ StoreFails(q) \/ Die(q)
        PROVE  /\ run[r] \in Terminal => run'[r] = run[r]
               /\ log[r] \in {"SUCCESS", "FAILURE"} => log'[r] = log[r]
    <3>0. Exists(r) /\ (q = r => Exists(q)) /\ q # r => TRUE
      OBVIOUS
    <3>1. deleted' = deleted
      BY <2>1 DEF Server, StartLog, Ask, Create, Meta, Generate, Start, Step, Turn,
         Prepare, Execute, ToolError, SaveAnswer, Succeed, Done, Fail, ErrorEvent,
         Over, CloseLog, Vanished, Leave, StoreFails, Die, Goto, Raise, Begins,
         Closed, Called, Hurt, Finally, locals, Exists, Logged, Streamed
    <3>2. CASE q # r
      BY <2>1, <3>2 DEF Server, StartLog, Ask, Create, Meta, Generate, Start, Step,
         Turn, Prepare, Execute, ToolError, SaveAnswer, Succeed, Done, Fail,
         ErrorEvent, Over, CloseLog, Vanished, Leave, StoreFails, Die, Goto, Raise,
         Begins, Closed, Called, Hurt, Finally, locals, Exists, Logged, Streamed,
         SetRun, SetLog, rows, IInv, TypeOK
    <3>3. CASE q = r
      <4>1. Exists(r)
        BY <3>1 DEF Exists
      <4>2. /\ pc[r] \in {"idle", "ask", "create"} => run[r] = "NONE"
            /\ asked[r].agent /\ pc[r] \in {"ready", "meta", "saved", "fail"} \cup Executing =>
                  run[r] = "RUNNING"
            /\ pc[r] \in {"saved", "failed"} \cup (Executing \ {"content"}) => asked[r].agent
            /\ pc[r] \notin {"idle", "done", "error", "ended"} /\ Logged(r) => log[r] = "RUNNING"
            /\ pc[r] = "idle" => log[r] = "NONE"
        BY <4>1 DEF IInv, RunFollows, LogFollows
      <4>3. CASE \/ Ask(r) \/ Meta(r) \/ Generate(r) \/ Start(r) \/ Step(r) \/ Turn(r) \/ ToolError(r)
                  \/ SaveAnswer(r) \/ Over(r) \/ Vanished(r) \/ StoreFails(r) \/ Die(r) \/ Prepare(r) \/ Execute(r)
        BY <4>3 DEF Ask, Meta, Generate, Start, Step, Turn, ToolError, SaveAnswer,
           Over, Vanished, StoreFails, Die, Prepare, Execute, rows
      <4>4. CASE StartLog(r)
        <5>1. /\ run' = run \/ (run[r] \notin Terminal)
              /\ log' = log \/ (log[r] \notin {"SUCCESS", "FAILURE"})
          BY <4>2, <4>4 DEF StartLog, SetRun, SetLog, Exists, Logged, Terminal,
             Executing
        <5> QED
          BY <5>1
      <4>5. CASE Create(r)
        <5>1. /\ run' = run \/ (run[r] \notin Terminal)
              /\ log' = log \/ (log[r] \notin {"SUCCESS", "FAILURE"})
          BY <4>2, <4>5 DEF Create, SetRun, SetLog, Exists, Logged, Terminal,
             Executing
        <5> QED
          BY <5>1
      <4>6. CASE Succeed(r)
        <5>1. /\ run' = run \/ (run[r] \notin Terminal)
              /\ log' = log \/ (log[r] \notin {"SUCCESS", "FAILURE"})
          BY <4>2, <4>6 DEF Succeed, SetRun, SetLog, Exists, Logged, Terminal,
             Executing
        <5> QED
          BY <5>1
      <4>7. CASE Done(r)
        <5>1. /\ run' = run \/ (run[r] \notin Terminal)
              /\ log' = log \/ (log[r] \notin {"SUCCESS", "FAILURE"})
          BY <4>2, <4>7 DEF Done, SetRun, SetLog, Exists, Logged, Terminal, Executing
        <5> QED
          BY <5>1
      <4>8. CASE Fail(r)
        <5>1. /\ run' = run \/ (run[r] \notin Terminal)
              /\ log' = log \/ (log[r] \notin {"SUCCESS", "FAILURE"})
          BY <4>2, <4>8 DEF Fail, SetRun, SetLog, Exists, Logged, Terminal, Executing
        <5> QED
          BY <5>1
      <4>9. CASE ErrorEvent(r)
        <5>1. /\ run' = run \/ (run[r] \notin Terminal)
              /\ log' = log \/ (log[r] \notin {"SUCCESS", "FAILURE"})
          BY <4>2, <4>9 DEF ErrorEvent, SetRun, SetLog, Exists, Logged, Terminal,
             Executing
        <5> QED
          BY <5>1
      <4>10. CASE CloseLog(r)
        <5>1. /\ run' = run \/ (run[r] \notin Terminal)
              /\ log' = log \/ (log[r] \notin {"SUCCESS", "FAILURE"})
          BY <4>2, <4>10 DEF CloseLog, SetRun, SetLog, Exists, Logged, Terminal,
             Executing
        <5> QED
          BY <5>1
      <4>11. CASE Leave(r)
        <5>1. /\ run' = run \/ (run[r] \notin Terminal)
              /\ log' = log \/ (log[r] \notin {"SUCCESS", "FAILURE"})
          BY <4>2, <4>11 DEF Leave, SetRun, SetLog, Exists, Logged, Terminal,
             Executing, Finally
        <5> QED
          BY <5>1
      <4> QED
        BY <2>1, <3>3, <4>3, <4>4, <4>5, <4>6, <4>7, <4>8, <4>9, <4>10, <4>11 DEF
           Server
    <3> QED
      BY <3>2, <3>3
  <2>2. ASSUME NEW c \in Conversations, Delete(c)
        PROVE  run'[r] = run[r] /\ log'[r] = log[r]
    BY <2>2 DEF Delete, IInv, TypeOK
  <2> QED
    BY <2>1, <2>2 DEF Next
<1> QED
  BY <1>1, Invariance, PTL DEF Spec, OutcomeIsFinal
=============================================================================
