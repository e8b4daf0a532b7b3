----------------------------- MODULE ChatStreams -----------------------------
(***************************************************************************)
(* Questions and what is written about them: the access log of an          *)
(* application, the user's and the assistant's messages, the agent run and *)
(* its tool executions.  An answer is made by a generator that the server  *)
(* resumes event by event: the client can leave at every event, the worker *)
(* can die and the database can refuse at every write, and the             *)
(* conversation can be deleted beside it.                                  *)
(*                                                                         *)
(* pc names where the request stands; at the phases in Suspended the       *)
(* generator has yielded and the client can leave.  Texts, latencies and   *)
(* references are left out; the size of a tool's result is a number.       *)
(***************************************************************************)
EXTENDS Naturals, FiniteSets

CONSTANTS
  Requests,
  Conversations,
  Tools,          \* registered tools
  EnabledTools,   \* those the application or knowledge base has switched on
  MaxSteps,       \* agent_max_steps
  StepCalls,      \* MAX_TOOL_CALLS_PER_STEP
  RunCalls,       \* MAX_TOOL_CALLS_PER_RUN
  MaxResult,      \* MAX_TOOL_RESULT_CHARS
  MaxTotal        \* MAX_TOTAL_TOOL_RESULT_CHARS

ASSUME ConstantsAssumption ==
  /\ EnabledTools \subseteq Tools
  /\ MaxSteps \in Nat \ {0}
  /\ {StepCalls, RunCalls, MaxResult, MaxTotal} \subseteq Nat

VARIABLES
  asked,      \* what each request is: its door, agent mode, conversation
  pc,         \* where it stands
  log,        \* its ApplicationAccessLog's status
  run,        \* its AgentRun's status
  answered,   \* requests whose assistant message is saved
  tools,      \* their ToolExecution rows
  step, calls, pending, total,   \* local variables of stream_agent_run: the
              \* step, the calls made, those left of this step, the characters
  outcome,    \* the status that the error being handled asks for
  deleted,    \* conversations that were deleted, with what hangs on them
  hurt        \* auxiliary: what befell the request: "left", "unread" (left
              \* before the first event), "early" (left at the first event),
              \* "died", "store" (a write was refused)

vars == <<asked, pc, log, run, answered, tools, step, calls, pending, total,
          outcome, deleted, hurt>>

rows   == <<log, run, answered, tools>>
locals == <<step, calls, pending, total, outcome>>

-----------------------------------------------------------------------------
\* "kb": a stream of a knowledge base.  "app": a stream of an application, in
\* preview, by the public link or an API key.  "api": an answer in one piece.
Doors    == {"kb", "app", "api"}
Asked    == [door : Doors, agent : BOOLEAN, conv : Conversations]
Terminal == {"SUCCESS", "FAILURE", "LIMIT_REACHED", "CANCELLED"}
Execution == [step : Nat, sequence : Nat, tool : Tools \cup {"unknown"},
              status : {"RUNNING", "SUCCESS", "FAILURE", "REJECTED"}]
Hurts    == {"left", "unread", "early", "died", "store"}

Executing == {"start", "step", "content", "call", "tool_start", "tool_result",
              "tool_error"}
Suspended == {"meta", "failed", "tail", "done", "error"} \cup (Executing \ {"call"})
Phases    == {"idle", "ask", "create", "ready", "saved", "fail", "left", "ended"}
             \cup Executing \cup Suspended

Logged(r)   == asked[r].door # "kb"
Streamed(r) == asked[r].door # "api"
Exists(r)   == asked[r].conv \notin deleted

Init ==
  /\ asked \in [Requests -> Asked]
  /\ pc = [r \in Requests |-> "idle"]
  /\ log = [r \in Requests |-> "NONE"] /\ run = [r \in Requests |-> "NONE"]
  /\ answered = {} /\ tools = [r \in Requests |-> {}]
  /\ step = [r \in Requests |-> 0] /\ calls = [r \in Requests |-> 0]
  /\ pending = [r \in Requests |-> 0] /\ total = [r \in Requests |-> 0]
  /\ outcome = [r \in Requests |-> "FAILURE"]
  /\ deleted = {} /\ hurt = [r \in Requests |-> {}]

Goto(r, phase)   == pc' = [pc EXCEPT ![r] = phase]
SetLog(r, value) == log' = IF Logged(r) THEN [log EXCEPT ![r] = value] ELSE log
SetRun(r, value) == run' = [run EXCEPT ![r] = value]
Hurt(r, what)    == hurt' = [hurt EXCEPT ![r] = @ \cup {what}]
Raise(r, status) == Goto(r, "fail") /\ outcome' = [outcome EXCEPT ![r] = status]

-----------------------------------------------------------------------------
(* What is left to do when a view's generator is closed: the `finally` of  *)
(* an application's agent stream.                                          *)
Finally(r) == IF asked[r].agent /\ asked[r].door = "app" THEN "left" ELSE "ended"

(* start_access_log                                                        *)
StartLog(r) ==
  /\ pc[r] = "idle" /\ Exists(r)
  /\ Goto(r, "ask")
  /\ SetLog(r, "RUNNING")
  /\ UNCHANGED <<asked, run, answered, tools, locals, deleted, hurt>>

(* record_user_question or record_application_question                     *)
Ask(r) ==
  /\ pc[r] = "ask" /\ Exists(r)
  /\ Goto(r, "create")
  /\ UNCHANGED <<asked, rows, locals, deleted, hurt>>

(* create_agent_run; without agent mode the retrieval, which may fail: a   *)
(* stream has not begun then.                                              *)
Create(r) ==
  /\ pc[r] = "create"
  /\ \/ /\ asked[r].agent /\ Exists(r)
        /\ SetRun(r, "RUNNING") /\ Goto(r, "ready")
        /\ UNCHANGED log
     \/ /\ ~asked[r].agent
        /\ Goto(r, "ready")
        /\ UNCHANGED <<log, run>>
     \/ /\ ~asked[r].agent /\ Exists(r)
        /\ SetLog(r, "FAILURE") /\ Goto(r, "ended")
        /\ UNCHANGED run
  /\ UNCHANGED <<asked, answered, tools, locals, deleted, hurt>>

(* The first event of a stream, which the views yield themselves.          *)
Meta(r) ==
  /\ pc[r] = "ready" /\ Streamed(r)
  /\ Goto(r, "meta")
  /\ UNCHANGED <<asked, rows, locals, deleted, hurt>>

Begins(r) == pc[r] = IF Streamed(r) THEN "meta" ELSE "ready"

(* stream_answer: pieces of the answer, or an error of the model.          *)
Generate(r) ==
  /\ Begins(r) /\ ~asked[r].agent
  /\ \/ Goto(r, "content") /\ UNCHANGED outcome
     \/ Raise(r, "FAILURE")
  /\ UNCHANGED <<asked, rows, step, calls, pending, total, deleted, hurt>>

-----------------------------------------------------------------------------
(* stream_agent_run up to agent_start: the runtime, its single knowledge   *)
(* base and its model, or AgentExecutionError.                             *)
Start(r) ==
  /\ Begins(r) /\ asked[r].agent
  /\ \/ Goto(r, "start") /\ UNCHANGED outcome
     \/ Raise(r, "FAILURE")
  /\ UNCHANGED <<asked, rows, step, calls, pending, total, deleted, hurt>>

(* The next step once no call is left: its number is saved, then the time  *)
(* is looked at.                                                           *)
Step(r) ==
  /\ pc[r] = "start" \/ (pc[r] = "tool_result" /\ pending[r] = 0)
  /\ Exists(r)
  /\ step' = [step EXCEPT ![r] = @ + 1]
  /\ \/ Goto(r, "step") /\ UNCHANGED outcome
     \/ Raise(r, "FAILURE")                      \* AGENT_TIMEOUT
  /\ UNCHANGED <<asked, rows, calls, pending, total, deleted, hurt>>

\* Fault: the calls of earlier steps are not counted.
TurnUncounted(r) ==
  /\ pc[r] = "step"
  /\ \/ Goto(r, "content") /\ UNCHANGED <<pending, outcome>>
     \/ \E n \in 1 .. StepCalls :
          IF step[r] = MaxSteps
          THEN Raise(r, "LIMIT_REACHED") /\ UNCHANGED pending
          ELSE /\ pending' = [pending EXCEPT ![r] = n]
               /\ Goto(r, "call")
               /\ UNCHANGED outcome
  /\ UNCHANGED <<asked, rows, step, calls, total, deleted, hurt>>

(* A turn of the model: an error, an answer, or n tool calls, which the    *)
(* limits are compared with before any of them runs.                       *)
Turn(r) ==
  /\ pc[r] = "step"
  /\ \/ Goto(r, "content") /\ UNCHANGED <<pending, outcome>>
     \/ Raise(r, "FAILURE") /\ UNCHANGED pending
     \/ \E n \in 1 .. StepCalls + 1 :
          IF n > StepCalls \/ calls[r] + n > RunCalls
          THEN Raise(r, "FAILURE") /\ UNCHANGED pending
          ELSE IF step[r] = MaxSteps
          THEN Raise(r, "LIMIT_REACHED") /\ UNCHANGED pending
          ELSE /\ pending' = [pending EXCEPT ![r] = n]
               /\ Goto(r, "call")
               /\ UNCHANGED outcome
  /\ UNCHANGED <<asked, rows, step, calls, total, deleted, hurt>>

(* _prepare_tool: a row for the call, REJECTED at once when the tool is    *)
(* not registered, not enabled, or its arguments are not valid.            *)
Called(r, tool, status) ==
  [step |-> step[r], sequence |-> Cardinality({x \in tools[r] : x.step = step[r]}) + 1,
   tool |-> tool, status |-> status]

Prepare(r) ==
  /\ pc[r] = "call" \/ (pc[r] = "tool_result" /\ pending[r] > 0)
  /\ Exists(r)
  /\ pending' = [pending EXCEPT ![r] = @ - 1]
  /\ calls' = [calls EXCEPT ![r] = @ + 1]
  /\ \/ \E tool \in EnabledTools :
          /\ tools' = [tools EXCEPT ![r] = @ \cup {Called(r, tool, "RUNNING")}]
          /\ Goto(r, "tool_start")
     \/ \E tool \in Tools \cup {"unknown"} :
          /\ tools' = [tools EXCEPT ![r] = @ \cup {Called(r, tool, "REJECTED")}]
          /\ Goto(r, "tool_error")
  /\ UNCHANGED <<asked, log, run, answered, step, total, outcome, deleted, hurt>>

\* Fault: only a success closes the row.
ClosedOnSuccess(r, status) ==
  tools' = IF status # "SUCCESS" THEN tools ELSE [tools EXCEPT ![r] =
    {[x EXCEPT !.status = IF x.status = "RUNNING" THEN status ELSE x.status] : x \in tools[r]}]

(* _execute_tool: the row is closed with what came of it.  A result that   *)
(* takes the total over its limit fails the run.                           *)
Closed(r, status) ==
  tools' = [tools EXCEPT ![r] =
    {[x EXCEPT !.status = IF x.status = "RUNNING" THEN status ELSE x.status] : x \in tools[r]}]

Execute(r) ==
  /\ pc[r] = "tool_start" /\ Exists(r)
  /\ \/ \E size \in 0 .. MaxResult :
          /\ Closed(r, "SUCCESS")
          /\ total' = [total EXCEPT ![r] = @ + size]
          /\ IF total[r] + size > MaxTotal
             THEN Raise(r, "FAILURE")
             ELSE Goto(r, "tool_result") /\ UNCHANGED outcome
     \/ \E status \in {"FAILURE", "REJECTED"} :
          /\ Closed(r, status)
          /\ Goto(r, "tool_error")
          /\ UNCHANGED <<total, outcome>>
  /\ UNCHANGED <<asked, log, run, answered, step, calls, pending, deleted, hurt>>

(* After the tool_error event the error of the tool ends the run.          *)
ToolError(r) ==
  /\ pc[r] = "tool_error"
  /\ Raise(r, "FAILURE")
  /\ UNCHANGED <<asked, rows, step, calls, pending, total, deleted, hurt>>

-----------------------------------------------------------------------------
(* The pieces are out: save_assistant_message, and for an agent            *)
(* finish_agent_run in a second write.                                     *)
SaveAnswer(r) ==
  /\ pc[r] = "content" /\ Exists(r)
  /\ answered' = answered \cup {r}
  /\ Goto(r, IF asked[r].agent THEN "saved" ELSE "tail")
  /\ UNCHANGED <<asked, log, run, tools, locals, deleted, hurt>>

Succeed(r) ==
  /\ pc[r] = "saved" /\ Exists(r)
  /\ SetRun(r, "SUCCESS")
  /\ Goto(r, "tail")
  /\ UNCHANGED <<asked, log, answered, tools, locals, deleted, hurt>>

(* The last event.  An application's agent stream closes the log before it *)
(* goes out; a plain stream after it, and nobody is there to leave then.   *)
Done(r) ==
  /\ pc[r] = "tail" /\ (Logged(r) => Exists(r))
  /\ SetLog(r, "SUCCESS")
  /\ Goto(r, IF asked[r].agent THEN "done" ELSE "ended")
  /\ UNCHANGED <<asked, run, answered, tools, locals, deleted, hurt>>

(* The exception handlers: an agent's run is finished with the status of   *)
(* its error, a plain stream's log with FAILURE.                           *)
Fail(r) ==
  /\ pc[r] = "fail" /\ (asked[r].agent \/ Logged(r) => Exists(r))
  /\ IF asked[r].agent
     THEN SetRun(r, outcome[r]) /\ Goto(r, "failed") /\ UNCHANGED log
     ELSE SetLog(r, "FAILURE") /\ Goto(r, "error") /\ UNCHANGED run
  /\ UNCHANGED <<asked, answered, tools, locals, deleted, hurt>>

\* Fault: the log is finished with the default status.
ErrorEventDefault(r) ==
  /\ pc[r] = "failed" /\ (Logged(r) => Exists(r))
  /\ SetLog(r, "SUCCESS")
  /\ Goto(r, "error")
  /\ UNCHANGED <<asked, run, answered, tools, locals, deleted, hurt>>

(* The error event of an agent, which closes the log of an application.    *)
ErrorEvent(r) ==
  /\ pc[r] = "failed" /\ (Logged(r) => Exists(r))
  /\ SetLog(r, "FAILURE")
  /\ Goto(r, "error")
  /\ UNCHANGED <<asked, run, answered, tools, locals, deleted, hurt>>

Over(r) ==
  /\ pc[r] \in {"done", "error"}
  /\ Goto(r, "ended")
  /\ UNCHANGED <<asked, rows, locals, deleted, hurt>>

\* Fault: stream_agent_run does not handle GeneratorExit.
LeaveUnnoticed(r) ==
  /\ pc[r] \in Suspended /\ Streamed(r)
  /\ Hurt(r, IF pc[r] = "meta" THEN "early" ELSE "left")
  /\ Goto(r, IF pc[r] \in {"done", "error"} THEN "ended" ELSE Finally(r))
  /\ UNCHANGED <<asked, rows, locals, deleted>>

-----------------------------------------------------------------------------
(* The client leaves: GeneratorExit at the event the generator stands at.  *)
(* It reaches stream_agent_run unless that has not begun; `except          *)
(* Exception` of a plain stream does not see it.                           *)
Leave(r) ==
  /\ pc[r] \in Suspended \cup {"ready"} /\ Streamed(r)
  /\ Hurt(r, IF pc[r] = "ready" THEN "unread"
             ELSE IF pc[r] = "meta" THEN "early" ELSE "left")
  /\ run' = IF asked[r].agent /\ pc[r] \in Executing /\ Exists(r)
            THEN [run EXCEPT ![r] = "CANCELLED"] ELSE run
  /\ Goto(r, IF pc[r] \in {"ready", "done", "error"} THEN "ended" ELSE Finally(r))
  /\ UNCHANGED <<asked, log, answered, tools, locals, deleted>>

CloseLog(r) ==
  /\ pc[r] = "left" /\ Exists(r)
  /\ SetLog(r, "FAILURE")
  /\ Goto(r, "ended")
  /\ UNCHANGED <<asked, run, answered, tools, locals, deleted, hurt>>

(* The database refuses a write.  Inside stream_agent_run and the plain    *)
(* streams `except Exception` handles it; in a handler it goes on outward. *)
StoreFails(r) ==
  /\ "store" \notin hurt[r] /\ Hurt(r, "store")
  /\ \/ /\ \/ pc[r] \in {"start", "call", "tool_start", "tool_result", "content", "saved"}
           \/ pc[r] = "tail" /\ Logged(r) /\ ~asked[r].agent
        /\ Raise(r, "FAILURE")
     \/ /\ \/ pc[r] = "fail" /\ asked[r].agent
           \/ pc[r] \in {"failed", "tail"} /\ Logged(r) /\ asked[r].agent
        /\ Goto(r, Finally(r)) /\ UNCHANGED outcome
     \/ /\ \/ pc[r] \in {"ask", "create"}
           \/ pc[r] = "fail" /\ Logged(r) /\ ~asked[r].agent
           \/ pc[r] = "left"
        /\ Goto(r, "ended") /\ UNCHANGED outcome
  /\ UNCHANGED <<asked, rows, step, calls, pending, total, deleted>>

(* The worker process is killed.                                           *)
Die(r) ==
  /\ pc[r] \notin {"idle", "ended"}
  /\ Hurt(r, "died")
  /\ Goto(r, "ended")
  /\ UNCHANGED <<asked, rows, locals, deleted>>

(* ConversationDetailView.delete, or the deletion of the application: the  *)
(* messages, runs, tool executions and an application's logs go too.       *)
Delete(c) ==
  LET Of(r) == asked[r].conv = c IN
  /\ c \notin deleted
  /\ deleted' = deleted \cup {c}
  /\ log' = [r \in Requests |-> IF Of(r) THEN "NONE" ELSE log[r]]
  /\ run' = [r \in Requests |-> IF Of(r) THEN "NONE" ELSE run[r]]
  /\ tools' = [r \in Requests |-> IF Of(r) THEN {} ELSE tools[r]]
  /\ answered' = {r \in answered : ~Of(r)}
  /\ UNCHANGED <<asked, pc, locals, hurt>>

(* A request whose rows are gone: its next write and those of the handlers *)
(* are all refused.                                                        *)
Vanished(r) ==
  /\ ~Exists(r) /\ pc[r] \notin {"idle", "ended"}
  /\ Goto(r, "ended")
  /\ UNCHANGED <<asked, rows, locals, deleted, hurt>>

-----------------------------------------------------------------------------
(* The server resumes a generator as long as its client is there, and      *)
(* calls of models and tools have time limits.                             *)
Server(r) ==
  \/ StartLog(r) \/ Ask(r) \/ Create(r) \/ Meta(r) \/ Generate(r)
  \/ Start(r) \/ Step(r) \/ Turn(r) \/ Prepare(r) \/ Execute(r) \/ ToolError(r)
  \/ SaveAnswer(r) \/ Succeed(r) \/ Done(r) \/ Fail(r) \/ ErrorEvent(r) \/ Over(r)
  \/ CloseLog(r) \/ Vanished(r)

Next ==
  \/ \E r \in Requests : Server(r) \/ Leave(r) \/ StoreFails(r) \/ Die(r)
  \/ \E c \in Conversations : Delete(c)

Spec == Init /\ [][Next]_vars
FairSpec == Spec /\ \A r \in Requests : WF_vars(Server(r))

-----------------------------------------------------------------------------
TypeOK ==
  /\ asked \in [Requests -> Asked]
  /\ pc \in [Requests -> Phases]
  /\ log \in [Requests -> {"NONE", "RUNNING", "SUCCESS", "FAILURE"}]
  /\ run \in [Requests -> {"NONE", "RUNNING"} \cup Terminal]
  /\ answered \subseteq Requests
  /\ tools \in [Requests -> SUBSET Execution]
  /\ step \in [Requests -> Nat] /\ calls \in [Requests -> Nat]
  /\ pending \in [Requests -> Nat] /\ total \in [Requests -> Nat]
  /\ outcome \in [Requests -> {"FAILURE", "LIMIT_REACHED"}]
  /\ deleted \subseteq Conversations
  /\ hurt \in [Requests -> SUBSET Hurts]

(* What the rows say of the answer is true: a run or a log that succeeded  *)
(* has its assistant message and its run; one that did not has none,       *)
(* unless a write was refused after the answer was saved.                  *)
RowsTellTheAnswer ==
  \A r \in Requests :
    /\ run[r] = "SUCCESS" => r \in answered
    /\ log[r] = "SUCCESS" => r \in answered /\ (asked[r].agent => run[r] = "SUCCESS")
    /\ r \in answered /\ "store" \notin hurt[r] =>
         run[r] \notin {"FAILURE", "LIMIT_REACHED", "CANCELLED"}

(* The log of an answer that was given calls it a failure only when the    *)
(* client left before the last event or a write was refused.               *)
FailedLogsAreExplained ==
  \A r \in Requests :
    r \in answered /\ log[r] = "FAILURE" => hurt[r] \cap {"left", "store"} # {}

(* A run that ends by itself leaves none of its tool executions RUNNING,   *)
(* unless a write was refused; a cancelled run leaves one at most.         *)
ToolsAreClosed ==
  \A r \in Requests :
    LET open == {x \in tools[r] : x.status = "RUNNING"} IN
    /\ \A x, y \in open : x = y
    /\ run[r] \in Terminal \ {"CANCELLED"} /\ "store" \notin hurt[r] => open = {}

LimitsOf(r) ==
  /\ step[r] <= MaxSteps
  /\ Cardinality(tools[r]) <= RunCalls
  /\ \A s \in 1 .. step[r] : Cardinality({x \in tools[r] : x.step = s}) <= StepCalls
  /\ \A x \in tools[r] : x.step < MaxSteps
  /\ run[r] = "SUCCESS" => total[r] <= MaxTotal

(* No run takes more steps, makes more calls in one step or in all, or     *)
(* succeeds on more tool output than its limits; the last step calls none. *)
WithinLimits == \A r \in Requests : LimitsOf(r)

(* Nothing is ever written for a conversation that was deleted.            *)
DeletedLeavesNothing ==
  \A r \in Requests : ~Exists(r) =>
    log[r] = "NONE" /\ run[r] = "NONE" /\ tools[r] = {} /\ r \notin answered

(* Where the request stands and what its rows say.                         *)
RunFollows ==
  \A r \in Requests : Exists(r) =>
    /\ pc[r] \in {"saved", "failed"} \cup (Executing \ {"content"}) => asked[r].agent
    /\ ~asked[r].agent \/ pc[r] \in {"idle", "ask", "create"} => run[r] = "NONE"
    /\ asked[r].agent =>
         /\ pc[r] \in {"ready", "meta", "saved", "fail"} \cup Executing => run[r] = "RUNNING"
         /\ pc[r] \in {"tail", "done"} => run[r] = "SUCCESS"
    /\ pc[r] \in {"saved", "tail", "done"} => r \in answered
    /\ pc[r] \in {"idle", "ask", "create", "ready", "meta"} \cup Executing => r \notin answered
    /\ pc[r] \in {"fail", "failed", "error"} =>
         run[r] # "SUCCESS" /\ (r \in answered => "store" \in hurt[r])

LogFollows ==
  \A r \in Requests : Exists(r) =>
    /\ pc[r] = "idle" \/ ~Logged(r) => log[r] = "NONE"
    /\ pc[r] \notin {"idle", "done", "error", "ended"} /\ Logged(r) => log[r] = "RUNNING"
    /\ pc[r] = "left" /\ r \in answered => hurt[r] \cap {"left", "store"} # {}

ToolsOf(r) ==
  /\ IsFiniteSet(tools[r])
  /\ \A x \in tools[r] : x.step <= step[r]
  /\ pc[r] \in {"call", "tool_start", "tool_error", "tool_result"} => step[r] < MaxSteps
  /\ pc[r] = "call" => pending[r] > 0
  /\ pc[r] \in {"idle", "ask", "create", "ready", "meta", "start"} =>
       step[r] = 0 /\ pending[r] = 0 /\ tools[r] = {}
  /\ pc[r] = "step" => pending[r] = 0 /\ \A x \in tools[r] : x.step < step[r]
  /\ Cardinality(tools[r]) <= calls[r]
  /\ pending[r] + calls[r] <= RunCalls
  /\ pending[r] + Cardinality({x \in tools[r] : x.step = step[r]}) <= StepCalls
  /\ pc[r] \notin {"tool_start", "ended", "left", "fail", "failed", "error"} =>
       \A x \in tools[r] : x.status # "RUNNING"
  /\ pc[r] \in {"fail", "failed", "error"} /\ "store" \notin hurt[r] =>
       \A x \in tools[r] : x.status # "RUNNING"
  /\ pc[r] \notin {"fail", "failed", "error", "left", "ended", "tool_error"} =>
       total[r] <= MaxTotal

ToolsFollow == \A r \in Requests : ToolsOf(r)

IInv ==
  /\ TypeOK
  /\ RunFollows
  /\ LogFollows
  /\ ToolsFollow
  /\ RowsTellTheAnswer
  /\ FailedLogsAreExplained
  /\ ToolsAreClosed
  /\ WithinLimits
  /\ DeletedLeavesNothing

(* The outcome of a run, and of a log, is written once.                    *)
OutcomeIsFinal ==
  [][\A r \in Requests : asked[r].conv \notin deleted' =>
       /\ run[r] \in Terminal => run'[r] = run[r]
       /\ log[r] \in {"SUCCESS", "FAILURE"} => log'[r] = log[r]]_vars

(* No agent run stays RUNNING, unless its client left before it began, its *)
(* worker died or a write was refused.                                     *)
RunsEnd ==
  \A r \in Requests :
    run[r] = "RUNNING" ~>
      run[r] # "RUNNING" \/ hurt[r] \cap {"unread", "early", "died", "store"} # {}

(* No access log stays RUNNING, unless the client of a plain stream left,  *)
(* no event was ever asked for, the worker died or a write was refused.    *)
LogsEnd ==
  \A r \in Requests :
    log[r] = "RUNNING" ~>
      \/ log[r] # "RUNNING"
      \/ hurt[r] \cap {"unread", "died", "store"} # {}
      \/ ~asked[r].agent /\ hurt[r] # {}

(* Both kinds of rows end.                                                 *)
RowsEnd == RunsEnd /\ LogsEnd
=============================================================================
