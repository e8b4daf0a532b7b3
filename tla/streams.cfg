SPECIFICATION FairSpec
CONSTANTS
  q1 = q1 q2 = q2 c1 = c1 t1 = t1 t2 = t2
  Requests <- OneRequest
  Conversations <- OneConversation
  Tools <- TwoTools
  EnabledTools <- OneTool
  MaxSteps = 4
  StepCalls = 3
  RunCalls = 5
  MaxResult = 1
  MaxTotal = 2
CHECK_DEADLOCK FALSE
INVARIANTS RowsTellTheAnswer ToolsAreClosed WithinLimits
PROPERTIES RowsEnd
