------------------------------ MODULE Services ------------------------------
(***************************************************************************)
(* The parts of the system that do not touch each other's state, side by   *)
(* side: the first state chooses one of them, which then runs, and the     *)
(* others stay as they are.  Each is a module of its own; here are their   *)
(* parameters, with what is assumed of them, and their properties.         *)
(***************************************************************************)
EXTENDS DocumentTaskLock

CONSTANTS
  Devices, Keys, NoKey, MaxPasswords,                              \* Accounts
  Logins, Attempts,                                                \* LoginLimit
  Visits, Clients, NoClient, ClientLimit, ApplicationLimit,        \* AccessLimits
  MaxCounters, MaxWindow,
  Questions, NoRequest,                                            \* Reranker
  Passages, MaxPassages, Configurations, MaxTopK, MaxReferences,   \* Retrieval
  Frame, Margin, Full, Scale,
  Documents, Options,                                              \* Chunking
  Cases, Near, MaxReports, MaxEdits,                               \* EvaluationData
  Blocks, MaxEvidence, MaxRanked, HitK, RecallK, Discount,         \* EvaluationScores
  Configs, NoConfig, Models, LocalModel, NoModel,                  \* EmbeddingConfigs
  Files, Editors, Batches, MaxRevision, MaxVersion

(* One set of variables serves all of the parts.                           *)
VARIABLES part, v1, v2, v3, v4, v5, v6, v7, v8, v9, v10

-----------------------------------------------------------------------------
A == INSTANCE Accounts WITH
       Requests <- Devices,
       password <- v1, session <- v2, row <- v3, pc <- v4, op <- v5,
       key <- v6, known <- v7, seen <- v8, targets <- v9, crossed <- v10
G == INSTANCE LoginLimit WITH
       Requests <- Logins,
       failures <- v1, phase <- v2, guesses <- v3
L == INSTANCE AccessLimits WITH
       Requests <- Visits,
       now <- v1, backend <- v2, count <- v3, phase <- v4, client <- v5,
       window <- v6, admitted <- v7, passed <- v8, dropped <- v9
K == INSTANCE Reranker WITH
       Requests <- Questions,
       caller <- v1, slot <- v2, queue <- v3, running <- v4, late <- v5
R == INSTANCE Retrieval WITH
       stage <- v1, corpus <- v2, found <- v3, settings <- v4,
       eligible <- v5, context <- v6, other <- v7
C == INSTANCE Chunking WITH
       stage <- v1, lines <- v2, index <- v3, path <- v4, blocks <- v5,
       options <- v6, parents <- v7, children <- v8
D == INSTANCE EvaluationData WITH
       file <- v1, review <- v2, command <- v3, cases <- v4, source <- v5,
       reports <- v6, compared <- v7, edits <- v8, crossed <- v9
S == INSTANCE EvaluationScores WITH
       evidence <- v1, ranked <- v2, score <- v3
E == INSTANCE EmbeddingConfigs WITH
       Documents <- Files,
       config <- v1, selected <- v2, document <- v3, spaces <- v4, run <- v5,
       edit <- v6, question <- v7, overlapped <- v8

(* What the theorems assume of them.                                       *)
ASSUME PartsAssumption ==
  /\ A!ConstantsAssumption /\ G!ConstantsAssumption /\ L!ConstantsAssumption
  /\ K!ConstantsAssumption /\ R!ConstantsAssumption /\ S!ConstantsAssumption
  /\ C!ConstantsAssumption /\ E!ConstantsAssumption

(* Variables that a part has no use for are 0 and stay so.                 *)
Unused(k) ==
  /\ (k <= 1 => v1 = 0) /\ (k <= 2 => v2 = 0) /\ (k <= 3 => v3 = 0) /\ (k <= 4 => v4 = 0)
  /\ (k <= 5 => v5 = 0) /\ (k <= 6 => v6 = 0) /\ (k <= 7 => v7 = 0) /\ (k <= 8 => v8 = 0)
  /\ (k <= 9 => v9 = 0) /\ (k <= 10 => v10 = 0)

Unmoved(k) ==
  /\ (k <= 1 => v1' = 0) /\ (k <= 2 => v2' = 0) /\ (k <= 3 => v3' = 0) /\ (k <= 4 => v4' = 0)
  /\ (k <= 5 => v5' = 0) /\ (k <= 6 => v6' = 0) /\ (k <= 7 => v7' = 0) /\ (k <= 8 => v8' = 0)
  /\ (k <= 9 => v9' = 0) /\ (k <= 10 => v10' = 0)

ServicesInit ==
  /\ Init
  /\ \/ part = "lock" /\ Unused(1)
     \/ part = "accounts" /\ A!Init
     \/ part = "logins" /\ G!Init /\ Unused(4)
     \/ part = "limits" /\ L!Init /\ Unused(10)
     \/ part = "reranker" /\ K!Init /\ Unused(6)
     \/ part = "retrieval" /\ R!Init /\ Unused(8)
     \/ part = "chunking" /\ C!Init /\ Unused(9)
     \/ part = "data" /\ D!Init /\ Unused(10)
     \/ part = "scores" /\ S!Init /\ Unused(4)
     \/ part = "models" /\ E!Init /\ Unused(9)

ServicesNext ==
  /\ UNCHANGED part
  /\ \/ part = "lock" /\ Next /\ Unmoved(1)
     \/ /\ UNCHANGED vars
        /\ \/ part = "accounts" /\ A!Next
           \/ part = "logins" /\ G!Next /\ Unmoved(4)
           \/ part = "limits" /\ L!Next /\ Unmoved(10)
           \/ part = "reranker" /\ K!Next /\ Unmoved(6)
           \/ part = "retrieval" /\ R!Next /\ Unmoved(8)
           \/ part = "chunking" /\ C!Next /\ Unmoved(9)
           \/ part = "data" /\ D!Next /\ Unmoved(10)
           \/ part = "scores" /\ S!Next /\ Unmoved(4)
           \/ part = "models" /\ E!Next /\ Unmoved(9)

services == <<part, vars, v1, v2, v3, v4, v5, v6, v7, v8, v9, v10>>

ServicesSpec == ServicesInit /\ [][ServicesNext]_services

-----------------------------------------------------------------------------
(* The properties of the parts, each stated in its module.                 *)
OthersAreOut            == part = "accounts" => A!OthersAreOut
UsableIsListed          == part = "accounts" => A!UsableIsListed
GuessesAreBounded       == part = "logins" => G!GuessesAreBounded
LimitsHold              == part = "limits" => L!LimitsHold
SlotIsTheJob            == part = "reranker" => K!SlotIsTheJob
ContextFits             == part = "retrieval" => R!ContextFits
OrderIsKept             == part = "retrieval" => R!OrderIsKept
ChunksAreSound          == part = "chunking" => C!ChunksAreSound
FrozenTestIsBlind       == part = "data" => D!FrozenTestIsBlind
LikeIsComparedWithLike  == part = "data" => D!LikeIsComparedWithLike
MetricsAgree            == part = "scores" => S!MetricsAgree
SameModel               == part = "models" => E!SameModel
StaleIsReported         == part = "models" => E!StaleIsReported
=============================================================================
