---------------------------- MODULE AccessLimits ----------------------------
(***************************************************************************)
(* An application's requests are counted per client, then per application, *)
(* in windows of time (application_rate_limit.py).  A counter is counted   *)
(* up atomically, but its key is that of the clock some time before.       *)
(*                                                                         *)
(* Time is the number of the window.  With the memory backend, counters    *)
(* are those of one process, and all are dropped when there are too many.  *)
(***************************************************************************)
EXTENDS Naturals, FiniteSets

CONSTANTS
  Requests, Clients, NoClient,
  ClientLimit, ApplicationLimit,   \* 20 or 60, and 300
  MaxCounters,                     \* 5000
  MaxWindow                        \* bound on the clock

(* What the theorems assume of these.                                       *)
ConstantsAssumption ==
  /\ IsFiniteSet(Requests) /\ "application" \notin Clients
  /\ ClientLimit \in Nat /\ ApplicationLimit \in Nat /\ MaxWindow \in Nat

VARIABLES
  now, backend,
  count,      \* <<client or "application", window>> -> the counter
  phase,      \* where a request stands
  client, window,
  admitted,   \* auxiliary: requests let through in the window they read
  passed,     \* auxiliary: the requests within their client's limit
  dropped     \* auxiliary: the windows in which counters were dropped

vars == <<now, backend, count, phase, client, window, admitted, passed, dropped>>

Windows  == 0..MaxWindow
Counters == (Clients \cup {"application"}) \X Windows
Limit(k) == IF k = "application" THEN ApplicationLimit ELSE ClientLimit

Init ==
  /\ now = 0 /\ backend \in {"redis", "memory"}
  /\ count = [c \in Counters |-> 0]
  /\ phase = [r \in Requests |-> "new"]
  /\ client = [r \in Requests |-> NoClient] /\ window = [r \in Requests |-> 0]
  /\ admitted = [c \in Counters |-> 0]
  /\ passed = {} /\ dropped = {}

Goto(r, p) == phase' = [phase EXCEPT ![r] = p]

-----------------------------------------------------------------------------
Tick ==
  /\ now < MaxWindow
  /\ now' = now + 1
  /\ UNCHANGED <<backend, count, phase, client, window, admitted, passed, dropped>>

\* Fault: a counter expires before its window has passed.
ExpireEarly ==
  /\ backend = "redis"
  /\ \E c \in Counters : count[c] > 0 /\ c[2] <= now /\ count' = [count EXCEPT ![c] = 0]
  /\ UNCHANGED <<now, backend, phase, client, window, admitted, passed, dropped>>

(* A key of redis lives a second longer than a window after its last INCR. *)
Expire ==
  /\ backend = "redis"
  /\ \E c \in Counters : count[c] > 0 /\ c[2] < now /\ count' = [count EXCEPT ![c] = 0]
  /\ UNCHANGED <<now, backend, phase, client, window, admitted, passed, dropped>>

(* enforce_rate_limit makes its key of the clock, of the client first.     *)
ReadClock(r) ==
  /\ \/ phase[r] = "new" /\ Goto(r, "client") /\ \E c \in Clients : client' = [client EXCEPT ![r] = c]
     \/ phase[r] = "passed" /\ Goto(r, "application") /\ UNCHANGED client
  /\ window' = [window EXCEPT ![r] = now]
  /\ UNCHANGED <<now, backend, count, admitted, passed, dropped>>

(* INCR and EXPIRE in one transaction, or _memory_increment under its lock. *)
Enforce(r, k, next) ==
  LET c       == <<k, window[r]>>
      counted == [count EXCEPT ![c] = @ + 1]
      full    == /\ backend = "memory"
                 /\ Cardinality({x \in Counters : counted[x] > 0}) > MaxCounters
      allowed == counted[c] <= Limit(k)
  IN /\ count' = IF full THEN [x \in Counters |-> 0] ELSE counted
     /\ dropped' = IF full THEN dropped \cup {now} ELSE dropped
     /\ admitted' = IF allowed /\ window[r] = now
                    THEN [admitted EXCEPT ![c] = @ + 1] ELSE admitted
     /\ passed' = IF allowed /\ next = "passed" THEN passed \cup {r} ELSE passed
     /\ Goto(r, IF allowed THEN next ELSE "rejected")
     /\ UNCHANGED <<now, backend, client, window>>

CountClient(r) == phase[r] = "client" /\ Enforce(r, client[r], "passed")

CountApplication(r) == phase[r] = "application" /\ Enforce(r, "application", "admitted")

(* redis cannot be reached, or its answer is lost: the request is refused. *)
Unavailable(r) ==
  /\ backend = "redis" /\ phase[r] \in {"client", "application"}
  /\ LET c == <<IF phase[r] = "client" THEN client[r] ELSE "application", window[r]>>
     IN count' \in {count, [count EXCEPT ![c] = @ + 1]}
  /\ Goto(r, "unavailable")
  /\ UNCHANGED <<now, backend, client, window, admitted, passed, dropped>>

Next ==
  \/ Tick \/ Expire
  \/ \E r \in Requests : ReadClock(r) \/ CountClient(r) \/ CountApplication(r) \/ Unavailable(r)

Spec == Init /\ [][Next]_vars

-----------------------------------------------------------------------------
(* Of the requests that are counted within the window they read, none of   *)
(* which the counters were dropped, no more than the limit get through,    *)
(* however they overtake each other and however counters expire.           *)
WithinLimit ==
  \A c \in Counters : c[2] \notin dropped => admitted[c] <= Limit(c[1])

(* A client that is over its limit does not use up what the application    *)
(* allows all of its clients: in every window it is charged only requests  *)
(* that were within their client's.                                        *)
Charged(w) ==
  {r \in passed : window[r] = w /\ phase[r] \in {"admitted", "rejected", "unavailable"}}

RejectedCostNothing ==
  \A w \in Windows : count[<<"application", w>>] <= Cardinality(Charged(w))

(* Nobody gets more than the limits allow, nor less for others' excess.    *)
LimitsHold == WithinLimit /\ RejectedCostNothing

(* The inductive invariant.  Of the running window a counter knows all that *)
(* were let through, and nobody has read a window that is yet to come.     *)
TypeOK ==
  /\ now \in Windows /\ backend \in {"redis", "memory"}
  /\ count \in [Counters -> Nat] /\ admitted \in [Counters -> Nat]
  /\ phase \in [Requests -> {"new", "client", "passed", "application",
                            "admitted", "rejected", "unavailable"}]
  /\ client \in [Requests -> Clients \cup {NoClient}]
  /\ \A r \in Requests : phase[r] = "client" => client[r] \in Clients
  /\ window \in [Requests -> 0..now]
  /\ passed \subseteq Requests /\ dropped \subseteq Windows

RunningIsCounted ==
  \A c \in Counters :
    /\ c[2] = now /\ c[2] \notin dropped => admitted[c] <= count[c]
    /\ c[2] > now => admitted[c] = 0

ApplicationComesSecond ==
  \A r \in Requests : phase[r] \in {"passed", "application"} => r \in passed

IInv == TypeOK /\ RunningIsCounted /\ ApplicationComesSecond /\ LimitsHold
=============================================================================
