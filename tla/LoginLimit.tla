----------------------------- MODULE LoginLimit -----------------------------
(***************************************************************************)
(* The counter of an account's failed logins (account_security.py): read   *)
(* before the password is checked, counted up in the cache when it was     *)
(* wrong, deleted when it was right, forgotten at the end of its window.   *)
(* The counter of the address is one more like it.                         *)
(***************************************************************************)
EXTENDS Naturals, FiniteSets

CONSTANTS
  Requests,
  Attempts      \* LOGIN_RATE_LIMIT_ATTEMPTS

(* What the theorems assume of these.                                       *)
ConstantsAssumption == IsFiniteSet(Requests) /\ Attempts \in Nat \ {0}

VARIABLES
  failures,     \* the counter; 0 when there is none
  phase,
  guesses       \* auxiliary: wrong passwords since the counter was last
                \* forgotten, but for those of requests that died uncounted

vars == <<failures, phase, guesses>>

Init ==
  /\ failures = 0 /\ guesses = 0
  /\ phase = [r \in Requests |-> "idle"]

Goto(r, p) == phase' = [phase EXCEPT ![r] = p]

(* login_is_limited.                                                       *)
Try(r) ==
  /\ phase[r] = "idle" /\ failures < Attempts
  /\ Goto(r, "authenticate")
  /\ UNCHANGED <<failures, guesses>>

Authenticate(r) ==
  /\ phase[r] = "authenticate"
  /\ \/ Goto(r, "clear") /\ UNCHANGED guesses
     \/ Goto(r, "add") /\ guesses' = guesses + 1
  /\ UNCHANGED failures

Clear(r) ==
  /\ phase[r] = "clear"
  /\ failures' = 0 /\ guesses' = 0
  /\ Goto(r, "idle")

(* record_login_failure: cache.add, and cache.incr when the key was there. *)
Add(r) ==
  /\ phase[r] = "add"
  /\ failures' = IF failures = 0 THEN 1 ELSE failures
  /\ Goto(r, IF failures = 0 THEN "idle" ELSE "incr")
  /\ UNCHANGED guesses

\* Fault: the counter is set, not counted up.
SetOnce(r) ==
  /\ phase[r] = "incr"
  /\ failures' = 1
  /\ Goto(r, "idle")
  /\ UNCHANGED guesses

(* incr raises for a key that is gone by now: set to 1.                    *)
Increment(r) ==
  /\ phase[r] = "incr"
  /\ failures' = failures + 1
  /\ Goto(r, "idle")
  /\ UNCHANGED guesses

WindowEnds ==
  /\ failures > 0
  /\ failures' = 0 /\ guesses' = 0
  /\ UNCHANGED phase

Die(r) ==
  /\ phase[r] # "idle"
  /\ guesses' = IF phase[r] \in {"add", "incr"} /\ guesses > 0 THEN guesses - 1 ELSE guesses
  /\ Goto(r, "idle")
  /\ UNCHANGED failures

Next ==
  \/ WindowEnds
  \/ \E r \in Requests :
       Try(r) \/ Authenticate(r) \/ Clear(r) \/ Add(r) \/ Increment(r) \/ Die(r)

Spec == Init /\ [][Next]_vars

(* However logins are interleaved, an account's password is guessed no     *)
(* more often than the limit and the requests that pass it together allow. *)
GuessesAreBounded == guesses < Attempts + Cardinality(Requests)

(* The inductive invariant.  A guess is counted, or its request is about to *)
(* count it; and a request passes only while there is room for one more    *)
(* failure, so that those under way are what the limit can be exceeded by. *)
Uncounted == {r \in Requests : phase[r] \in {"add", "incr"}}
UnderWay  == {r \in Requests : phase[r] \in {"authenticate", "add", "incr"}}

TypeOK ==
  /\ failures \in Nat /\ guesses \in Nat
  /\ phase \in [Requests -> {"idle", "authenticate", "clear", "add", "incr"}]

GuessesAreCounted == guesses <= failures + Cardinality(Uncounted)
RoomIsLeft        == failures + Cardinality(UnderWay) < Attempts + Cardinality(Requests)

IInv == TypeOK /\ GuessesAreCounted /\ RoomIsLeft
=============================================================================
