------------------------------ MODULE Accounts ------------------------------
(***************************************************************************)
(* The account of one user: the password, the Django sessions that its     *)
(* devices hold and the AccountSession rows that list them.  Views read    *)
(* and write the two tables in several statements without a transaction,   *)
(* and a session reaches its table only with the response, so logins cross *)
(* revocations and password changes.                                       *)
(*                                                                         *)
(* The counter of failed logins is in LoginLimit.  E-mail addresses and    *)
(* their verification are left out.                                        *)
(***************************************************************************)
EXTENDS Naturals

CONSTANTS
  Requests,
  Keys,           \* session keys: each is given out once
  NoKey,
  MaxPasswords    \* bound on the changes of the password

(* What the theorems assume of these.                                       *)
ConstantsAssumption == NoKey \notin Keys

VARIABLES
  password,   \* the user's password: the number of its changes
  session,    \* the session store; a session holds the password it was opened with
  row,        \* the AccountSession rows
  pc, op,     \* where a request stands, and in which view
  key,        \* the session it belongs to
  known,      \* the password of the user it has loaded
  seen,       \* the sessions it has read
  targets,    \* auxiliary: the sessions that were usable when it began
  crossed     \* auxiliary: sessions whose row was revoked while they lived on

vars   == <<password, session, row, pc, op, key, known, seen, targets, crossed>>
memory == <<op, key, known, seen, targets>>

Views == {"none", "login", "me", "list", "revoke", "others", "logout",
          "change", "reset"}

Init ==
  /\ password = 0
  /\ session = [k \in Keys |-> [state |-> "NEW", password |-> 0]]
  /\ row = [k \in Keys |-> "NONE"]
  /\ pc = [r \in Requests |-> "idle"] /\ op = [r \in Requests |-> "none"]
  /\ key = [r \in Requests |-> NoKey] /\ known = [r \in Requests |-> 0]
  /\ seen = [r \in Requests |-> {}] /\ targets = [r \in Requests |-> {}]
  /\ crossed = {}

In(state) == {k \in Keys : session[k].state = state}

(* A session authenticates as long as it was opened with the password of   *)
(* today: AuthenticationMiddleware compares the session's hash.            *)
Usable == {k \in In("USER") : session[k].password = password}

Goto(r, phase) == pc' = [pc EXCEPT ![r] = phase]

End(r) ==
  /\ Goto(r, "idle")
  /\ op' = [op EXCEPT ![r] = "none"]
  /\ key' = [key EXCEPT ![r] = NoKey]
  /\ known' = [known EXCEPT ![r] = 0]
  /\ seen' = [seen EXCEPT ![r] = {}]
  /\ targets' = [targets EXCEPT ![r] = {}]

Drop(ks) ==
  session' = [k \in Keys |-> IF k \in ks THEN [session[k] EXCEPT !.state = "GONE"]
                             ELSE session[k]]

-----------------------------------------------------------------------------
Begin(r, view, k, phase) ==
  /\ pc[r] = "idle"
  /\ Goto(r, phase)
  /\ op' = [op EXCEPT ![r] = view]
  /\ key' = [key EXCEPT ![r] = k]
  /\ known' = [known EXCEPT ![r] = password]
  /\ targets' = [targets EXCEPT ![r] = Usable \ {k}]
  /\ UNCHANGED <<password, session, row, seen, crossed>>

(* A request that carries a usable session, to any of the views.           *)
Enter(r) ==
  \E k \in Usable, view \in Views \ {"none", "login", "reset"} :
    Begin(r, view, k, IF view \in {"me", "list"} THEN "register"
                      ELSE IF view = "others" THEN "snapshot" ELSE view)

(* AuthLoginView: the password is right when it is checked.               *)
Authenticate(r) == Begin(r, "login", NoKey, "open")

(* login, or update_session_auth_hash: cycle_key stores an empty session   *)
(* under a new key and deletes the old one; what it holds stays in memory. *)
OpenSession(r) ==
  /\ pc[r] = "open"
  /\ \E k \in In("NEW") :
       /\ session' = [j \in Keys |->
            IF j = k THEN [session[j] EXCEPT !.state = "BLANK"]
            ELSE IF j = key[r] THEN [session[j] EXCEPT !.state = "GONE"]
            ELSE session[j]]
       /\ key' = [key EXCEPT ![r] = k]
  /\ Goto(r, IF op[r] = "change" THEN "snapshot" ELSE "register")
  /\ UNCHANGED <<password, row, op, known, seen, targets, crossed>>

(* register_account_session: the row is made, or brought back.             *)
Register(r) ==
  /\ pc[r] = "register"
  /\ row' = [row EXCEPT ![key[r]] = "LIVE"]
  /\ Goto(r, IF op[r] = "list" THEN "list" ELSE "respond")
  /\ UNCHANGED <<password, session, memory, crossed>>

(* SessionMiddleware stores what changed, unless the session is gone.      *)
Respond(r) ==
  /\ pc[r] = "respond"
  /\ IF session[key[r]].state = "BLANK"
     THEN session' = [session EXCEPT ![key[r]] = [state |-> "USER", password |-> known[r]]]
     ELSE UNCHANGED session
  /\ End(r)
  /\ UNCHANGED <<password, row, crossed>>

-----------------------------------------------------------------------------
(* ChangePasswordView and PasswordResetConfirmView store the new password; *)
(* the token of a reset was checked against the user as loaded.            *)
ResetStart(r) == Begin(r, "reset", NoKey, "reset")

SetPassword(r) ==
  /\ pc[r] \in {"change", "reset"}
  /\ password < MaxPasswords
  /\ password' = password + 1
  /\ known' = [known EXCEPT ![r] = password + 1]
  /\ Goto(r, IF pc[r] = "change" THEN "open" ELSE "snapshot")
  /\ UNCHANGED <<session, row, op, key, seen, targets, crossed>>

\* Fault: only the sessions that are listed are looked for.
SnapshotListed(r) ==
  /\ pc[r] = "snapshot"
  /\ seen' = [seen EXCEPT ![r] = {k \in In("USER") \ {key[r]} : row[k] = "LIVE"}]
  /\ Goto(r, "delete")
  /\ UNCHANGED <<password, session, row, op, key, known, targets, crossed>>

(* revoke_user_sessions: the stored sessions of the user but the own are   *)
(* read and deleted, then all other rows are marked.                       *)
Snapshot(r) ==
  /\ pc[r] = "snapshot"
  /\ seen' = [seen EXCEPT ![r] = In("USER") \ {key[r]}]
  /\ Goto(r, "delete")
  /\ UNCHANGED <<password, session, row, op, key, known, targets, crossed>>

DeleteSeen(r) ==
  /\ pc[r] = "delete"
  /\ Drop(seen[r])
  /\ Goto(r, "mark")
  /\ UNCHANGED <<password, row, memory, crossed>>

Mark(r, ks) ==
  /\ row' = [k \in Keys |-> IF k \in ks /\ row[k] = "LIVE" THEN "REVOKED" ELSE row[k]]
  /\ crossed' = crossed \cup {k \in ks \ {key[r]} :
                                row[k] = "LIVE" /\ session[k].state # "GONE"}

\* Fault: the row of the session itself is marked as well.
MarkOthersAndOwn(r) ==
  /\ pc[r] = "mark"
  /\ Mark(r, Keys)
  /\ IF op[r] = "change" THEN Goto(r, "register") /\ UNCHANGED memory ELSE End(r)
  /\ UNCHANGED <<password, session>>

MarkOthers(r) ==
  /\ pc[r] = "mark"
  /\ Mark(r, Keys \ {key[r]})
  /\ IF op[r] = "change" THEN Goto(r, "register") /\ UNCHANGED memory ELSE End(r)
  /\ UNCHANGED <<password, session>>

(* AccountSessionListView: rows without a stored session are marked.       *)
ListRead(r) ==
  /\ pc[r] = "list"
  /\ seen' = [seen EXCEPT ![r] = In("USER") \cup In("BLANK")]
  /\ Goto(r, "heal")
  /\ UNCHANGED <<password, session, row, op, key, known, targets, crossed>>

Heal(r) ==
  /\ pc[r] = "heal"
  /\ Mark(r, Keys \ seen[r])
  /\ End(r)
  /\ UNCHANGED <<password, session>>

(* AccountSessionDetailView.delete: the session first, then its row.       *)
RevokeRead(r) ==
  /\ pc[r] = "revoke"
  /\ \E k \in {j \in Keys \ {key[r]} : row[j] = "LIVE"} : seen' = [seen EXCEPT ![r] = {k}]
  /\ Goto(r, "drop")
  /\ UNCHANGED <<password, session, row, op, key, known, targets, crossed>>

DropSession(r) ==
  /\ pc[r] = "drop"
  /\ Drop(seen[r])
  /\ Goto(r, "save")
  /\ UNCHANGED <<password, row, memory, crossed>>

SaveRevoked(r) ==
  /\ pc[r] = "save"
  /\ row' = [k \in Keys |-> IF k \in seen[r] THEN "REVOKED" ELSE row[k]]
  /\ End(r)
  /\ UNCHANGED <<password, session, crossed>>

(* AuthLogoutView: the row first, then the session.                        *)
Logout(r) ==
  /\ pc[r] = "logout"
  /\ row' = [row EXCEPT ![key[r]] = "REVOKED"]
  /\ Goto(r, "flush")
  /\ UNCHANGED <<password, session, memory, crossed>>

Flush(r) ==
  /\ pc[r] = "flush"
  /\ Drop({key[r]})
  /\ End(r)
  /\ UNCHANGED <<password, row, crossed>>

(* The process dies: of a logout that has marked its row the session stays.*)
Die(r) ==
  /\ pc[r] # "idle"
  /\ End(r)
  /\ crossed' = IF pc[r] = "flush" THEN crossed \cup {key[r]} ELSE crossed
  /\ UNCHANGED <<password, session, row>>

Next ==
  \E r \in Requests :
    \/ Enter(r) \/ Authenticate(r) \/ OpenSession(r) \/ Register(r) \/ Respond(r)
    \/ ResetStart(r) \/ SetPassword(r) \/ Snapshot(r) \/ DeleteSeen(r)
    \/ MarkOthers(r) \/ ListRead(r) \/ Heal(r) \/ RevokeRead(r)
    \/ DropSession(r) \/ SaveRevoked(r) \/ Logout(r) \/ Flush(r) \/ Die(r)

Spec == Init /\ [][Next]_vars

-----------------------------------------------------------------------------
(* Once the sessions of the others are deleted, none of those that could   *)
(* be used when the request began can be used, listed or not, whatever     *)
(* their own requests are doing.                                           *)
OthersAreOut ==
  \A r \in Requests : pc[r] = "mark" \/ (op[r] = "change" /\ pc[r] = "register") =>
    targets[r] \cap Usable = {}

(* A session that can be used, and is not in the middle of a request, is   *)
(* in the list from which the user can revoke it, unless its row was       *)
(* marked while it lived: by a revocation or a list that its login had     *)
(* crossed, or by a logout that died.                                      *)
UsableIsListed ==
  \A k \in Usable \ {key[r] : r \in Requests} : row[k] = "LIVE" \/ k \in crossed

(* The inductive invariant.  A session never becomes usable again: what was *)
(* usable when a revocation began is stored, and read, or gone.            *)
Stages ==
  {<<"none", "idle">>}
    \cup {"login"}  \X {"open", "register", "respond"}
    \cup {"me"}     \X {"register", "respond"}
    \cup {"list"}   \X {"register", "list", "heal"}
    \cup {"revoke"} \X {"revoke", "drop", "save"}
    \cup {"others"} \X {"snapshot", "delete", "mark"}
    \cup {"logout"} \X {"logout", "flush"}
    \cup {"change"} \X {"change", "open", "snapshot", "delete", "mark", "register", "respond"}
    \cup {"reset"}  \X {"reset", "snapshot", "delete", "mark"}

Phases ==
  {"idle", "open", "register", "respond", "list", "heal", "revoke", "drop", "save",
   "snapshot", "delete", "mark", "logout", "flush", "change", "reset"}

HasKey(r) == op[r] \notin {"none", "reset"} /\ ~(op[r] = "login" /\ pc[r] = "open")

Sessions == [state : {"NEW", "BLANK", "USER", "GONE"}, password : Nat]

TypeOK ==
  /\ password \in Nat
  /\ session \in [Keys -> Sessions]
  /\ row \in [Keys -> {"NONE", "LIVE", "REVOKED"}]
  /\ op \in [Requests -> Views] /\ pc \in [Requests -> Phases]
  /\ \A r \in Requests : <<op[r], pc[r]>> \in Stages /\ (HasKey(r) => key[r] \in Keys)
  /\ key \in [Requests -> Keys \cup {NoKey}] /\ known \in [Requests -> Nat]
  /\ seen \in [Requests -> SUBSET Keys] /\ targets \in [Requests -> SUBSET Keys]
  /\ crossed \in SUBSET Keys

TargetsAreReached ==
  \A r \in Requests :
    /\ targets[r] \subseteq In("USER") \cup In("GONE") /\ key[r] \notin targets[r]
    /\ pc[r] = "delete" => targets[r] \subseteq seen[r] \cup In("GONE")
    /\ pc[r] = "mark" \/ (op[r] = "change" /\ pc[r] = "register") =>
         targets[r] \subseteq In("GONE")

(* Also a session that a logout is about to drop counts as listed.         *)
Listed(k) ==
  row[k] = "LIVE" \/ k \in crossed \/ \E r \in Requests : pc[r] = "flush" /\ key[r] = k

SessionsAreListed ==
  /\ \A k \in In("USER") : Listed(k)
  /\ \A k \in In("BLANK"), r \in Requests : pc[r] = "respond" /\ key[r] = k => Listed(k)

ListsAreCurrent ==
  \A r \in Requests :
    /\ op[r] = "list" => key[r] \in In("USER") \cup In("GONE")
    /\ pc[r] = "heal" => key[r] \in seen[r] \cup In("GONE")
    /\ pc[r] = "save" => seen[r] \subseteq In("GONE")

KeysAreTaken == \A r \in Requests : key[r] \notin In("NEW")

IInv == TypeOK /\ KeysAreTaken /\ TargetsAreReached /\ SessionsAreListed /\ ListsAreCurrent
=============================================================================
