-------------------------- MODULE Services_proofs ---------------------------
(***************************************************************************)
(* The invariants of the parts of Services, for every value of their       *)
(* parameters: each part's own invariant is inductive, and a step of the   *)
(* whole is a step of the part that was chosen.  Retrieval and Chunking    *)
(* are proved about in modules of their own, used here; the document task  *)
(* lock, whose steps leave the other parts alone, comes last.              *)
(***************************************************************************)
EXTENDS Chunking_proofs, Sequences, TLAPS, FiniteSetTheorems

-----------------------------------------------------------------------------
(* Accounts: v1 password, v2 session, v3 row, v4 pc, v5 op, v6 key,        *)
(* v7 known, v8 seen, v9 targets, v10 crossed.  No session that could be   *)
(* used when a revocation began can be used when it has deleted what it    *)
(* read, and a session that can be used is listed.                         *)

(* What a deletion of stored sessions does to them.                        *)
LEMMA DropMoves ==
  ASSUME A!TypeOK, NEW ks \in SUBSET Keys, A!Drop(ks)
  PROVE  /\ v2' \in [Keys -> A!Sessions]
         /\ A!In("USER")' = A!In("USER") \ ks
         /\ A!In("BLANK")' = A!In("BLANK") \ ks
         /\ A!In("NEW")' = A!In("NEW") \ ks
         /\ A!In("GONE")' = A!In("GONE") \cup ks
  <1>1. ASSUME NEW k \in Keys
        PROVE  /\ v2'[k] \in A!Sessions
               /\ k \in ks => v2'[k].state = "GONE"
               /\ k \notin ks => v2'[k] = v2[k]
    BY DEF A!TypeOK, A!Drop, A!Sessions
  <1>2. v2' \in [Keys -> A!Sessions]
    BY <1>1 DEF A!Drop
  <1> QED
    BY <1>1, <1>2 DEF A!In

(* What the end of a request leaves of it.                                 *)
LEMMA EndMoves ==
  ASSUME A!TypeOK, NEW r \in Devices, A!End(r)
  PROVE  /\ v4' \in [Devices -> A!Phases] /\ v5' \in [Devices -> A!Views]
         /\ v6' \in [Devices -> Keys \cup {NoKey}] /\ v7' \in [Devices -> Nat]
         /\ v8' \in [Devices -> SUBSET Keys] /\ v9' \in [Devices -> SUBSET Keys]
         /\ v4'[r] = "idle" /\ v5'[r] = "none" /\ v6'[r] = NoKey
         /\ v8'[r] = {} /\ v9'[r] = {}
         /\ \A q \in Devices \ {r} :
              /\ v4'[q] = v4[q] /\ v5'[q] = v5[q] /\ v6'[q] = v6[q]
              /\ v8'[q] = v8[q] /\ v9'[q] = v9[q]
         /\ \A q \in Devices : <<v5'[q], v4'[q]>> \in A!Stages /\ (A!HasKey(q)' => v6'[q] \in Keys)
  BY DEF A!TypeOK, A!End, A!Goto, A!Stages, A!Phases, A!HasKey, A!Views

-----------------------------------------------------------------------------
LEMMA AccountsInit ==
  ASSUME A!ConstantsAssumption, A!Init
  PROVE  A!IInv
  BY DEF A!ConstantsAssumption, A!Init, A!KeysAreTaken, A!IInv, A!TypeOK, A!Sessions, A!Stages,
         A!Phases, A!HasKey, A!Views, A!In,
         A!TargetsAreReached, A!SessionsAreListed, A!ListsAreCurrent

LEMMA BeginKeepsSessions ==
  ASSUME A!ConstantsAssumption, A!IInv, NEW r \in Devices, NEW view \in A!Views, NEW k \in Keys \cup {NoKey},
         NEW stand \in A!Phases, A!Begin(r, view, k, stand),
         <<view, stand>> \in A!Stages, k = NoKey => view = "reset" \/ <<view, stand>> = <<"login", "open">>,
         k = NoKey \/ k \in A!Usable,
         stand \notin {"delete", "mark", "respond", "heal", "save", "flush"},
         view = "change" => stand = "change"
  PROVE  A!IInv'
  <1> USE DEF A!Begin, A!Goto
  <1>1. A!TypeOK'
    BY DEF A!IInv, A!TypeOK, A!HasKey, A!Usable, A!In
  <1>2. A!Usable \subseteq A!In("USER") /\ UNCHANGED v2
    BY DEF A!Usable
  <1>3. \A s \in {"NEW", "BLANK", "USER", "GONE"} : A!In(s)' = A!In(s) /\ A!In(s) \subseteq Keys
    BY DEF A!In
  <1>4. /\ v4'[r] = stand /\ v5'[r] = view /\ v6'[r] = k /\ v9'[r] = A!Usable \ {k}
        /\ \A q \in Devices \ {r} :
             v4'[q] = v4[q] /\ v5'[q] = v5[q] /\ v6'[q] = v6[q] /\ v9'[q] = v9[q]
        /\ UNCHANGED <<v8, v3, v10>>
    BY DEF A!IInv, A!TypeOK
  <1>5. A!TargetsAreReached'
    BY <1>2, <1>3, <1>4 DEF A!IInv, A!TargetsAreReached
  <1>6. \A j \in Keys : A!Listed(j) => A!Listed(j)'
    BY <1>4 DEF A!Listed
  <1>7. A!SessionsAreListed'
    BY <1>3, <1>4, <1>6 DEF A!IInv, A!SessionsAreListed
  <1>8. A!ListsAreCurrent'
    BY <1>2, <1>3, <1>4 DEF A!IInv, A!ListsAreCurrent
  <1>9. A!KeysAreTaken'
    <2>1. k \notin A!In("NEW")
      BY <1>2 DEF A!In, A!ConstantsAssumption
    <2> QED
      BY <1>3, <1>4, <2>1 DEF A!IInv, A!KeysAreTaken
  <1> QED
    BY <1>1, <1>5, <1>7, <1>8, <1>9 DEF A!IInv

LEMMA EnterKeepsSessions ==
  ASSUME A!ConstantsAssumption, A!IInv, NEW r \in Devices, A!Enter(r)
  PROVE  A!IInv'
  <1>1. PICK k \in A!Usable, view \in A!Views \ {"none", "login", "reset"} :
          A!Begin(r, view, k, IF view \in {"me", "list"} THEN "register"
                            ELSE IF view = "others" THEN "snapshot" ELSE view)
    BY DEF A!Enter
  <1>2. k \in Keys
    BY DEF A!Usable, A!In
  <1> DEFINE stand == IF view \in {"me", "list"} THEN "register"
                      ELSE IF view = "others" THEN "snapshot" ELSE view
  <1>3. A!Begin(r, view, k, stand)
    BY <1>1
  <1>4. /\ stand \in A!Phases /\ <<view, stand>> \in A!Stages
        /\ stand \notin {"delete", "mark", "respond", "heal", "save", "flush"}
        /\ view = "change" => stand = "change"
    BY DEF A!Views, A!Phases, A!Stages
  <1>5. k # NoKey
    BY <1>2 DEF A!ConstantsAssumption
  <1> HIDE DEF stand
  <1> QED
    BY <1>2, <1>3, <1>4, <1>5, BeginKeepsSessions

LEMMA AuthenticateKeepsSessions ==
  ASSUME A!ConstantsAssumption, A!IInv, NEW r \in Devices, A!Authenticate(r)
  PROVE  A!IInv'
  <1>1. /\ "login" \in A!Views /\ "open" \in A!Phases /\ <<"login", "open">> \in A!Stages
    BY DEF A!Views, A!Phases, A!Stages
  <1> QED
    BY <1>1, BeginKeepsSessions DEF A!Authenticate

LEMMA ResetStartKeepsSessions ==
  ASSUME A!ConstantsAssumption, A!IInv, NEW r \in Devices, A!ResetStart(r)
  PROVE  A!IInv'
  <1>1. /\ "reset" \in A!Views /\ "reset" \in A!Phases /\ <<"reset", "reset">> \in A!Stages
    BY DEF A!Views, A!Phases, A!Stages
  <1> QED
    BY <1>1, BeginKeepsSessions DEF A!ResetStart

(* A new session takes the place of the own, which is then gone.           *)
LEMMA OpenSessionKeepsSessions ==
  ASSUME A!ConstantsAssumption, A!IInv, NEW r \in Devices, A!OpenSession(r)
  PROVE  A!IInv'
  <1>1. PICK k \in A!In("NEW") :
          /\ v2' = [j \in Keys |->
               IF j = k THEN [v2[j] EXCEPT !.state = "BLANK"]
               ELSE IF j = v6[r] THEN [v2[j] EXCEPT !.state = "GONE"]
               ELSE v2[j]]
          /\ v6' = [v6 EXCEPT ![r] = k]
    BY DEF A!OpenSession
  <1>2. A!TypeOK /\ k \in Keys /\ v2[k].state = "NEW"
    BY DEF A!IInv, A!In
  <1>3. /\ v4[r] = "open"
        /\ v4' = [v4 EXCEPT ![r] = IF v5[r] = "change" THEN "snapshot" ELSE "register"]
        /\ UNCHANGED <<v1, v3, v5, v7, v8, v9, v10>>
    BY DEF A!OpenSession, A!Goto
  <1>4. v5[r] \in {"login", "change"}
    BY <1>2, <1>3 DEF A!TypeOK, A!Stages
  <1>5. ASSUME NEW j \in Keys
        PROVE  /\ v2'[j] \in A!Sessions
               /\ j = k => v2'[j].state = "BLANK"
               /\ j # k /\ j = v6[r] => v2'[j].state = "GONE"
               /\ j # k /\ j # v6[r] => v2'[j] = v2[j]
    BY <1>1, <1>2 DEF A!TypeOK, A!Sessions
  <1>6. A!TypeOK'
    <2>1. v2' \in [Keys -> A!Sessions]
      BY <1>1, <1>5
    <2>2. v6' \in [Devices -> Keys \cup {NoKey}] /\ v4' \in [Devices -> A!Phases]
      BY <1>1, <1>2, <1>3 DEF A!TypeOK, A!Phases
    <2>3. \A q \in Devices : <<v5'[q], v4'[q]>> \in A!Stages /\ (A!HasKey(q)' => v6'[q] \in Keys)
      BY <1>1, <1>2, <1>3, <1>4 DEF A!TypeOK, A!Stages, A!HasKey
    <2> QED
      BY <1>2, <1>3, <2>1, <2>2, <2>3 DEF A!TypeOK
  <1>7. /\ A!In("USER") \cup A!In("GONE") \subseteq (A!In("USER") \cup A!In("GONE"))'
        /\ A!In("GONE") \subseteq A!In("GONE")' /\ A!In("USER")' \subseteq A!In("USER")
        /\ A!In("BLANK")' \subseteq A!In("BLANK") \cup {k}
        /\ k \notin A!In("USER") \cup A!In("GONE")
    BY <1>2, <1>5 DEF A!In
  <1>8. /\ v6'[r] = k /\ v4'[r] \in {"snapshot", "register"}
        /\ v5[r] = "change" => v4'[r] = "snapshot"
        /\ \A q \in Devices \ {r} : v4'[q] = v4[q] /\ v6'[q] = v6[q]
    BY <1>1, <1>2, <1>3, <1>4 DEF A!TypeOK
  <1>9. A!TargetsAreReached'
    BY <1>3, <1>7, <1>8 DEF A!IInv, A!TargetsAreReached
  <1>10. A!SessionsAreListed'
    <2>1. ASSUME NEW j \in Keys, A!Listed(j) PROVE A!Listed(j)'
      BY <1>3, <1>8, <2>1 DEF A!Listed
    <2>2. ASSUME NEW j \in A!In("BLANK")', NEW q \in Devices, v4'[q] = "respond", v6'[q] = j
          PROVE  A!Listed(j)'
      <3>1. q # r /\ v4[q] = "respond" /\ v6[q] = j
        BY <1>8, <2>2
      <3>2. j # k
        BY <3>1 DEF A!IInv, A!KeysAreTaken
      <3>3. j \in A!In("BLANK") /\ j \in Keys
        BY <1>7, <3>2 DEF A!In
      <3> QED
        BY <2>1, <3>1, <3>3 DEF A!IInv, A!SessionsAreListed
    <2>3. ASSUME NEW j \in A!In("USER")' PROVE A!Listed(j)'
      <3>1. j \in A!In("USER") /\ j \in Keys
        BY <1>7 DEF A!In
      <3> QED
        BY <2>1, <3>1 DEF A!IInv, A!SessionsAreListed
    <2> QED
      BY <2>2, <2>3 DEF A!SessionsAreListed
  <1>11. A!ListsAreCurrent'
    BY <1>3, <1>4, <1>7, <1>8 DEF A!IInv, A!ListsAreCurrent
  <1>12. A!KeysAreTaken'
    BY <1>5, <1>8 DEF A!IInv, A!KeysAreTaken, A!In
  <1> QED
    BY <1>6, <1>9, <1>10, <1>11, <1>12 DEF A!IInv

LEMMA RegisterKeepsSessions ==
  ASSUME A!ConstantsAssumption, A!IInv, NEW r \in Devices, A!Register(r)
  PROVE  A!IInv'
  <1> USE DEF A!Register, A!Goto, A!memory
  <1>1. A!TypeOK'
    BY DEF A!IInv, A!TypeOK, A!Stages, A!Phases, A!HasKey, A!Views
  <1>2. A!TargetsAreReached'
    BY DEF A!IInv, A!TypeOK, A!TargetsAreReached, A!Stages, A!HasKey, A!In
  <1>3. A!SessionsAreListed'
    BY DEF A!IInv, A!TypeOK, A!SessionsAreListed, A!ListsAreCurrent, A!Listed, A!In
  <1>4. A!ListsAreCurrent' /\ A!KeysAreTaken'
    BY DEF A!IInv, A!TypeOK, A!ListsAreCurrent, A!KeysAreTaken, A!Stages, A!HasKey, A!In
  <1> QED
    BY <1>1, <1>2, <1>3, <1>4 DEF A!IInv

LEMMA SetPasswordKeepsSessions ==
  ASSUME A!ConstantsAssumption, A!IInv, NEW r \in Devices, A!SetPassword(r)
  PROVE  A!IInv'
  <1> USE DEF A!SetPassword, A!Goto
  <1>1. A!TypeOK'
    <2>1. \A q \in Devices : <<v5'[q], v4'[q]>> \in A!Stages /\ (A!HasKey(q)' => v6'[q] \in Keys)
      BY DEF A!IInv, A!TypeOK, A!Stages, A!HasKey
    <2> QED
      BY <2>1 DEF A!IInv, A!TypeOK, A!Phases, A!In
  <1>2. A!TargetsAreReached'
    BY DEF A!IInv, A!TypeOK, A!TargetsAreReached, A!Stages, A!HasKey, A!In
  <1>3. A!SessionsAreListed'
    BY DEF A!IInv, A!TypeOK, A!SessionsAreListed, A!ListsAreCurrent, A!Listed, A!In
  <1>4. A!ListsAreCurrent' /\ A!KeysAreTaken'
    BY DEF A!IInv, A!TypeOK, A!ListsAreCurrent, A!KeysAreTaken, A!Stages, A!HasKey, A!In
  <1> QED
    BY <1>1, <1>2, <1>3, <1>4 DEF A!IInv

LEMMA SnapshotKeepsSessions ==
  ASSUME A!ConstantsAssumption, A!IInv, NEW r \in Devices, A!Snapshot(r)
  PROVE  A!IInv'
  <1> USE DEF A!Snapshot, A!Goto
  <1>1. A!TypeOK'
    <2>1. \A q \in Devices : <<v5'[q], v4'[q]>> \in A!Stages /\ (A!HasKey(q)' => v6'[q] \in Keys)
      BY DEF A!IInv, A!TypeOK, A!Stages, A!HasKey
    <2> QED
      BY <2>1 DEF A!IInv, A!TypeOK, A!Phases, A!In
  <1>2. A!TargetsAreReached'
    BY DEF A!IInv, A!TypeOK, A!TargetsAreReached, A!Stages, A!HasKey, A!In
  <1>3. A!SessionsAreListed'
    BY DEF A!IInv, A!TypeOK, A!SessionsAreListed, A!ListsAreCurrent, A!Listed, A!In
  <1>4. A!ListsAreCurrent' /\ A!KeysAreTaken'
    BY DEF A!IInv, A!TypeOK, A!ListsAreCurrent, A!KeysAreTaken, A!Stages, A!HasKey, A!In
  <1> QED
    BY <1>1, <1>2, <1>3, <1>4 DEF A!IInv

LEMMA ListReadKeepsSessions ==
  ASSUME A!ConstantsAssumption, A!IInv, NEW r \in Devices, A!ListRead(r)
  PROVE  A!IInv'
  <1> USE DEF A!ListRead, A!Goto
  <1>1. A!TypeOK'
    <2>1. \A q \in Devices : <<v5'[q], v4'[q]>> \in A!Stages /\ (A!HasKey(q)' => v6'[q] \in Keys)
      BY DEF A!IInv, A!TypeOK, A!Stages, A!HasKey
    <2> QED
      BY <2>1 DEF A!IInv, A!TypeOK, A!Phases, A!In
  <1>2. A!TargetsAreReached'
    BY DEF A!IInv, A!TypeOK, A!TargetsAreReached, A!Stages, A!HasKey, A!In
  <1>3. A!SessionsAreListed'
    BY DEF A!IInv, A!TypeOK, A!SessionsAreListed, A!ListsAreCurrent, A!Listed, A!In
  <1>4. A!ListsAreCurrent' /\ A!KeysAreTaken'
    BY ZenonT(40) DEF A!IInv, A!TypeOK, A!ListsAreCurrent, A!KeysAreTaken, A!Stages, A!HasKey, A!In
  <1> QED
    BY <1>1, <1>2, <1>3, <1>4 DEF A!IInv

LEMMA RevokeReadKeepsSessions ==
  ASSUME A!ConstantsAssumption, A!IInv, NEW r \in Devices, A!RevokeRead(r)
  PROVE  A!IInv'
  <1> USE DEF A!RevokeRead, A!Goto
  <1>1. A!TypeOK'
    <2>1. \A q \in Devices : <<v5'[q], v4'[q]>> \in A!Stages /\ (A!HasKey(q)' => v6'[q] \in Keys)
      BY DEF A!IInv, A!TypeOK, A!Stages, A!HasKey
    <2> QED
      BY <2>1 DEF A!IInv, A!TypeOK, A!Phases, A!In
  <1>2. A!TargetsAreReached'
    BY DEF A!IInv, A!TypeOK, A!TargetsAreReached, A!Stages, A!HasKey, A!In
  <1>3. A!SessionsAreListed'
    BY DEF A!IInv, A!TypeOK, A!SessionsAreListed, A!ListsAreCurrent, A!Listed, A!In
  <1>4. A!ListsAreCurrent' /\ A!KeysAreTaken'
    BY DEF A!IInv, A!TypeOK, A!ListsAreCurrent, A!KeysAreTaken, A!Stages, A!HasKey, A!In
  <1> QED
    BY <1>1, <1>2, <1>3, <1>4 DEF A!IInv

LEMMA LogoutKeepsSessions ==
  ASSUME A!ConstantsAssumption, A!IInv, NEW r \in Devices, A!Logout(r)
  PROVE  A!IInv'
  <1> USE DEF A!Logout, A!Goto, A!memory
  <1>1. A!TypeOK'
    BY DEF A!IInv, A!TypeOK, A!Stages, A!Phases, A!HasKey, A!Views
  <1>2. A!TargetsAreReached'
    BY DEF A!IInv, A!TypeOK, A!TargetsAreReached, A!Stages, A!HasKey, A!In
  <1>3. A!SessionsAreListed'
    BY DEF A!IInv, A!TypeOK, A!SessionsAreListed, A!ListsAreCurrent, A!Listed, A!In
  <1>4. A!ListsAreCurrent' /\ A!KeysAreTaken'
    BY DEF A!IInv, A!TypeOK, A!ListsAreCurrent, A!KeysAreTaken, A!Stages, A!HasKey, A!In
  <1> QED
    BY <1>1, <1>2, <1>3, <1>4 DEF A!IInv

(* The end of a request disturbs nothing of the others.                    *)
LEMMA EndKeeps ==
  ASSUME A!ConstantsAssumption, A!IInv, NEW r \in Devices, A!End(r),
         A!In("USER") \cup A!In("GONE") \subseteq (A!In("USER") \cup A!In("GONE"))',
         A!In("GONE") \subseteq A!In("GONE")', A!In("NEW")' \subseteq A!In("NEW")
  PROVE  A!TargetsAreReached' /\ A!ListsAreCurrent' /\ A!KeysAreTaken'
  <1>1. /\ v4'[r] = "idle" /\ v5'[r] = "none" /\ v6'[r] = NoKey /\ v9'[r] = {}
        /\ \A q \in Devices \ {r} :
             /\ v4'[q] = v4[q] /\ v5'[q] = v5[q] /\ v6'[q] = v6[q]
             /\ v8'[q] = v8[q] /\ v9'[q] = v9[q]
    BY EndMoves DEF A!IInv
  <1>2. A!TargetsAreReached'
    BY <1>1 DEF A!IInv, A!TargetsAreReached
  <1>3. A!ListsAreCurrent'
    BY <1>1 DEF A!IInv, A!ListsAreCurrent
  <1>4. A!In("NEW")' \subseteq Keys
    BY DEF A!In
  <1>5. A!KeysAreTaken'
    BY <1>1, <1>4 DEF A!IInv, A!KeysAreTaken, A!ConstantsAssumption
  <1> QED
    BY <1>2, <1>3, <1>5

(* A session that stays as it is stays listed when a request that drops    *)
(* nothing ends.                                                           *)
LEMMA EndKeepsListed ==
  ASSUME A!IInv, NEW r \in Devices, A!End(r), v4[r] # "flush", NEW k \in Keys, A!Listed(k),
         v3'[k] = v3[k] \/ v3'[k] = "LIVE" \/ k \in v10', v10 \subseteq v10'
  PROVE  A!Listed(k)'
  <1>1. \A q \in Devices \ {r} : v4'[q] = v4[q] /\ v6'[q] = v6[q]
    BY EndMoves DEF A!IInv
  <1> QED
    BY <1>1 DEF A!Listed

(* The stored session takes its place in the list that Register has made.  *)
LEMMA RespondKeepsSessions ==
  ASSUME A!ConstantsAssumption, A!IInv, NEW r \in Devices, A!Respond(r)
  PROVE  A!IInv'
  <1>1. A!TypeOK /\ v4[r] = "respond" /\ A!End(r) /\ UNCHANGED <<v1, v3, v10>>
    BY DEF A!IInv, A!Respond
  <1>2. v6[r] \in Keys
    BY <1>1 DEF A!TypeOK, A!Stages, A!HasKey
  <1>3. ASSUME NEW k \in Keys
        PROVE  /\ v2'[k] \in A!Sessions
               /\ k = v6[r] /\ v2[k].state = "BLANK" => v2'[k].state = "USER"
               /\ k # v6[r] \/ v2[k].state # "BLANK" => v2'[k] = v2[k]
    BY <1>1, <1>2 DEF A!Respond, A!TypeOK, A!Sessions
  <1>4. A!TypeOK'
    <2>1. v2' \in [Keys -> A!Sessions]
      BY <1>1, <1>3 DEF A!Respond, A!TypeOK
    <2> QED
      BY <1>1, <2>1, EndMoves DEF A!TypeOK
  <1>5. /\ A!In("USER") \cup A!In("GONE") \subseteq (A!In("USER") \cup A!In("GONE"))'
        /\ A!In("GONE") \subseteq A!In("GONE")' /\ A!In("NEW")' \subseteq A!In("NEW")
        /\ A!In("BLANK")' \subseteq A!In("BLANK")
        /\ \A k \in A!In("USER")' : k \in A!In("USER") \/ (k \in A!In("BLANK") /\ k = v6[r])
    BY <1>3 DEF A!In
  <1>6. ASSUME NEW k \in Keys, A!Listed(k) PROVE A!Listed(k)'
    BY <1>1, <1>6, EndKeepsListed
  <1>7. A!SessionsAreListed'
    <2>1. ASSUME NEW k \in A!In("USER")' PROVE A!Listed(k)'
      <3>1. k \in Keys /\ A!Listed(k)
        BY <1>1, <1>5, <2>1 DEF A!IInv, A!SessionsAreListed, A!In
      <3> QED
        BY <1>6, <3>1
    <2>2. ASSUME NEW k \in A!In("BLANK")', NEW q \in Devices, v4'[q] = "respond", v6'[q] = k
          PROVE  A!Listed(k)'
      <3>1. q # r /\ v4[q] = "respond" /\ v6[q] = k
        BY <1>1, <2>2, EndMoves
      <3>2. k \in Keys /\ A!Listed(k)
        BY <1>5, <3>1 DEF A!IInv, A!SessionsAreListed, A!In
      <3> QED
        BY <1>6, <3>2
    <2> QED
      BY <2>1, <2>2 DEF A!SessionsAreListed
  <1> QED
    BY <1>1, <1>4, <1>5, <1>7, EndKeeps DEF A!IInv

(* Deletions of stored sessions, in the middle of a request.               *)
LEMMA DropKeepsSessions ==
  ASSUME A!ConstantsAssumption, A!IInv, NEW r \in Devices,
         \/ A!DeleteSeen(r)
         \/ A!DropSession(r)
  PROVE  A!IInv'
  <1>1. /\ A!TypeOK /\ A!Drop(v8[r]) /\ v8[r] \in SUBSET Keys
        /\ UNCHANGED <<v1, v3, v5, v6, v7, v8, v9, v10>>
    BY DEF A!IInv, A!TypeOK, A!DeleteSeen, A!DropSession, A!memory
  <1>2. /\ \/ v4[r] = "delete" /\ v4'[r] = "mark"
           \/ v4[r] = "drop" /\ v4'[r] = "save"
        /\ v4' \in [Devices -> A!Phases]
        /\ \A q \in Devices \ {r} : v4'[q] = v4[q]
    BY <1>1 DEF A!TypeOK, A!DeleteSeen, A!DropSession, A!Goto, A!Phases
  <1>3. /\ v2' \in [Keys -> A!Sessions]
        /\ A!In("USER")' = A!In("USER") \ v8[r]
        /\ A!In("BLANK")' = A!In("BLANK") \ v8[r]
        /\ A!In("NEW")' = A!In("NEW") \ v8[r]
        /\ A!In("GONE")' = A!In("GONE") \cup v8[r]
    BY <1>1, DropMoves
  <1>4. A!TypeOK'
    <2>1. ASSUME NEW q \in Devices
          PROVE  <<v5'[q], v4'[q]>> \in A!Stages /\ (A!HasKey(q)' => v6'[q] \in Keys)
      BY <1>1, <1>2 DEF A!TypeOK, A!Stages, A!HasKey
    <2> QED
      BY <1>1, <1>2, <1>3, <2>1 DEF A!TypeOK
  <1>5. A!TargetsAreReached'
    <2>1. v4[r] = "drop" => v5[r] = "revoke"
      BY <1>1 DEF A!TypeOK, A!Stages
    <2> QED
      BY <1>1, <1>2, <1>3, <2>1 DEF A!IInv, A!TargetsAreReached
  <1>6. A!SessionsAreListed'
    BY <1>1, <1>2, <1>3 DEF A!IInv, A!SessionsAreListed, A!Listed
  <1>7. A!ListsAreCurrent' /\ A!KeysAreTaken'
    BY <1>1, <1>2, <1>3 DEF A!IInv, A!ListsAreCurrent, A!KeysAreTaken, A!In
  <1> QED
    BY <1>4, <1>5, <1>6, <1>7 DEF A!IInv

(* The rows that are marked are those of sessions that are gone, or that   *)
(* are recorded as crossed.                                                *)
LEMMA MarkMoves ==
  ASSUME A!TypeOK, NEW r \in Devices, NEW ks \in SUBSET Keys, A!Mark(r, ks)
  PROVE  /\ v3' \in [Keys -> {"NONE", "LIVE", "REVOKED"}]
         /\ v10' \in SUBSET Keys /\ v10 \subseteq v10'
         /\ \A k \in Keys :
              v3'[k] = v3[k] \/ k \in v10' \/ (k = v6[r] /\ k \in ks) \/ k \in A!In("GONE")
  BY DEF A!TypeOK, A!Mark, A!In

LEMMA MarkOthersKeepsSessions ==
  ASSUME A!ConstantsAssumption, A!IInv, NEW r \in Devices, A!MarkOthers(r)
  PROVE  A!IInv'
  <1>1. /\ A!TypeOK /\ v4[r] = "mark" /\ A!Mark(r, Keys \ {v6[r]})
        /\ UNCHANGED <<v1, v2>>
    BY DEF A!IInv, A!MarkOthers
  <1>2. /\ v3' \in [Keys -> {"NONE", "LIVE", "REVOKED"}]
        /\ v10' \in SUBSET Keys /\ v10 \subseteq v10'
        /\ \A k \in Keys : v3'[k] = v3[k] \/ k \in v10' \/ k \in A!In("GONE")
    BY <1>1, MarkMoves
  <1>3. \A s \in {"NEW", "BLANK", "USER", "GONE"} : A!In(s)' = A!In(s) /\ A!In(s) \subseteq Keys
    BY <1>1 DEF A!In
  <1>4. CASE v5[r] = "change"
    <2>1. /\ v4' = [v4 EXCEPT ![r] = "register"]
          /\ UNCHANGED <<v5, v6, v7, v8, v9>>
      BY <1>4 DEF A!MarkOthers, A!Goto, A!memory
    <2>2. A!TypeOK'
      <3>1. ASSUME NEW q \in Devices
            PROVE  <<v5'[q], v4'[q]>> \in A!Stages /\ (A!HasKey(q)' => v6'[q] \in Keys)
        BY <1>1, <1>4, <2>1 DEF A!TypeOK, A!Stages, A!HasKey
      <3> QED
        BY <1>1, <1>2, <2>1, <3>1 DEF A!TypeOK, A!Phases
    <2>3. A!TargetsAreReached' /\ A!ListsAreCurrent' /\ A!KeysAreTaken'
      BY <1>1, <1>3, <2>1 DEF A!IInv, A!TypeOK, A!TargetsAreReached, A!ListsAreCurrent, A!KeysAreTaken
    <2>4. ASSUME NEW k \in Keys, A!Listed(k), k \notin A!In("GONE") PROVE A!Listed(k)'
      BY <1>1, <1>2, <2>1, <2>4 DEF A!TypeOK, A!Listed
    <2>5. A!SessionsAreListed'
      BY <1>1, <1>3, <2>1, <2>4 DEF A!IInv, A!TypeOK, A!SessionsAreListed, A!In
    <2> QED
      BY <2>2, <2>3, <2>5 DEF A!IInv
  <1>5. CASE v5[r] # "change"
    <2>1. A!End(r)
      BY <1>5 DEF A!MarkOthers
    <2>2. A!TypeOK'
      BY <1>1, <1>2, <2>1, EndMoves DEF A!TypeOK
    <2>3. ASSUME NEW k \in Keys, A!Listed(k), k \notin A!In("GONE") PROVE A!Listed(k)'
      BY <1>1, <1>2, <2>1, <2>3, EndKeepsListed
    <2>4. A!SessionsAreListed'
      BY <1>1, <1>3, <2>1, <2>3, EndMoves DEF A!IInv, A!SessionsAreListed, A!In
    <2> QED
      BY <1>3, <2>1, <2>2, <2>4, EndKeeps DEF A!IInv
  <1> QED
    BY <1>4, <1>5

(* The own session of a list is stored, and read, or gone.                 *)
LEMMA HealKeepsSessions ==
  ASSUME A!ConstantsAssumption, A!IInv, NEW r \in Devices, A!Heal(r)
  PROVE  A!IInv'
  <1>1. /\ A!TypeOK /\ v4[r] = "heal" /\ A!Mark(r, Keys \ v8[r]) /\ A!End(r)
        /\ UNCHANGED <<v1, v2>>
    BY DEF A!IInv, A!Heal
  <1>2. /\ v3' \in [Keys -> {"NONE", "LIVE", "REVOKED"}]
        /\ v10' \in SUBSET Keys /\ v10 \subseteq v10'
        /\ \A k \in Keys : v3'[k] = v3[k] \/ k \in v10' \/ k \in A!In("GONE")
    BY <1>1, MarkMoves DEF A!IInv, A!ListsAreCurrent
  <1>3. \A s \in {"NEW", "BLANK", "USER", "GONE"} : A!In(s)' = A!In(s) /\ A!In(s) \subseteq Keys
    BY <1>1 DEF A!In
  <1>4. A!TypeOK'
    BY <1>1, <1>2, EndMoves DEF A!TypeOK
  <1>5. ASSUME NEW k \in Keys, A!Listed(k), k \notin A!In("GONE") PROVE A!Listed(k)'
    BY <1>1, <1>2, <1>5, EndKeepsListed
  <1>6. A!SessionsAreListed'
    BY <1>1, <1>3, <1>5, EndMoves DEF A!IInv, A!SessionsAreListed, A!In
  <1> QED
    BY <1>1, <1>3, <1>4, <1>6, EndKeeps DEF A!IInv

(* The row of a revoked session is marked when the session is gone.        *)
LEMMA SaveRevokedKeepsSessions ==
  ASSUME A!ConstantsAssumption, A!IInv, NEW r \in Devices, A!SaveRevoked(r)
  PROVE  A!IInv'
  <1>1. /\ A!TypeOK /\ v4[r] = "save" /\ A!End(r) /\ UNCHANGED <<v1, v2, v10>>
        /\ v3' = [k \in Keys |-> IF k \in v8[r] THEN "REVOKED" ELSE v3[k]]
    BY DEF A!IInv, A!SaveRevoked
  <1>2. /\ v3' \in [Keys -> {"NONE", "LIVE", "REVOKED"}]
        /\ \A k \in Keys : v3'[k] = v3[k] \/ k \in A!In("GONE")
    BY <1>1 DEF A!IInv, A!ListsAreCurrent, A!TypeOK
  <1>3. \A s \in {"NEW", "BLANK", "USER", "GONE"} : A!In(s)' = A!In(s) /\ A!In(s) \subseteq Keys
    BY <1>1 DEF A!In
  <1>4. A!TypeOK'
    BY <1>1, <1>2, EndMoves DEF A!TypeOK
  <1>5. ASSUME NEW k \in Keys, A!Listed(k), k \notin A!In("GONE") PROVE A!Listed(k)'
    BY <1>1, <1>2, <1>5, EndKeepsListed
  <1>6. A!SessionsAreListed'
    BY <1>1, <1>3, <1>5, EndMoves DEF A!IInv, A!SessionsAreListed, A!In
  <1> QED
    BY <1>1, <1>3, <1>4, <1>6, EndKeeps DEF A!IInv

(* A logout drops the session that only it had listed.                     *)
LEMMA FlushKeepsSessions ==
  ASSUME A!ConstantsAssumption, A!IInv, NEW r \in Devices, A!Flush(r)
  PROVE  A!IInv'
  <1>1. /\ A!TypeOK /\ v4[r] = "flush" /\ A!Drop({v6[r]}) /\ A!End(r)
        /\ UNCHANGED <<v1, v3, v10>>
    BY DEF A!IInv, A!Flush
  <1>2. {v6[r]} \in SUBSET Keys
    BY <1>1 DEF A!TypeOK, A!Stages, A!HasKey
  <1>3. /\ v2' \in [Keys -> A!Sessions]
        /\ A!In("USER")' = A!In("USER") \ {v6[r]}
        /\ A!In("BLANK")' = A!In("BLANK") \ {v6[r]}
        /\ A!In("NEW")' = A!In("NEW") \ {v6[r]}
        /\ A!In("GONE")' = A!In("GONE") \cup {v6[r]}
    BY <1>1, <1>2, DropMoves
  <1>4. A!TypeOK'
    BY <1>1, <1>3, EndMoves DEF A!TypeOK
  <1>5. \A q \in Devices \ {r} : v4'[q] = v4[q] /\ v6'[q] = v6[q]
    BY <1>1, EndMoves
  <1>6. ASSUME NEW k \in Keys, A!Listed(k), k # v6[r] PROVE A!Listed(k)'
    BY <1>1, <1>5, <1>6 DEF A!Listed
  <1>7. A!SessionsAreListed'
    BY <1>1, <1>3, <1>6, EndMoves DEF A!IInv, A!SessionsAreListed, A!In
  <1> QED
    BY <1>1, <1>3, <1>4, <1>7, EndKeeps DEF A!IInv

LEMMA DieKeepsSessions ==
  ASSUME A!ConstantsAssumption, A!IInv, NEW r \in Devices, A!Die(r)
  PROVE  A!IInv'
  <1>1. /\ A!TypeOK /\ A!End(r) /\ UNCHANGED <<v1, v2, v3>>
        /\ v10' = IF v4[r] = "flush" THEN v10 \cup {v6[r]} ELSE v10
    BY DEF A!IInv, A!Die
  <1>2. v4[r] = "flush" => v6[r] \in Keys
    BY <1>1 DEF A!TypeOK, A!Stages, A!HasKey
  <1>3. \A s \in {"NEW", "BLANK", "USER", "GONE"} : A!In(s)' = A!In(s) /\ A!In(s) \subseteq Keys
    BY <1>1 DEF A!In
  <1>4. A!TypeOK'
    BY <1>1, <1>2, EndMoves DEF A!TypeOK
  <1>5. \A q \in Devices \ {r} : v4'[q] = v4[q] /\ v6'[q] = v6[q]
    BY <1>1, EndMoves
  <1>6. ASSUME NEW k \in Keys, A!Listed(k) PROVE A!Listed(k)'
    BY <1>1, <1>5, <1>6 DEF A!Listed
  <1>7. A!SessionsAreListed'
    BY <1>1, <1>3, <1>6, EndMoves DEF A!IInv, A!SessionsAreListed, A!In
  <1> QED
    BY <1>1, <1>3, <1>4, <1>7, EndKeeps DEF A!IInv

LEMMA AccountsStutter == A!IInv /\ UNCHANGED A!vars => A!IInv'
  BY DEF A!IInv, A!vars, A!TypeOK, A!KeysAreTaken, A!TargetsAreReached, A!SessionsAreListed,
         A!ListsAreCurrent, A!Listed, A!HasKey, A!In

LEMMA AccountsNext ==
  ASSUME A!ConstantsAssumption, A!IInv, [A!Next]_(A!vars)
  PROVE  A!IInv'
  <1>1. ASSUME NEW r \in Devices,
               \/ A!Enter(r) \/ A!Authenticate(r) \/ A!OpenSession(r) \/ A!Register(r) \/ A!Respond(r)
               \/ A!ResetStart(r) \/ A!SetPassword(r)
        PROVE  A!IInv'
    BY <1>1, EnterKeepsSessions, AuthenticateKeepsSessions, OpenSessionKeepsSessions,
       RegisterKeepsSessions, RespondKeepsSessions, ResetStartKeepsSessions,
       SetPasswordKeepsSessions
  <1>2. ASSUME NEW r \in Devices,
               \/ A!Snapshot(r) \/ A!DeleteSeen(r) \/ A!MarkOthers(r) \/ A!ListRead(r) \/ A!Heal(r)
               \/ A!RevokeRead(r) \/ A!DropSession(r) \/ A!SaveRevoked(r)
        PROVE  A!IInv'
    BY <1>2, SnapshotKeepsSessions, DropKeepsSessions, MarkOthersKeepsSessions,
       ListReadKeepsSessions, HealKeepsSessions, RevokeReadKeepsSessions,
       SaveRevokedKeepsSessions
  <1>3. ASSUME NEW r \in Devices, A!Logout(r) \/ A!Flush(r) \/ A!Die(r)
        PROVE  A!IInv'
    BY <1>3, LogoutKeepsSessions, FlushKeepsSessions, DieKeepsSessions
  <1>4. CASE UNCHANGED A!vars
    BY <1>4, AccountsStutter
  <1> QED
    BY <1>1, <1>2, <1>3, <1>4 DEF A!Next

LEMMA SessionsOut == A!IInv => A!OthersAreOut
  BY DEF A!IInv, A!TargetsAreReached, A!OthersAreOut, A!Usable, A!In

LEMMA SessionsListed == A!IInv => A!UsableIsListed
  BY DEF A!IInv, A!SessionsAreListed, A!Listed, A!UsableIsListed, A!Usable

-----------------------------------------------------------------------------
(* Reranker.  The slot is taken as long as there is a job, wherever it is, *)
(* and a request that gives up takes nothing with it.                      *)
LEMMA RerankerInit ==
  ASSUME K!Init
  PROVE  K!IInv
  BY DEF K!Init, K!IInv, K!TypeOK, K!SlotIsTheJob, K!Jobs

LEMMA RerankerNext ==
  ASSUME K!ConstantsAssumption, K!IInv, [K!Next]_(K!vars)
  PROVE  K!IInv'
  <1> USE DEF K!IInv
  <1>1. Len(v3) \in Nat
    BY DEF K!TypeOK
  <1>2. ASSUME NEW r \in Questions, K!Ask(r) PROVE K!IInv'
    <2>1. CASE v2
      <3>1. v3' = Append(v3, r) /\ v2' = FALSE /\ UNCHANGED <<v4, v5>>
        BY <1>2, <2>1 DEF K!Ask
      <3>2. /\ v1' \in [Questions -> {"idle", "waiting", "RERANKED"} \cup K!Codes]
            /\ v3' \in Seq(Questions) /\ Len(v3') = Len(v3) + 1
        BY <1>2, <3>1 DEF K!Ask, K!Codes, K!TypeOK
      <3>3. K!Jobs = 0
        BY <2>1, Zenon DEF K!SlotIsTheJob
      <3>4. Len(v3) = 0 /\ v4 = NoRequest /\ v5 = NoRequest
        <4> DEFINE ran == IF v4 = NoRequest THEN 0 ELSE 1
                   set == IF v5 = NoRequest THEN 0 ELSE 1
        <4>1. ran \in {0, 1} /\ set \in {0, 1} /\ Len(v3) + ran + set = 0
          BY <3>3 DEF K!Jobs
        <4>2. ran = 0 /\ set = 0 /\ Len(v3) = 0
          <5> HIDE DEF ran, set
          <5> QED
            BY <1>1, <4>1
        <4> QED
          BY <4>2
      <3>5. K!Jobs' = 1
        BY <3>1, <3>2, <3>4 DEF K!Jobs
      <3>6. K!TypeOK'
        BY <3>1, <3>2 DEF K!TypeOK
      <3> QED
        BY <3>1, <3>5, <3>6 DEF K!SlotIsTheJob
    <2>2. CASE ~v2
      BY <1>2, <2>2 DEF K!Ask, K!Codes, K!TypeOK, K!SlotIsTheJob, K!Jobs
    <2> QED
      BY <2>1, <2>2
  <1> USE DEF K!ConstantsAssumption, K!TypeOK, K!SlotIsTheJob, K!Jobs
  <1>3. CASE K!Run
    BY <1>3 DEF K!Run
  <1>4. CASE K!Finish
    BY <1>4 DEF K!Finish, K!Results, K!Codes
  <1>5. CASE K!Release
    BY <1>5 DEF K!Release
  <1>6. ASSUME NEW r \in Questions, K!GiveUp(r) PROVE K!IInv'
    BY <1>6 DEF K!GiveUp, K!Codes
  <1>7. CASE UNCHANGED K!vars
    BY <1>7 DEF K!vars
  <1> QED
    BY <1>2, <1>3, <1>4, <1>5, <1>6, <1>7 DEF K!Next

-----------------------------------------------------------------------------
(* LoginLimit.  Requests leave the sets of those under way one by one.     *)
LEMMA OneLess ==
  ASSUME NEW U, IsFiniteSet(U), NEW T, NEW x \in U, T = U \ {x}
  PROVE  IsFiniteSet(T) /\ Cardinality(T) \in Nat /\ Cardinality(T) = Cardinality(U) - 1
  BY FS_RemoveElement, FS_CardinalityType

LEMMA OneMore ==
  ASSUME NEW U, IsFiniteSet(U), NEW T, NEW x, x \notin U, T = U \cup {x}
  PROVE  IsFiniteSet(T) /\ Cardinality(T) \in Nat /\ Cardinality(T) = Cardinality(U) + 1
  BY FS_AddElement, FS_CardinalityType

(* LoginLimit has the cardinality of finite sets under a name of its own.  *)
LEMMA LoginsAreCounted ==
  /\ \A U : G!IsFiniteSet(U) <=> IsFiniteSet(U)
  /\ \A U : G!Cardinality(U) = Cardinality(U)
  BY DEF G!Cardinality, Cardinality, G!IsFiniteSet, IsFiniteSet

LEMMA LoginsAreFinite ==
  ASSUME G!ConstantsAssumption, NEW U, NEW W, U \subseteq W, W \subseteq Logins
  PROVE  /\ IsFiniteSet(U) /\ IsFiniteSet(W)
         /\ Cardinality(U) \in Nat /\ Cardinality(W) \in Nat /\ Cardinality(Logins) \in Nat
         /\ Cardinality(U) <= Cardinality(W) /\ Cardinality(W) <= Cardinality(Logins)
  <1>1. IsFiniteSet(Logins)
    BY LoginsAreCounted DEF G!ConstantsAssumption
  <1>2. IsFiniteSet(W) /\ Cardinality(W) <= Cardinality(Logins)
    BY <1>1, FS_Subset
  <1>3. IsFiniteSet(U) /\ Cardinality(U) <= Cardinality(W)
    BY <1>2, FS_Subset
  <1> QED
    BY <1>1, <1>2, <1>3, FS_CardinalityType

LEMMA LoginsInit ==
  ASSUME G!ConstantsAssumption, G!Init
  PROVE  G!IInv
  <1>1. G!Uncounted = {} /\ G!UnderWay = {}
    BY DEF G!Init, G!Uncounted, G!UnderWay
  <1>2. G!Cardinality({}) = 0 /\ G!Cardinality(Logins) \in Nat
    BY LoginsAreCounted, LoginsAreFinite, FS_EmptySet
  <1>3. G!TypeOK
    BY DEF G!Init, G!TypeOK
  <1> QED
    BY <1>1, <1>2, <1>3
    DEF G!Init, G!IInv, G!GuessesAreCounted, G!RoomIsLeft, G!ConstantsAssumption

LEMMA LoginsNext ==
  ASSUME G!ConstantsAssumption, G!IInv, [G!Next]_(G!vars)
  PROVE  G!IInv'
  <1> DEFINE uncounted == Cardinality(G!Uncounted)
             underWay  == Cardinality(G!UnderWay)
             all       == Cardinality(Logins)
             failures  == v1
             guesses   == v3
             Invariant == /\ failures \in Nat /\ guesses \in Nat
                          /\ guesses <= failures + uncounted
                          /\ failures + underWay < Attempts + all
  <1>1. /\ G!Uncounted \subseteq G!UnderWay /\ G!UnderWay \subseteq Logins
        /\ G!Uncounted' \subseteq G!UnderWay' /\ G!UnderWay' \subseteq Logins
    BY DEF G!Uncounted, G!UnderWay
  <1>2. /\ Attempts \in Nat \ {0} /\ all \in Nat
        /\ uncounted \in Nat /\ underWay \in Nat /\ uncounted <= underWay /\ underWay <= all
        /\ uncounted' \in Nat /\ underWay' \in Nat /\ uncounted' <= underWay' /\ underWay' <= all
        /\ IsFiniteSet(G!Uncounted) /\ IsFiniteSet(G!UnderWay)
    BY <1>1, LoginsAreFinite DEF G!ConstantsAssumption
  <1>3. G!TypeOK /\ Invariant
    BY LoginsAreCounted DEF G!IInv, G!TypeOK, G!GuessesAreCounted, G!RoomIsLeft
  <1>4. G!TypeOK' /\ Invariant' => G!IInv'
    BY LoginsAreCounted DEF G!IInv, G!GuessesAreCounted, G!RoomIsLeft
  <1>5. ASSUME NEW r \in Logins, G!Try(r) PROVE G!IInv'
    <2>1. G!TypeOK' /\ failures < Attempts /\ UNCHANGED <<failures, guesses>>
      BY <1>3, <1>5 DEF G!TypeOK, G!Try, G!Goto
    <2>2. G!Uncounted' = G!Uncounted
      BY <1>3, <1>5 DEF G!TypeOK, G!Try, G!Goto, G!Uncounted
    <2> QED
      BY <1>2, <1>3, <1>4, <2>1, <2>2
  <1>6. ASSUME NEW r \in Logins, G!Authenticate(r) PROVE G!IInv'
    <2>1. G!TypeOK' /\ v2[r] = "authenticate" /\ UNCHANGED failures /\ v2' \in {[v2 EXCEPT ![r] = "clear"], [v2 EXCEPT ![r] = "add"]}
      BY <1>3, <1>6 DEF G!TypeOK, G!Authenticate, G!Goto
    <2>2. CASE v2' = [v2 EXCEPT ![r] = "clear"] /\ UNCHANGED guesses
      <3>1. G!Uncounted' = G!Uncounted /\ G!UnderWay' = G!UnderWay \ {r} /\ r \in G!UnderWay
        BY <1>3, <2>1, <2>2 DEF G!TypeOK, G!Uncounted, G!UnderWay
      <3>2. underWay' = underWay - 1
        BY <1>2, <3>1, OneLess
      <3> QED
        BY <1>2, <1>3, <1>4, <2>1, <2>2, <3>1, <3>2
    <2>3. CASE v2' = [v2 EXCEPT ![r] = "add"] /\ guesses' = guesses + 1
      <3>1. G!Uncounted' = G!Uncounted \cup {r} /\ r \notin G!Uncounted /\ G!UnderWay' = G!UnderWay
        BY <1>3, <2>1, <2>3 DEF G!TypeOK, G!Uncounted, G!UnderWay
      <3>2. uncounted' = uncounted + 1
        BY <1>2, <3>1, OneMore
      <3> QED
        BY <1>2, <1>3, <1>4, <2>1, <2>3, <3>1, <3>2
    <2> QED
      BY <1>6, <2>2, <2>3 DEF G!Authenticate, G!Goto
  <1>7. ASSUME NEW r \in Logins, G!Clear(r) PROVE G!IInv'
    <2>1. G!TypeOK' /\ failures' = 0 /\ guesses' = 0
      BY <1>3, <1>7 DEF G!TypeOK, G!Clear, G!Goto
    <2> QED
      BY <1>2, <1>4, <2>1
  <1>8. ASSUME NEW r \in Logins, G!Add(r) PROVE G!IInv'
    <2>1. G!TypeOK' /\ v2[r] = "add" /\ UNCHANGED guesses
      BY <1>3, <1>8 DEF G!TypeOK, G!Add, G!Goto
    <2>2. CASE failures = 0
      <3>1. /\ r \in G!Uncounted /\ G!Uncounted' = G!Uncounted \ {r}
            /\ r \in G!UnderWay /\ G!UnderWay' = G!UnderWay \ {r}
        BY <1>3, <1>8, <2>1, <2>2 DEF G!TypeOK, G!Add, G!Goto, G!Uncounted, G!UnderWay
      <3>2. uncounted' = uncounted - 1 /\ underWay' = underWay - 1 /\ failures' = failures + 1
        BY <1>2, <1>8, <2>2, <3>1, OneLess DEF G!Add
      <3> QED
        BY <1>2, <1>3, <1>4, <2>1, <3>2
    <2>3. CASE failures # 0
      <3>1. G!Uncounted' = G!Uncounted /\ G!UnderWay' = G!UnderWay /\ failures' = failures
        BY <1>3, <1>8, <2>1, <2>3 DEF G!TypeOK, G!Add, G!Goto, G!Uncounted, G!UnderWay
      <3> QED
        BY <1>2, <1>3, <1>4, <2>1, <3>1
    <2> QED
      BY <2>2, <2>3
  <1>9. ASSUME NEW r \in Logins, G!Increment(r) PROVE G!IInv'
    <2>1. G!TypeOK' /\ failures' = failures + 1 /\ UNCHANGED guesses
      BY <1>3, <1>9 DEF G!TypeOK, G!Increment, G!Goto
    <2>2. /\ r \in G!Uncounted /\ G!Uncounted' = G!Uncounted \ {r}
          /\ r \in G!UnderWay /\ G!UnderWay' = G!UnderWay \ {r}
      BY <1>3, <1>9 DEF G!TypeOK, G!Increment, G!Goto, G!Uncounted, G!UnderWay
    <2>3. uncounted' = uncounted - 1 /\ underWay' = underWay - 1
      BY <1>2, <2>2, OneLess
    <2> QED
      BY <1>2, <1>3, <1>4, <2>1, <2>3
  <1>10. CASE G!WindowEnds
    <2>1. G!TypeOK' /\ failures' = 0 /\ guesses' = 0
      BY <1>3, <1>10 DEF G!TypeOK, G!WindowEnds
    <2> QED
      BY <1>2, <1>4, <2>1
  <1>11. ASSUME NEW r \in Logins, G!Die(r) PROVE G!IInv'
    <2>1. /\ G!TypeOK' /\ UNCHANGED failures
          /\ guesses' = IF r \in G!Uncounted /\ guesses > 0 THEN guesses - 1 ELSE guesses
      BY <1>3, <1>11 DEF G!TypeOK, G!Die, G!Goto, G!Uncounted
    <2>2. G!Uncounted' = G!Uncounted \ {r} /\ G!UnderWay' = G!UnderWay \ {r}
      BY <1>3, <1>11 DEF G!TypeOK, G!Die, G!Goto, G!Uncounted, G!UnderWay
    <2>3. /\ r \in G!Uncounted => uncounted' = uncounted - 1
          /\ r \notin G!Uncounted => uncounted' = uncounted
      <3>1. r \notin G!Uncounted => G!Uncounted' = G!Uncounted
        BY <2>2
      <3> QED
        BY <1>2, <2>2, <3>1, OneLess
    <2>4. underWay' <= underWay
      <3>1. r \notin G!UnderWay => G!UnderWay' = G!UnderWay
        BY <2>2
      <3>2. r \in G!UnderWay => underWay' = underWay - 1
        BY <1>2, <2>2, OneLess
      <3> QED
        BY <1>2, <3>1, <3>2
    <2> QED
      BY <1>2, <1>3, <1>4, <2>1, <2>3, <2>4
  <1>12. CASE UNCHANGED G!vars
    BY <1>12 DEF G!vars, G!IInv, G!TypeOK, G!GuessesAreCounted, G!RoomIsLeft, G!Uncounted, G!UnderWay
  <1> QED
    BY <1>5, <1>6, <1>7, <1>8, <1>9, <1>10, <1>11, <1>12 DEF G!Next

LEMMA LoginsInv ==
  ASSUME G!ConstantsAssumption, G!IInv
  PROVE  G!GuessesAreBounded
  <1>1. G!Uncounted \subseteq G!UnderWay /\ G!UnderWay \subseteq Logins
    BY DEF G!Uncounted, G!UnderWay
  <1> QED
    BY <1>1, LoginsAreFinite, LoginsAreCounted
    DEF G!ConstantsAssumption, G!IInv, G!TypeOK, G!GuessesAreCounted, G!RoomIsLeft, G!GuessesAreBounded

-----------------------------------------------------------------------------
(* AccessLimits.  Of the running window a counter knows every request that *)
(* was let through, and whom the application's counter charges has passed. *)
LEMMA ChargesAreCounted ==
  /\ \A U : L!IsFiniteSet(U) <=> IsFiniteSet(U)
  /\ \A U : L!Cardinality(U) = Cardinality(U)
  BY DEF L!Cardinality, Cardinality, L!IsFiniteSet, IsFiniteSet

LEMMA ChargesAreFinite ==
  ASSUME L!ConstantsAssumption, NEW U, NEW T, U \subseteq T, T \subseteq Visits
  PROVE  /\ IsFiniteSet(U)
         /\ L!Cardinality(U) \in Nat /\ L!Cardinality(T) \in Nat
         /\ L!Cardinality(U) <= L!Cardinality(T)
  <1>1. IsFiniteSet(Visits)
    BY ChargesAreCounted DEF L!ConstantsAssumption
  <1>2. IsFiniteSet(T)
    BY <1>1, FS_Subset
  <1>3. IsFiniteSet(U) /\ Cardinality(U) <= Cardinality(T)
    BY <1>2, FS_Subset
  <1> QED
    BY <1>2, <1>3, FS_CardinalityType, ChargesAreCounted

LEMMA LimitsInit ==
  ASSUME L!ConstantsAssumption, L!Init
  PROVE  L!IInv
  <1> USE DEF L!Init
  <1>1. L!TypeOK
    BY DEF L!ConstantsAssumption, L!TypeOK, L!Windows
  <1>2. L!RunningIsCounted /\ L!ApplicationComesSecond
    BY DEF L!RunningIsCounted, L!ApplicationComesSecond
  <1>3. L!WithinLimit
    BY DEF L!WithinLimit, L!Limit, L!ConstantsAssumption
  <1>4. L!RejectedCostNothing
    <2>1. ASSUME NEW w \in L!Windows PROVE v3[<<"application", w>>] <= L!Cardinality(L!Charged(w))
      <3>1. <<"application", w>> \in L!Counters
        BY DEF L!Counters
      <3>2. L!Charged(w) \subseteq Visits
        BY DEF L!Charged
      <3> QED
        BY <3>1, <3>2, ChargesAreFinite
    <2> QED
      BY <2>1 DEF L!RejectedCostNothing
  <1> QED
    BY <1>1, <1>2, <1>3, <1>4 DEF L!IInv, L!LimitsHold

(* A counter that does not grow, or by one for one request more.           *)
LEMMA ChargesKept ==
  ASSUME L!ConstantsAssumption, L!IInv, L!TypeOK', NEW w \in L!Windows,
         L!Charged(w) \subseteq L!Charged(w)',
         \/ v3'[<<"application", w>>] <= v3[<<"application", w>>]
         \/ /\ v3'[<<"application", w>>] <= v3[<<"application", w>>] + 1
            /\ \E r \in L!Charged(w)' : r \notin L!Charged(w)
  PROVE  v3'[<<"application", w>>] <= L!Cardinality(L!Charged(w)')
  <1> DEFINE charged == L!Charged(w)
  <1>1. <<"application", w>> \in L!Counters
    BY DEF L!Counters
  <1>2. /\ v3[<<"application", w>>] \in Nat /\ v3'[<<"application", w>>] \in Nat
        /\ v3[<<"application", w>>] <= L!Cardinality(charged)
    BY <1>1 DEF L!IInv, L!TypeOK, L!LimitsHold, L!RejectedCostNothing
  <1>3. charged' \subseteq Visits
    BY DEF L!TypeOK, L!Charged
  <1>4. /\ L!Cardinality(charged) \in Nat /\ L!Cardinality(charged') \in Nat
        /\ L!Cardinality(charged) <= L!Cardinality(charged') /\ IsFiniteSet(charged)
    BY <1>3, ChargesAreFinite
  <1>5. CASE v3'[<<"application", w>>] <= v3[<<"application", w>>]
    BY <1>2, <1>4, <1>5
  <1>6. ASSUME NEW r \in charged', r \notin charged,
               v3'[<<"application", w>>] <= v3[<<"application", w>>] + 1
        PROVE  v3'[<<"application", w>>] <= L!Cardinality(charged')
    <2>1. charged \cup {r} \subseteq charged'
      BY <1>6
    <2>2. L!Cardinality(charged \cup {r}) = L!Cardinality(charged) + 1
      BY <1>4, <1>6, OneMore, ChargesAreCounted
    <2>3. L!Cardinality(charged \cup {r}) <= L!Cardinality(charged')
      BY <1>3, <2>1, ChargesAreFinite
    <2> QED
      BY <1>2, <1>4, <1>6, <2>2, <2>3
  <1> QED
    BY <1>5, <1>6

(* What counting does, whoever's counter it is.                            *)
LEMMA EnforceMoves ==
  ASSUME L!ConstantsAssumption, L!IInv, NEW r \in Visits,
         NEW k \in Clients \cup {"application"}, NEW next \in {"passed", "admitted"},
         L!Enforce(r, k, next)
  PROVE  LET c == <<k, v6[r]>> IN
         /\ c \in L!Counters /\ v6[r] \in L!Windows
         /\ v3' \in [L!Counters -> Nat]
         /\ \/ v3' = [v3 EXCEPT ![c] = v3[c] + 1] /\ UNCHANGED v9
            \/ v3' = [x \in L!Counters |-> 0] /\ v9' = v9 \cup {v1}
         /\ \/ v3[c] + 1 <= L!Limit(k) /\ v6[r] = v1 /\ v7' = [v7 EXCEPT ![c] = v7[c] + 1]
            \/ UNCHANGED v7
         /\ \/ v4' = [v4 EXCEPT ![r] = next] /\ (next = "passed" => v8' = v8 \cup {r})
                /\ (next = "admitted" => UNCHANGED v8)
            \/ v4' = [v4 EXCEPT ![r] = "rejected"] /\ UNCHANGED v8
         /\ UNCHANGED <<v1, v2, v5, v6>>
  <1>1. v6[r] \in L!Windows
    BY DEF L!IInv, L!TypeOK, L!Windows, L!ConstantsAssumption
  <1>2. <<k, v6[r]>> \in L!Counters
    BY <1>1 DEF L!Counters
  <1>3. v3 \in [L!Counters -> Nat]
    BY DEF L!IInv, L!TypeOK
  <1> DEFINE c       == <<k, v6[r]>>
             counted == [v3 EXCEPT ![c] = @ + 1]
             full    == /\ v2 = "memory"
                        /\ L!Cardinality({x \in L!Counters : counted[x] > 0}) > MaxCounters
             allowed == counted[c] <= L!Limit(k)
  <1>4. /\ v3' = IF full THEN [x \in L!Counters |-> 0] ELSE counted
        /\ v9' = IF full THEN v9 \cup {v1} ELSE v9
        /\ v7' = IF allowed /\ v6[r] = v1 THEN [v7 EXCEPT ![c] = @ + 1] ELSE v7
        /\ v8' = IF allowed /\ next = "passed" THEN v8 \cup {r} ELSE v8
        /\ v4' = [v4 EXCEPT ![r] = IF allowed THEN next ELSE "rejected"]
        /\ UNCHANGED <<v1, v2, v5, v6>>
    BY DEF L!Enforce, L!Goto
  <1>5. /\ counted = [v3 EXCEPT ![c] = v3[c] + 1] /\ counted[c] = v3[c] + 1
        /\ counted \in [L!Counters -> Nat]
    BY <1>2, <1>3
  <1> HIDE DEF full
  <1>6. \/ v3' = counted /\ UNCHANGED v9
        \/ v3' = [x \in L!Counters |-> 0] /\ v9' = v9 \cup {v1}
    BY <1>4
  <1>7. \/ v3[c] + 1 <= L!Limit(k) /\ v6[r] = v1 /\ v7' = [v7 EXCEPT ![c] = v7[c] + 1]
        \/ UNCHANGED v7
    BY <1>4, <1>5
  <1>8. \/ v4' = [v4 EXCEPT ![r] = next] /\ (next = "passed" => v8' = v8 \cup {r})
            /\ (next = "admitted" => UNCHANGED v8)
        \/ v4' = [v4 EXCEPT ![r] = "rejected"] /\ UNCHANGED v8
    BY <1>4
  <1>9. v3' \in [L!Counters -> Nat]
    BY <1>5, <1>6
  <1> HIDE DEF counted, allowed
  <1> QED
    BY <1>1, <1>2, <1>4, <1>5, <1>6, <1>7, <1>8, <1>9

LEMMA EnforceInv ==
  ASSUME L!ConstantsAssumption, L!IInv, NEW r \in Visits,
         NEW k \in Clients \cup {"application"}, NEW next \in {"passed", "admitted"},
         L!Enforce(r, k, next),
         IF k = "application" THEN v4[r] = "application" /\ next = "admitted"
                              ELSE v4[r] = "client" /\ next = "passed"
  PROVE  L!IInv'
  <1> DEFINE c == <<k, v6[r]>>
             count == v3  place == v4  window == v6  admitted == v7  passed == v8
  <1>1. /\ c \in L!Counters /\ window[r] \in L!Windows
        /\ count' \in [L!Counters -> Nat]
        /\ \/ count' = [count EXCEPT ![c] = count[c] + 1] /\ UNCHANGED v9
           \/ count' = [x \in L!Counters |-> 0] /\ v9' = v9 \cup {v1}
        /\ \/ /\ count[c] + 1 <= L!Limit(k) /\ window[r] = v1
              /\ admitted' = [admitted EXCEPT ![c] = admitted[c] + 1]
           \/ UNCHANGED admitted
        /\ \/ place' = [place EXCEPT ![r] = next] /\ (next = "passed" => passed' = passed \cup {r})
               /\ (next = "admitted" => UNCHANGED passed)
           \/ place' = [place EXCEPT ![r] = "rejected"] /\ UNCHANGED passed
        /\ UNCHANGED <<v1, v2, v5, window>>
    BY EnforceMoves
  <1>2. L!TypeOK /\ L!TypeOK'
    <2>1. L!TypeOK /\ v1 \in L!Windows
      BY DEF L!IInv, L!TypeOK
    <2>2. admitted' \in [L!Counters -> Nat]
      BY <1>1, <2>1 DEF L!TypeOK
    <2>3. /\ place' \in [Visits -> {"new", "client", "passed", "application",
                                    "admitted", "rejected", "unavailable"}]
          /\ \A q \in Visits : place'[q] = "client" => v5'[q] \in Clients
      BY <1>1, <2>1 DEF L!TypeOK
    <2>4. passed' \subseteq Visits /\ v9' \subseteq L!Windows
      BY <1>1, <2>1 DEF L!TypeOK
    <2> QED
      BY <1>1, <2>1, <2>2, <2>3, <2>4 DEF L!TypeOK
  <1>3. L!RunningIsCounted' /\ L!WithinLimit'
    <2>1. ASSUME NEW x \in L!Counters
          PROVE  /\ x[2] = v1 /\ x[2] \notin v9' => admitted'[x] <= count'[x]
                 /\ x[2] > v1 => admitted'[x] = 0
                 /\ x[2] \notin v9' => admitted'[x] <= L!Limit(x[1])
      <3>1. /\ x[2] = v1 /\ x[2] \notin v9 => admitted[x] <= count[x]
            /\ x[2] > v1 => admitted[x] = 0
            /\ x[2] \notin v9 => admitted[x] <= L!Limit(x[1])
        BY DEF L!IInv, L!RunningIsCounted, L!LimitsHold, L!WithinLimit
      <3>2. admitted[x] \in Nat /\ count[x] \in Nat /\ v1 \in Nat /\ v9 \subseteq v9'
        BY <1>1, <1>2 DEF L!TypeOK, L!Windows
      <3>3. CASE x = c
        <4>1. x[1] = k /\ x[2] = window[r] /\ L!Limit(k) \in Nat
          BY <3>3 DEF L!Limit, L!ConstantsAssumption
        <4>2. x[2] <= v1
          BY <1>2, <4>1 DEF L!TypeOK, L!Windows
        <4> HIDE DEF c
        <4>3. /\ x[2] \notin v9' => count'[x] = count[x] + 1 \/ x[2] # v1
              /\ \/ count[x] + 1 <= L!Limit(k) /\ window[r] = v1 /\ admitted'[x] = admitted[x] + 1
                 \/ admitted'[x] = admitted[x]
          BY <1>1, <1>2, <3>3 DEF L!TypeOK
        <4> QED
          BY <3>1, <3>2, <4>1, <4>2, <4>3
      <3>4. CASE x # c
        <4> HIDE DEF c
        <4>1. /\ admitted'[x] = admitted[x]
              /\ count'[x] = count[x] \/ v1 \in v9'
          BY <1>1, <1>2, <3>4 DEF L!TypeOK
        <4> QED
          BY <3>1, <3>2, <4>1
      <3> QED
        BY <3>3, <3>4
    <2> QED
      BY <1>1, <2>1 DEF L!RunningIsCounted, L!WithinLimit, L!Limit
  <1>4. L!ApplicationComesSecond'
    BY <1>1, <1>2 DEF L!IInv, L!ApplicationComesSecond, L!TypeOK
  <1>5. L!RejectedCostNothing'
    <2>1. ASSUME NEW w \in L!Windows
          PROVE  v3'[<<"application", w>>] <= L!Cardinality(L!Charged(w)')
      <3>1. L!Charged(w) \subseteq L!Charged(w)'
        BY <1>1, <1>2 DEF L!TypeOK, L!Charged
      <3>2. <<"application", w>> \in L!Counters /\ count[<<"application", w>>] \in Nat
        BY <1>2 DEF L!Counters, L!TypeOK
      <3>3. CASE <<"application", w>> = c
        <4>1. k = "application" /\ w = window[r]
          BY <3>3
        <4>2. r \in L!Charged(w)' /\ r \notin L!Charged(w)
          BY <1>1, <1>2, <4>1 DEF L!IInv, L!TypeOK, L!ApplicationComesSecond, L!Charged
        <4> HIDE DEF c
        <4>3. count'[<<"application", w>>] <= count[<<"application", w>>] + 1
          BY <1>1, <1>2, <3>2, <3>3 DEF L!TypeOK
        <4> QED
          BY <1>2, <3>1, <4>2, <4>3, ChargesKept
      <3>4. CASE <<"application", w>> # c
        <4> HIDE DEF c
        <4>1. count'[<<"application", w>>] <= count[<<"application", w>>]
          BY <1>1, <1>2, <3>2, <3>4 DEF L!TypeOK
        <4> QED
          BY <1>2, <3>1, <4>1, ChargesKept
      <3> QED
        BY <3>3, <3>4
    <2> QED
      BY <2>1 DEF L!RejectedCostNothing
  <1> QED
    BY <1>2, <1>3, <1>4, <1>5 DEF L!IInv, L!LimitsHold

LEMMA ReadClockInv ==
  ASSUME L!ConstantsAssumption, L!IInv, NEW r \in Visits, L!ReadClock(r)
  PROVE  L!IInv'
  <1> DEFINE count == v3  place == v4  window == v6
  <1>1. /\ \/ place[r] = "new" /\ place' = [place EXCEPT ![r] = "client"]
              /\ \E a \in Clients : v5' = [v5 EXCEPT ![r] = a]
           \/ place[r] = "passed" /\ place' = [place EXCEPT ![r] = "application"] /\ UNCHANGED v5
        /\ window' = [window EXCEPT ![r] = v1]
        /\ UNCHANGED <<v1, v2, count, v7, v8, v9>>
    BY DEF L!ReadClock, L!Goto
  <1>2. L!TypeOK /\ v1 \in Nat
    BY DEF L!IInv, L!TypeOK, L!Windows
  <1>3. L!TypeOK'
    BY <1>1, <1>2 DEF L!TypeOK
  <1>4. L!RunningIsCounted' /\ L!WithinLimit'
    BY <1>1 DEF L!IInv, L!LimitsHold, L!RunningIsCounted, L!WithinLimit, L!Limit
  <1>5. L!ApplicationComesSecond'
    BY <1>1, <1>2 DEF L!IInv, L!TypeOK, L!ApplicationComesSecond
  <1>6. \A w : L!Charged(w)' = L!Charged(w)
    BY <1>1, <1>2 DEF L!TypeOK, L!Charged
  <1>7. L!RejectedCostNothing'
    BY <1>1, <1>6 DEF L!IInv, L!LimitsHold, L!RejectedCostNothing
  <1> QED
    BY <1>3, <1>4, <1>5, <1>7 DEF L!IInv, L!LimitsHold

(* The answer is lost, before or after the counter has counted.            *)
LEMMA UnavailableInv ==
  ASSUME L!ConstantsAssumption, L!IInv, NEW r \in Visits, L!Unavailable(r)
  PROVE  L!IInv'
  <1> DEFINE k == IF v4[r] = "client" THEN v5[r] ELSE "application"
             c == <<k, v6[r]>>
             count == v3  place == v4  window == v6
  <1>1. /\ place[r] \in {"client", "application"}
        /\ count' = count \/ count' = [count EXCEPT ![c] = count[c] + 1]
        /\ place' = [place EXCEPT ![r] = "unavailable"]
        /\ UNCHANGED <<v1, v2, v5, window, v7, v8, v9>>
    BY DEF L!Unavailable, L!Goto
  <1>2. L!TypeOK /\ v1 \in Nat /\ window[r] \in L!Windows
    BY DEF L!IInv, L!TypeOK, L!Windows, L!ConstantsAssumption
  <1>3. k \in Clients \cup {"application"} /\ c \in L!Counters
    BY <1>1, <1>2 DEF L!TypeOK, L!Counters
  <1>4. count' \in [L!Counters -> Nat]
    <2> HIDE DEF c
    <2> QED
      BY <1>1, <1>2, <1>3 DEF L!TypeOK
  <1>5. L!TypeOK'
    BY <1>1, <1>2, <1>4 DEF L!TypeOK
  <1>6. \A x \in L!Counters : count[x] \in Nat /\ v7[x] \in Nat /\ count[x] <= count'[x]
    <2> HIDE DEF c
    <2> QED
      BY <1>1, <1>2, <1>3 DEF L!TypeOK
  <1>7. L!RunningIsCounted' /\ L!WithinLimit'
    <2>1. \A x \in L!Counters : count'[x] \in Nat
      BY <1>4
    <2> QED
      BY <1>1, <1>6, <2>1 DEF L!IInv, L!LimitsHold, L!RunningIsCounted, L!WithinLimit, L!Limit
  <1>8. L!ApplicationComesSecond'
    BY <1>1, <1>2 DEF L!IInv, L!TypeOK, L!ApplicationComesSecond
  <1>9. L!RejectedCostNothing'
    <2>1. ASSUME NEW w \in L!Windows
          PROVE  v3'[<<"application", w>>] <= L!Cardinality(L!Charged(w)')
      <3>1. L!Charged(w) \subseteq L!Charged(w)'
        BY <1>1, <1>2 DEF L!TypeOK, L!Charged
      <3>2. <<"application", w>> \in L!Counters /\ count[<<"application", w>>] \in Nat
        BY <1>2 DEF L!Counters, L!TypeOK
      <3>3. CASE <<"application", w>> = c
        <4>1. k = "application" /\ w = window[r]
          BY <3>3
        <4>2. place[r] = "application"
          BY <1>1, <1>2, <4>1 DEF L!TypeOK, L!ConstantsAssumption
        <4>3. r \in L!Charged(w)' /\ r \notin L!Charged(w)
          BY <1>1, <1>2, <4>1, <4>2 DEF L!IInv, L!TypeOK, L!ApplicationComesSecond, L!Charged
        <4> HIDE DEF c
        <4>4. count'[<<"application", w>>] <= count[<<"application", w>>] + 1
          BY <1>1, <1>2, <3>2, <3>3 DEF L!TypeOK
        <4> QED
          BY <1>5, <3>1, <4>3, <4>4, ChargesKept
      <3>4. CASE <<"application", w>> # c
        <4> HIDE DEF c
        <4>1. count'[<<"application", w>>] <= count[<<"application", w>>]
          BY <1>1, <1>2, <3>2, <3>4 DEF L!TypeOK
        <4> QED
          BY <1>5, <3>1, <4>1, ChargesKept
      <3> QED
        BY <3>3, <3>4
    <2> QED
      BY <2>1 DEF L!RejectedCostNothing
  <1> QED
    BY <1>5, <1>7, <1>8, <1>9 DEF L!IInv, L!LimitsHold

(* Only counters of windows that are over expire.                          *)
LEMMA ExpireInv ==
  ASSUME L!ConstantsAssumption, L!IInv, L!Expire
  PROVE  L!IInv'
  <1> DEFINE count == v3
  <1>1. PICK c \in L!Counters : c[2] < v1 /\ count' = [count EXCEPT ![c] = 0]
    BY DEF L!Expire
  <1>2. L!TypeOK /\ v1 \in Nat /\ UNCHANGED <<v1, v2, v4, v5, v6, v7, v8, v9>>
    BY DEF L!Expire, L!IInv, L!TypeOK, L!Windows
  <1>3. L!TypeOK'
    BY <1>1, <1>2 DEF L!TypeOK
  <1>4. L!RunningIsCounted' /\ L!WithinLimit'
    <2>1. \A x \in L!Counters : x[2] = v1 => count'[x] = count[x]
      BY <1>1, <1>2 DEF L!TypeOK
    <2> QED
      BY <1>2, <2>1 DEF L!IInv, L!LimitsHold, L!RunningIsCounted, L!WithinLimit, L!Limit
  <1>5. L!ApplicationComesSecond'
    BY <1>2 DEF L!IInv, L!ApplicationComesSecond
  <1>6. L!RejectedCostNothing'
    <2>1. ASSUME NEW w \in L!Windows
          PROVE  v3'[<<"application", w>>] <= L!Cardinality(L!Charged(w)')
      <3>1. L!Charged(w)' = L!Charged(w)
        BY <1>2 DEF L!Charged
      <3>2. <<"application", w>> \in L!Counters
        BY DEF L!Counters
      <3>3. v3'[<<"application", w>>] <= v3[<<"application", w>>]
        BY <1>1, <1>2, <3>2 DEF L!TypeOK
      <3> QED
        BY <1>3, <3>1, <3>3, ChargesKept
    <2> QED
      BY <2>1 DEF L!RejectedCostNothing
  <1> QED
    BY <1>3, <1>4, <1>5, <1>6 DEF L!IInv, L!LimitsHold

(* In a window that begins nobody was let through.                         *)
LEMMA TickInv ==
  ASSUME L!ConstantsAssumption, L!IInv, L!Tick
  PROVE  L!IInv'
  <1>1. /\ v1 < MaxWindow /\ v1' = v1 + 1
        /\ UNCHANGED <<v2, v3, v4, v5, v6, v7, v8, v9>>
    BY DEF L!Tick
  <1>2. L!TypeOK /\ v1 \in Nat /\ MaxWindow \in Nat
    BY DEF L!IInv, L!TypeOK, L!Windows, L!ConstantsAssumption
  <1>3. L!TypeOK'
    <2>1. v1' \in L!Windows
      BY <1>1, <1>2 DEF L!Windows
    <2>2. v6' \in [Visits -> 0..v1']
      BY <1>1, <1>2 DEF L!TypeOK
    <2> QED
      BY <1>1, <1>2, <2>1, <2>2 DEF L!TypeOK
  <1>4. L!RunningIsCounted'
    <2>1. \A x \in L!Counters : x[2] \in Nat /\ v3[x] \in Nat
      BY <1>2 DEF L!TypeOK, L!Counters, L!Windows
    <2> QED
      BY <1>1, <1>2, <2>1 DEF L!IInv, L!RunningIsCounted
  <1>5. L!WithinLimit' /\ L!ApplicationComesSecond'
    BY <1>1 DEF L!IInv, L!LimitsHold, L!WithinLimit, L!Limit, L!ApplicationComesSecond
  <1>6. L!RejectedCostNothing'
    BY <1>1 DEF L!IInv, L!LimitsHold, L!RejectedCostNothing, L!Charged
  <1> QED
    BY <1>3, <1>4, <1>5, <1>6 DEF L!IInv, L!LimitsHold

LEMMA LimitsNext ==
  ASSUME L!ConstantsAssumption, L!IInv, [L!Next]_(L!vars)
  PROVE  L!IInv'
  <1>1. CASE L!Tick \/ L!Expire
    BY <1>1, TickInv, ExpireInv
  <1>2. ASSUME NEW r \in Visits, L!ReadClock(r) \/ L!Unavailable(r) PROVE L!IInv'
    BY <1>2, ReadClockInv, UnavailableInv
  <1>3. ASSUME NEW r \in Visits, L!CountClient(r) PROVE L!IInv'
    <2>1. v4[r] = "client" /\ L!Enforce(r, v5[r], "passed")
      BY <1>3 DEF L!CountClient
    <2>2. v5[r] \in Clients /\ v5[r] # "application"
      BY <2>1 DEF L!IInv, L!TypeOK, L!ConstantsAssumption
    <2> QED
      BY <2>1, <2>2, EnforceInv
  <1>4. ASSUME NEW r \in Visits, L!CountApplication(r) PROVE L!IInv'
    BY <1>4, EnforceInv DEF L!CountApplication
  <1>5. CASE UNCHANGED L!vars
    <2>1. \A w : L!Charged(w)' = L!Charged(w)
      BY <1>5 DEF L!vars, L!Charged
    <2> QED
      BY <1>5, <2>1 DEF L!vars, L!IInv, L!TypeOK, L!RunningIsCounted, L!ApplicationComesSecond,
                        L!LimitsHold, L!WithinLimit, L!RejectedCostNothing, L!Limit
  <1> QED
    BY <1>1, <1>2, <1>3, <1>4, <1>5 DEF L!Next


-----------------------------------------------------------------------------
(* EvaluationData.  Until somebody edits a file, all of its rows, and all  *)
(* of the review's, are rows of one draft in which no question is asked    *)
(* twice; so what is split into dev and test stays apart.                  *)
LEMMA DataInit ==
  ASSUME D!Init
  PROVE  D!IInv
  BY DEF D!Init, D!IInv, D!TypeOK, D!UntouchedIsRead, D!CrossedByEdits, D!ReportsNameTheirCases,
         D!ComparedAreEqual, D!RowsAreDrafted, D!FilesAreSplit, D!Idle, D!Missing, D!Exists,
         D!Written

(* A command that writes a file f and is not reading one.                  *)
LEMMA RowsArePicked ==
  ASSUME D!TypeOK, NEW f \in D!Written, NEW rows \in SUBSET D!Row, v1' = [v1 EXCEPT ![f] = rows]
  PROVE  /\ v1' \in [D!Written -> SUBSET D!Row]
         /\ v1'[f] = rows
         /\ \A g \in D!Written : g # f => v1'[g] = v1[g]
  BY DEF D!TypeOK

LEMMA GenerateInv ==
  ASSUME D!IInv, D!Generate
  PROVE  D!IInv'
  <1> PICK U \in SUBSET Cases, split \in [Cases -> D!Splits] :
        D!WriteIfValid("draft", {[case |-> c, split |-> split[c], status |-> "AUTO_DRAFT"] : c \in U})
    BY DEF D!Generate
  <1> DEFINE rows == {[case |-> c, split |-> split[c], status |-> "AUTO_DRAFT"] : c \in U}
             draft == IF D!Valid(rows) THEN rows ELSE {}
  <1>1. rows \in SUBSET D!Row
    BY DEF D!Row
  <1>2. draft \in SUBSET D!Row /\ v1' = [v1 EXCEPT !["draft"] = draft]
    BY <1>1 DEF D!WriteIfValid, D!Missing
  <1>3. draft # {} => D!Valid(draft)
    OBVIOUS
  <1> HIDE DEF draft, rows
  <1>4. "draft" \in D!Written
    BY DEF D!Written
  <1>5. /\ v1' \in [D!Written -> SUBSET D!Row]
        /\ v1'["draft"] = draft
        /\ \A g \in D!Written : g # "draft" => v1'[g] = v1[g]
    BY <1>2, <1>4, RowsArePicked DEF D!IInv
  <1>6. UNCHANGED <<v2, v3, v4, v5, v6, v7, v8, v9>> /\ v3 = "none" /\ v1["draft"] = {}
    BY DEF D!Generate, D!Idle, D!Exists, D!Missing
  <1>7. ASSUME v8 = 0 PROVE D!RowsAreDrafted' /\ D!FilesAreSplit'
    <2>1. D!RowsAreDrafted /\ D!FilesAreSplit
      BY <1>7 DEF D!IInv
    <2>2. (\A f \in D!Written : v1[f] = {}) /\ v2 = {}
      BY <1>6, <2>1 DEF D!RowsAreDrafted, D!Drafted, D!IInv, D!TypeOK
    <2>3. v2' = {} /\ \A f \in D!Written \ {"draft"} : v1'[f] = {}
      BY <1>5, <1>6, <2>2
    <2>4. D!RowsAreDrafted'
      <3>1. ASSUME NEW f \in D!Written, NEW r \in v1'[f] PROVE D!Drafted(r)'
        BY <2>3, <3>1 DEF D!Drafted
      <3>2. D!Exists("draft")' => D!Valid(v1'["draft"])
        BY <1>3, <1>5 DEF D!Exists, D!Missing
      <3> QED
        BY <2>3, <3>1, <3>2 DEF D!RowsAreDrafted
    <2>5. D!FilesAreSplit'
      BY <1>6, <2>3 DEF D!FilesAreSplit, D!Written
    <2> QED
      BY <2>4, <2>5
  <1>8. D!TypeOK'
    BY <1>5, <1>6 DEF D!IInv, D!TypeOK
  <1> QED
    BY <1>6, <1>7, <1>8 DEF D!IInv, D!UntouchedIsRead, D!CrossedByEdits, D!ReportsNameTheirCases,
                            D!ComparedAreEqual, D!Idle

LEMMA ExportInv ==
  ASSUME D!IInv, D!Export
  PROVE  D!IInv'
  <1>1. /\ v2' = {[row |-> r, decision |-> ""] : r \in v1["draft"]}
        /\ UNCHANGED <<v1, v3, v4, v5, v6, v7, v8, v9>>
    BY DEF D!Export
  <1>2. D!TypeOK'
    <2>1. v1["draft"] \in SUBSET D!Row
      BY DEF D!IInv, D!TypeOK, D!Written
    <2>2. ASSUME NEW x \in v2'
          PROVE  x \in [row : D!Row, decision : {"", "APPROVE", "REJECT"}]
      <3>1. PICK r \in v1["draft"] : x = [row |-> r, decision |-> ""]
        BY <1>1
      <3>2. r \in D!Row
        BY <2>1
      <3> QED
        BY <3>1, <3>2
    <2> QED
      BY <1>1, <2>2 DEF D!IInv, D!TypeOK
  <1>3. ASSUME D!RowsAreDrafted PROVE D!RowsAreDrafted'
    <2>1. ASSUME NEW x \in v2' PROVE D!Drafted(x.row)'
      <3>1. PICK r \in v1["draft"] : x = [row |-> r, decision |-> ""]
        BY <1>1, <2>1
      <3> QED
        BY <1>1, <3>1 DEF D!Drafted
    <2> QED
      BY <1>1, <1>3, <2>1 DEF D!RowsAreDrafted, D!Drafted, D!Exists
  <1> QED
    BY <1>1, <1>2, <1>3 DEF D!IInv, D!UntouchedIsRead, D!CrossedByEdits, D!ReportsNameTheirCases,
                            D!ComparedAreEqual, D!Idle, D!FilesAreSplit

LEMMA DecideInv ==
  ASSUME D!IInv, D!Decide
  PROVE  D!IInv'
  <1> PICK decide \in [v2 -> {"APPROVE", "REJECT"}] :
        v2' = {[x EXCEPT !.decision = decide[x]] : x \in v2}
    BY DEF D!Decide
  <1>1. UNCHANGED <<v1, v3, v4, v5, v6, v7, v8, v9>>
    BY DEF D!Decide
  <1>2. v2 \in SUBSET [row : D!Row, decision : {"", "APPROVE", "REJECT"}]
    BY DEF D!IInv, D!TypeOK
  <1>3. ASSUME NEW x \in v2
        PROVE  /\ [x EXCEPT !.decision = decide[x]]
                    \in [row : D!Row, decision : {"", "APPROVE", "REJECT"}]
               /\ [x EXCEPT !.decision = decide[x]].row = x.row
    BY <1>2
  <1>4. D!TypeOK'
    BY <1>1, <1>3, ZenonT(40) DEF D!IInv, D!TypeOK
  <1>5. ASSUME D!RowsAreDrafted PROVE D!RowsAreDrafted'
    <2>1. ASSUME NEW y \in v2' PROVE D!Drafted(y.row)'
      <3>1. PICK x \in v2 : y = [x EXCEPT !.decision = decide[x]]
        BY <2>1
      <3>2. D!Drafted(y.row)
        BY <1>3, <1>5, <3>1 DEF D!RowsAreDrafted
      <3> QED
        BY <1>1, <3>2 DEF D!Drafted
    <2> QED
      BY <1>1, <1>5, <2>1 DEF D!RowsAreDrafted, D!Drafted, D!Exists
  <1> QED
    BY <1>1, <1>4, <1>5 DEF D!IInv, D!UntouchedIsRead, D!CrossedByEdits, D!ReportsNameTheirCases,
                            D!ComparedAreEqual, D!Idle, D!FilesAreSplit

LEMMA ImportInv ==
  ASSUME D!IInv, D!Import
  PROVE  D!IInv'
  <1> DEFINE rows == {[x.row EXCEPT !.status = "HUMAN_APPROVED"] :
                        x \in {y \in v2 : y.decision = "APPROVE"}}
             approved == IF D!Valid(rows) THEN rows ELSE {}
  <1>1. v2 \in SUBSET [row : D!Row, decision : {"", "APPROVE", "REJECT"}]
    BY DEF D!IInv, D!TypeOK
  <1>2. ASSUME NEW r \in rows
        PROVE  r \in D!Row /\ \E x \in v2 : r.case = x.row.case /\ r.split = x.row.split
    <2> PICK x \in v2 : r = [x.row EXCEPT !.status = "HUMAN_APPROVED"]
      OBVIOUS
    <2>1. x.row \in D!Row
      BY <1>1
    <2> QED
      BY <2>1 DEF D!Row
  <1>3. v1' = [v1 EXCEPT !["approved"] = approved] /\ approved \in SUBSET rows
    BY DEF D!Import, D!WriteIfValid, D!Missing
  <1> HIDE DEF approved, rows
  <1>4. /\ v1' \in [D!Written -> SUBSET D!Row]
        /\ v1'["approved"] = approved
        /\ \A g \in D!Written : g # "approved" => v1'[g] = v1[g]
    <2>1. "approved" \in D!Written /\ approved \in SUBSET D!Row
      BY <1>2, <1>3 DEF D!Written
    <2> QED
      BY <1>3, <2>1, RowsArePicked DEF D!IInv
  <1>5. UNCHANGED <<v2, v3, v4, v5, v6, v7, v8, v9>> /\ v3 = "none"
    BY DEF D!Import, D!Idle
  <1>6. ASSUME D!RowsAreDrafted PROVE D!RowsAreDrafted'
    <2>1. v1'["draft"] = v1["draft"]
      BY <1>4 DEF D!Written
    <2>2. ASSUME NEW f \in D!Written, NEW r \in v1'[f] PROVE D!Drafted(r)'
      BY <1>2, <1>3, <1>4, <1>6, <2>1, <2>2 DEF D!RowsAreDrafted, D!Drafted
    <2> QED
      BY <1>5, <1>6, <2>1, <2>2 DEF D!RowsAreDrafted, D!Drafted, D!Exists
  <1>7. D!FilesAreSplit => D!FilesAreSplit'
    BY <1>4, <1>5 DEF D!FilesAreSplit, D!Written
  <1>8. D!TypeOK'
    BY <1>4, <1>5 DEF D!IInv, D!TypeOK
  <1> QED
    BY <1>5, <1>6, <1>7, <1>8 DEF D!IInv, D!UntouchedIsRead, D!CrossedByEdits,
                                  D!ReportsNameTheirCases, D!ComparedAreEqual, D!Idle

(* The three commands that read a file first and write later.              *)
LEMMA ReadInv ==
  ASSUME D!IInv, NEW name \in {"split", "freeze", "evaluate"}, NEW f \in D!Written,
         D!Read(name, f), name = "freeze" => D!Of(v4', "test") = v4'
  PROVE  D!IInv'
  <1>1. /\ v3' = name /\ v4' = v1[f] /\ v5' = f /\ v9' = FALSE
        /\ UNCHANGED <<v1, v2, v6, v7, v8>>
    BY DEF D!Read
  <1>2. D!TypeOK'
    BY <1>1 DEF D!IInv, D!TypeOK
  <1>3. D!RowsAreDrafted => D!RowsAreDrafted'
    BY <1>1 DEF D!RowsAreDrafted, D!Drafted, D!Exists
  <1>4. D!FilesAreSplit => D!FilesAreSplit'
    BY <1>1 DEF D!FilesAreSplit, D!Of
  <1> QED
    BY <1>1, <1>2, <1>3, <1>4 DEF D!IInv, D!UntouchedIsRead, D!CrossedByEdits,
                                  D!ReportsNameTheirCases, D!ComparedAreEqual, D!Idle

(* Rows are split: each output is a part of the rows that were approved.   *)
LEMMA SplitWriteInv ==
  ASSUME D!IInv, D!SplitWrite
  PROVE  D!IInv'
  <1> DEFINE dev == D!Of(v1["approved"], "dev")
             test == D!Of(v1["approved"], "test")
  <1>1. /\ v3' = "none" /\ v4' = {} /\ v5' = "draft" /\ v9' = FALSE
        /\ UNCHANGED <<v2, v6, v7, v8>>
    BY DEF D!SplitWrite, D!Done
  <1>2. \/ v1' = [v1 EXCEPT !["dev"] = dev, !["test"] = test]
        \/ v1' = [v1 EXCEPT !["dev"] = dev]
        \/ v1' = v1
    BY DEF D!SplitWrite
  <1>3. v1 \in [D!Written -> SUBSET D!Row]
    BY DEF D!IInv, D!TypeOK
  <1>4. /\ dev \subseteq v1["approved"] /\ test \subseteq v1["approved"]
        /\ v1["approved"] \subseteq D!Row
        /\ \A r \in dev : r.split = "dev"
    BY <1>3 DEF D!Of, D!Written
  <1> HIDE DEF dev, test
  <1>5. /\ v1' \in [D!Written -> SUBSET D!Row]
        /\ \A f \in D!Written : v1'[f] \subseteq v1[f] \cup v1["approved"]
        /\ v1'["dev"] \in {dev, v1["dev"]}
        /\ v1'["draft"] = v1["draft"] /\ v1'["frozen"] = v1["frozen"]
    BY <1>2, <1>3, <1>4 DEF D!Written
  <1>6. D!RowsAreDrafted => D!RowsAreDrafted'
    <2> SUFFICES ASSUME D!RowsAreDrafted PROVE D!RowsAreDrafted'
      OBVIOUS
    <2>1. ASSUME NEW f \in D!Written, NEW r \in v1'[f] PROVE D!Drafted(r)'
      <3>1. D!Drafted(r)
        BY <1>5, <2>1 DEF D!RowsAreDrafted, D!Written
      <3> QED
        BY <1>5, <3>1 DEF D!Drafted
    <2> QED
      BY <1>1, <1>5, <2>1 DEF D!RowsAreDrafted, D!Drafted, D!Exists
  <1>7. D!FilesAreSplit => D!FilesAreSplit'
    BY <1>1, <1>4, <1>5 DEF D!FilesAreSplit
  <1>8. D!TypeOK'
    BY <1>1, <1>5 DEF D!IInv, D!TypeOK, D!Written
  <1> QED
    BY <1>1, <1>6, <1>7, <1>8 DEF D!IInv, D!UntouchedIsRead, D!CrossedByEdits,
                                  D!ReportsNameTheirCases, D!ComparedAreEqual, D!Idle

(* The file is frozen as it is by then, which nobody has edited.           *)
LEMMA FreezeWriteInv ==
  ASSUME D!IInv, D!FreezeWrite
  PROVE  D!IInv'
  <1>1. /\ v3' = "none" /\ v4' = {} /\ v5' = "draft" /\ v9' = FALSE
        /\ v3 = "freeze" /\ v1' = [v1 EXCEPT !["frozen"] = v1[v5]]
        /\ UNCHANGED <<v2, v6, v7, v8>>
    BY DEF D!FreezeWrite, D!Done
  <1>2. v5 \in D!Written /\ v1[v5] \in SUBSET D!Row /\ "frozen" \in D!Written
    BY DEF D!IInv, D!TypeOK, D!Written
  <1>3. /\ v1' \in [D!Written -> SUBSET D!Row]
        /\ v1'["frozen"] = v1[v5]
        /\ \A g \in D!Written : g # "frozen" => v1'[g] = v1[g]
    BY <1>1, <1>2, RowsArePicked DEF D!IInv
  <1>4. ASSUME v8 = 0 PROVE D!RowsAreDrafted' /\ D!FilesAreSplit'
    <2>1. D!RowsAreDrafted /\ D!FilesAreSplit /\ v4 = v1[v5]
      BY <1>1, <1>4 DEF D!IInv, D!UntouchedIsRead, D!CrossedByEdits, D!Idle
    <2>2. v1'["draft"] = v1["draft"] /\ v1'["dev"] = v1["dev"]
      BY <1>3 DEF D!Written
    <2>3. ASSUME NEW f \in D!Written, NEW r \in v1'[f] PROVE D!Drafted(r)'
      <3>1. D!Drafted(r)
        BY <1>2, <1>3, <2>1, <2>3 DEF D!RowsAreDrafted
      <3> QED
        BY <2>2, <3>1 DEF D!Drafted
    <2>4. D!RowsAreDrafted'
      BY <1>1, <2>1, <2>2, <2>3 DEF D!RowsAreDrafted, D!Drafted, D!Exists
    <2>5. D!FilesAreSplit'
      BY <1>1, <1>3, <2>1, <2>2 DEF D!FilesAreSplit
    <2> QED
      BY <2>4, <2>5
  <1>5. D!TypeOK'
    BY <1>1, <1>3 DEF D!IInv, D!TypeOK, D!Written
  <1> QED
    BY <1>1, <1>4, <1>5 DEF D!IInv, D!UntouchedIsRead, D!CrossedByEdits,
                            D!ReportsNameTheirCases, D!ComparedAreEqual, D!Idle

LEMMA EvaluateReportInv ==
  ASSUME D!IInv, D!EvaluateReport
  PROVE  D!IInv'
  <1> DEFINE report == [hash |-> v1[v5], cases |-> v4, crossed |-> v9]
  <1>1. /\ v3' = "none" /\ v4' = {} /\ v5' = "draft" /\ v9' = FALSE
        /\ v3 = "evaluate" /\ v6' = v6 \cup {report}
        /\ UNCHANGED <<v1, v2, v7, v8>>
    BY DEF D!EvaluateReport, D!Done
  <1>2. report \in [hash : SUBSET D!Row, cases : SUBSET D!Row, crossed : BOOLEAN]
    BY DEF D!IInv, D!TypeOK
  <1>3. report.crossed \/ report.cases = report.hash
    BY <1>1 DEF D!IInv, D!UntouchedIsRead, D!Idle
  <1> HIDE DEF report
  <1>4. D!TypeOK'
    BY <1>1, <1>2 DEF D!IInv, D!TypeOK, D!Written
  <1>5. D!RowsAreDrafted => D!RowsAreDrafted'
    BY <1>1 DEF D!RowsAreDrafted, D!Drafted, D!Exists
  <1>6. D!FilesAreSplit => D!FilesAreSplit'
    BY <1>1 DEF D!FilesAreSplit
  <1> QED
    BY <1>1, <1>3, <1>4, <1>5, <1>6 DEF D!IInv, D!UntouchedIsRead, D!CrossedByEdits,
                                        D!ReportsNameTheirCases, D!ComparedAreEqual, D!Idle

LEMMA CompareInv ==
  ASSUME D!IInv, D!Compare
  PROVE  D!IInv'
  <1>1. /\ \E a, b \in v6 : a.hash = b.hash /\ v7' = {a, b}
        /\ UNCHANGED <<v1, v2, v3, v4, v5, v6, v8, v9>>
    BY DEF D!Compare
  <1>2. D!TypeOK'
    BY <1>1 DEF D!IInv, D!TypeOK
  <1>3. D!ComparedAreEqual'
    BY <1>1 DEF D!ComparedAreEqual
  <1> QED
    BY <1>1, <1>2, <1>3 DEF D!IInv, D!UntouchedIsRead, D!CrossedByEdits, D!ReportsNameTheirCases,
                            D!Idle, D!RowsAreDrafted, D!FilesAreSplit, D!Drafted, D!Exists

LEMMA EditInv ==
  ASSUME D!IInv, D!Edit
  PROVE  D!IInv'
  <1> PICK f \in D!Written :
        /\ \E r \in v1[f], c \in Cases :
             v1' = [v1 EXCEPT ![f] = (@ \ {r}) \cup {[r EXCEPT !.case = c]}]
        /\ v9' = (v9 \/ (~D!Idle /\ f = v5))
    BY DEF D!Edit
  <1> PICK r \in v1[f], c \in Cases :
        v1' = [v1 EXCEPT ![f] = (v1[f] \ {r}) \cup {[r EXCEPT !.case = c]}]
    OBVIOUS
  <1>1. v8' = v8 + 1 /\ UNCHANGED <<v2, v3, v4, v5, v6, v7>>
    BY DEF D!Edit
  <1>2. (v1[f] \ {r}) \cup {[r EXCEPT !.case = c]} \in SUBSET D!Row
    <2>1. v1[f] \in SUBSET D!Row
      BY DEF D!IInv, D!TypeOK
    <2>2. [r EXCEPT !.case = c] \in D!Row
      BY <2>1 DEF D!Row
    <2> QED
      BY <2>1, <2>2
  <1>3. v1' \in [D!Written -> SUBSET D!Row] /\ \A g \in D!Written : g # f => v1'[g] = v1[g]
    BY <1>2, RowsArePicked DEF D!IInv
  <1>4. v8' \in Nat /\ v8' # 0
    <2>1. v8 \in Nat
      BY DEF D!IInv, D!TypeOK
    <2> QED
      BY <1>1, <2>1
  <1>5. v9' \in BOOLEAN
    BY DEF D!IInv, D!TypeOK
  <1>6. D!TypeOK'
    BY <1>1, <1>3, <1>4, <1>5 DEF D!IInv, D!TypeOK
  <1>7. D!UntouchedIsRead'
    BY <1>1, <1>3 DEF D!IInv, D!TypeOK, D!UntouchedIsRead, D!Idle
  <1> QED
    BY <1>1, <1>4, <1>6, <1>7 DEF D!IInv, D!CrossedByEdits, D!ReportsNameTheirCases,
                                  D!ComparedAreEqual

LEMMA DataNext ==
  ASSUME D!IInv, [D!Next]_(D!vars)
  PROVE  D!IInv'
  <1>1. CASE D!SplitRead
    BY <1>1, ReadInv DEF D!SplitRead, D!Written
  <1>2. CASE D!FreezeRead
    BY <1>2, ReadInv DEF D!FreezeRead, D!Written
  <1>3. CASE D!EvaluateRead
    BY <1>3, ReadInv DEF D!EvaluateRead
  <1>4. CASE UNCHANGED D!vars
    BY <1>4 DEF D!vars, D!IInv, D!TypeOK, D!UntouchedIsRead, D!CrossedByEdits, D!Idle, D!Exists,
                D!ReportsNameTheirCases, D!ComparedAreEqual, D!RowsAreDrafted, D!FilesAreSplit,
                D!Drafted
  <1> QED
    BY <1>1, <1>2, <1>3, <1>4, GenerateInv, ExportInv, DecideInv, ImportInv, SplitWriteInv,
       FreezeWriteInv, EvaluateReportInv, CompareInv, EditInv
    DEF D!Next

(* Two rows of the draft, one of dev and one of the test, are two rows.    *)
LEMMA DataInv ==
  ASSUME D!IInv
  PROVE  D!FrozenTestIsBlind /\ D!LikeIsComparedWithLike
  <1>1. ASSUME v8 = 0, NEW r \in v1["frozen"], NEW s \in v1["dev"]
        PROVE  ~D!Duplicates(r.case, s.case)
    <2>1. D!RowsAreDrafted /\ r.split = "test" /\ s.split = "dev"
      BY <1>1 DEF D!IInv, D!FilesAreSplit
    <2>2. PICK d \in v1["draft"] : d.case = r.case /\ d.split = "test"
      BY <2>1 DEF D!RowsAreDrafted, D!Drafted, D!Written
    <2>3. PICK e \in v1["draft"] : e.case = s.case /\ e.split = "dev"
      BY <2>1 DEF D!RowsAreDrafted, D!Drafted, D!Written
    <2>4. d # e /\ D!Valid(v1["draft"])
      BY <2>1, <2>2, <2>3 DEF D!RowsAreDrafted, D!Exists, D!Missing
    <2> QED
      BY <2>2, <2>3, <2>4 DEF D!Valid
  <1>2. D!LikeIsComparedWithLike
    BY DEF D!IInv, D!TypeOK, D!LikeIsComparedWithLike, D!ReportsNameTheirCases, D!ComparedAreEqual
  <1> QED
    BY <1>1, <1>2 DEF D!FrozenTestIsBlind

-----------------------------------------------------------------------------
(* EvaluationScores.  Sums whose weights decrease compare as the sums of   *)
(* their first terms do: p and q are the sums of a and b, weighted by disc, *)
(* and lead is how much more the first terms of a are worth than those of b.*)
Scaled(x, d) == x * d

Weights(a, n) == a \in [1..n -> Int]

Summed(p, a, disc, n) ==
  p \in [0..n -> Int] /\ p[0] = 0 /\ \A k \in 1..n : p[k] = p[k - 1] + Scaled(a[k], disc[k])

Leads(lead, a, b, n) ==
  /\ lead \in [0..n -> Int] /\ lead[0] = 0
  /\ \A k \in 1..n : lead[k] = lead[k - 1] + a[k] - b[k]
  /\ \A k \in 0..n : lead[k] <= 0

Decreasing(disc, n) ==
  disc \in [1..n -> Nat \ {0}] /\ \A j, k \in 1..n : j < k => disc[k] < disc[j]

(* One turn: from sums p and q behind the weight e to those at d.          *)
LEMMA OneTurn ==
  ASSUME NEW a \in Int, NEW b \in Int, NEW x \in Int, NEW p \in Int, NEW q \in Int,
         NEW d \in Int, NEW e \in Int, 0 < d, d < e, x <= 0, p - q <= Scaled(x, e)
  PROVE  LET y == x + a - b
             v == (p + Scaled(a, d)) - (q + Scaled(b, d))
         IN  v <= Scaled(y, d) /\ (v = Scaled(y, d) => p - q = Scaled(x, e) /\ x = 0)
  <1> DEFINE y  == x + a - b
             xe == x * e
             xd == x * d
             ad == a * d
             bd == b * d
             yd == y * d
  <1>1. xe \in Int /\ xd \in Int /\ ad \in Int /\ bd \in Int /\ yd \in Int
    OBVIOUS
  <1>2. yd = xd + ad - bd
    OBVIOUS
  <1>3. xe <= xd
    OBVIOUS
  <1>4. x < 0 => xe < xd
    OBVIOUS
  <1>5. p - q <= xe
    BY DEF Scaled
  <1> HIDE DEF y, xe, xd, ad, bd, yd
  <1>6. (p + ad) - (q + bd) <= yd /\ ((p + ad) - (q + bd) = yd => p - q = xe /\ x = 0)
    BY <1>1, <1>2, <1>3, <1>4, <1>5
  <1> QED
    BY <1>6 DEF y, xe, ad, bd, yd, Scaled

LEMMA FirstTurn ==
  ASSUME NEW a \in Int, NEW b \in Int, NEW d \in Int
  PROVE  (0 + Scaled(a, d)) - (0 + Scaled(b, d)) = Scaled(0 + a - b, d)
  BY DEF Scaled

LEMMA LastTurn ==
  ASSUME NEW x \in Int, NEW d \in Int, 0 < d, x <= 0
  PROVE  Scaled(x, d) \in Int /\ Scaled(x, d) <= 0 /\ (Scaled(x, d) = 0 => x = 0)
  <1>1. x * d \in Int /\ x * d <= 0
    OBVIOUS
  <1>2. x < 0 => x * d < 0
    OBVIOUS
  <1> QED
    BY <1>1, <1>2 DEF Scaled

LEMMA SumsCompare ==
  ASSUME NEW n \in Nat, NEW disc, Decreasing(disc, n),
         NEW a, Weights(a, n), NEW b, Weights(b, n),
         NEW p, Summed(p, a, disc, n), NEW q, Summed(q, b, disc, n),
         NEW lead, Leads(lead, a, b, n)
  PROVE  p[n] <= q[n] /\ (p[n] = q[n] => \A k \in 1..n : a[k] = b[k])
  <1> DEFINE Row(k) == /\ p[k] - q[k] <= Scaled(lead[k], disc[k])
                       /\ p[k] - q[k] = Scaled(lead[k], disc[k]) => \A j \in 1..(k - 1) : lead[j] = 0
             T == {k \in 0..n : k = 0 \/ Row(k)}
  <1>1. /\ \A k \in 0..n : p[k] \in Int /\ q[k] \in Int /\ lead[k] \in Int /\ lead[k] <= 0
        /\ p[0] = 0 /\ q[0] = 0 /\ lead[0] = 0
    BY DEF Summed, Leads
  <1>2. \A k \in 1..n : /\ p[k] = p[k - 1] + Scaled(a[k], disc[k])
                        /\ q[k] = q[k - 1] + Scaled(b[k], disc[k])
                        /\ lead[k] = lead[k - 1] + a[k] - b[k]
    BY Zenon DEF Summed, Leads
  <1>3. \A k \in 1..n : a[k] \in Int /\ b[k] \in Int /\ disc[k] \in Int /\ 0 < disc[k]
    BY DEF Decreasing, Weights
  <1>4. \A j, k \in 1..n : j < k => disc[k] < disc[j]
    BY Zenon DEF Decreasing
  <1>5. ASSUME NEW k \in 1..n, k - 1 \in T PROVE Row(k)
    <2>1. k \in 0..n /\ k - 1 \in 0..n
      OBVIOUS
    <2>2. CASE k = 1
      <3>1. /\ p[1] = 0 + Scaled(a[1], disc[1]) /\ q[1] = 0 + Scaled(b[1], disc[1])
            /\ lead[1] = 0 + a[1] - b[1]
        <4>1. 1 \in 1..n /\ 1 - 1 = 0
          BY <2>2
        <4>2. p[1 - 1] = 0 /\ q[1 - 1] = 0 /\ lead[1 - 1] = 0
          BY <1>1, <4>1
        <4> QED
          BY <1>2, <4>1, <4>2
      <3>2. a[1] \in Int /\ b[1] \in Int /\ disc[1] \in Int
        BY <1>3, <2>2
      <3>3. p[1] - q[1] = Scaled(lead[1], disc[1])
        <4>1. (0 + Scaled(a[1], disc[1])) - (0 + Scaled(b[1], disc[1])) = Scaled(0 + a[1] - b[1], disc[1])
          BY <3>2, FirstTurn
        <4> QED
          BY <3>1, <4>1, Zenon
      <3>4. p[1] \in Int /\ q[1] \in Int
        BY <1>1, <2>1, <2>2
      <3>5. p[1] - q[1] <= Scaled(lead[1], disc[1])
        BY <3>3, <3>4
      <3>6. \A j \in 1..(k - 1) : lead[j] = 0
        BY <2>2
      <3> QED
        BY <2>2, <3>5, <3>6
    <2>3. CASE k # 1
      <3>1. k - 1 \in 1..n /\ k - 1 < k
        BY <2>3
      <3> DEFINE j == k - 1
      <3>2. Row(j) /\ j \in 0..n
        BY <1>5, <2>1, <2>3
      <3>3. disc[k] < disc[j] /\ disc[j] \in Int /\ disc[k] \in Int /\ 0 < disc[k]
        BY <1>3, <1>4, <3>1
      <3>4. /\ p[j] \in Int /\ q[j] \in Int /\ lead[j] \in Int /\ lead[j] <= 0
            /\ a[k] \in Int /\ b[k] \in Int
        BY <1>1, <1>3, <2>1
      <3>5. p[j] - q[j] <= Scaled(lead[j], disc[j])
        BY <3>2
      <3>6. /\ (p[j] + Scaled(a[k], disc[k])) - (q[j] + Scaled(b[k], disc[k]))
                  <= Scaled(lead[j] + a[k] - b[k], disc[k])
            /\ (p[j] + Scaled(a[k], disc[k])) - (q[j] + Scaled(b[k], disc[k]))
                  = Scaled(lead[j] + a[k] - b[k], disc[k])
               => p[j] - q[j] = Scaled(lead[j], disc[j]) /\ lead[j] = 0
        <4> HIDE DEF j
        <4> QED
          BY <3>3, <3>4, <3>5, OneTurn
      <3>7. /\ p[k] = p[j] + Scaled(a[k], disc[k]) /\ q[k] = q[j] + Scaled(b[k], disc[k])
            /\ lead[k] = lead[j] + a[k] - b[k]
        BY <1>2
      <3>8. /\ p[k] - q[k] <= Scaled(lead[k], disc[k])
            /\ p[k] - q[k] = Scaled(lead[k], disc[k]) => 
                 p[j] - q[j] = Scaled(lead[j], disc[j]) /\ lead[j] = 0
        BY <3>6, <3>7, Zenon
      <3>9. ASSUME p[k] - q[k] = Scaled(lead[k], disc[k]) PROVE \A i \in 1..(k - 1) : lead[i] = 0
        <4>1. lead[j] = 0 /\ \A i \in 1..(j - 1) : lead[i] = 0
          BY <3>2, <3>8, <3>9
        <4>2. \A i \in 1..(k - 1) : i = j \/ i \in 1..(j - 1)
          OBVIOUS
        <4> HIDE DEF j
        <4> QED
          BY <4>1, <4>2
      <3> QED
        BY <3>8, <3>9
    <2> QED
      BY <2>2, <2>3
  <1>6. \A k \in 0..n : k \in T
    <2>1. 0 \in T
      OBVIOUS
    <2>2. \A k \in 1..n : k - 1 \in T => k \in T
      <3> TAKE k \in 1..n
      <3> HAVE k - 1 \in T
      <3>1. Row(k) /\ k \in 0..n
        BY <1>5
      <3> HIDE DEF Row
      <3> QED
        BY <3>1
    <2> HIDE DEF T
    <2> QED
      BY <2>1, <2>2, UpTo
  <1>7. CASE n = 0
    BY <1>1, <1>7
  <1>8. CASE n # 0
    <2>1. n \in 1..n /\ n \in 0..n
      BY <1>8
    <2>2. Row(n)
      <3> HIDE DEF Row
      <3> QED
        BY <1>6, <1>8, <2>1
    <2>3. /\ lead[n] \in Int /\ lead[n] <= 0 /\ disc[n] \in Int /\ 0 < disc[n]
          /\ p[n] \in Int /\ q[n] \in Int
      BY <1>1, <1>3, <2>1
    <2>4. /\ Scaled(lead[n], disc[n]) \in Int /\ Scaled(lead[n], disc[n]) <= 0
          /\ Scaled(lead[n], disc[n]) = 0 => lead[n] = 0
      BY <2>3, LastTurn
    <2>5. p[n] <= q[n]
      BY <2>2, <2>3, <2>4
    <2>6. ASSUME p[n] = q[n] PROVE \A k \in 1..n : a[k] = b[k]
      <3>1. lead[n] = 0 /\ p[n] - q[n] = Scaled(lead[n], disc[n])
        BY <2>2, <2>3, <2>4, <2>6
      <3>2. \A j \in 1..(n - 1) : lead[j] = 0
        BY <2>2, <3>1
      <3>3. \A j \in 0..n : j = 0 \/ j = n \/ j \in 1..(n - 1)
        OBVIOUS
      <3>4. \A j \in 0..n : lead[j] = 0
        BY <1>1, <3>1, <3>2, <3>3
      <3> TAKE k \in 1..n
      <3>5. k \in 0..n /\ k - 1 \in 0..n
        OBVIOUS
      <3>6. lead[k] = 0 /\ lead[k - 1] = 0 /\ lead[k] = lead[k - 1] + a[k] - b[k]
        BY <1>2, <3>4, <3>5
      <3>7. a[k] \in Int /\ b[k] \in Int
        BY <1>3
      <3>8. PICK x \in Int : x = a[k]
        BY <3>7
      <3>9. PICK y \in Int : y = b[k]
        BY <3>7
      <3>10. 0 = 0 + x - y
        BY <3>6, <3>8, <3>9, Zenon
      <3>11. x = y
        BY <3>10
      <3> QED
        BY <3>8, <3>9, <3>11
    <2> QED
      BY <2>5, <2>6
  <1> QED
    BY <1>7, <1>8

(* How many of the first k grades reach t.                                 *)
Reaching(g, t, k) == {j \in 1..k : g[j] >= t}
Count(g, t, k) == Cardinality(Reaching(g, t, k))

LEMMA CountGrows ==
  ASSUME NEW n \in Nat, NEW g \in [1..n -> 0..2], NEW t \in Nat
  PROVE  /\ \A k \in 0..n : IsFiniteSet(Reaching(g, t, k)) /\ Count(g, t, k) \in Nat
         /\ Count(g, t, 0) = 0
         /\ \A k \in 1..n : Count(g, t, k) = Count(g, t, k - 1) + (IF g[k] >= t THEN 1 ELSE 0)
  <1>1. ASSUME NEW k \in 0..n PROVE IsFiniteSet(Reaching(g, t, k)) /\ Count(g, t, k) \in Nat
    <2>1. Reaching(g, t, k) \subseteq 1..k
      BY DEF Reaching
    <2>2. IsFiniteSet(1..k)
      BY FS_Interval
    <2>3. IsFiniteSet(Reaching(g, t, k))
      BY <2>1, <2>2, FS_Subset
    <2> QED
      BY <2>3, FS_CardinalityType DEF Count
  <1>2. Count(g, t, 0) = 0
    <2>1. Reaching(g, t, 0) = {}
      BY DEF Reaching
    <2> QED
      BY <2>1, FS_EmptySet DEF Count
  <1>3. ASSUME NEW k \in 1..n
        PROVE  Count(g, t, k) = Count(g, t, k - 1) + (IF g[k] >= t THEN 1 ELSE 0)
    <2>1. k - 1 \in 0..n /\ k \notin Reaching(g, t, k - 1)
      BY DEF Reaching
    <2>2. IsFiniteSet(Reaching(g, t, k - 1)) /\ Count(g, t, k - 1) \in Nat
      BY <1>1, <2>1
    <2>3. CASE g[k] >= t
      <3>1. Reaching(g, t, k) = Reaching(g, t, k - 1) \cup {k}
        BY <2>3 DEF Reaching
      <3>2. Cardinality(Reaching(g, t, k - 1) \cup {k}) = Cardinality(Reaching(g, t, k - 1)) + 1
        BY <2>1, <2>2, FS_AddElement
      <3> QED
        BY <2>3, <3>1, <3>2 DEF Count
    <2>4. CASE ~(g[k] >= t)
      <3>1. Reaching(g, t, k) = Reaching(g, t, k - 1)
        <4>1. \A j \in 1..k : j \in 1..(k - 1) \/ j = k
          OBVIOUS
        <4> QED
          BY <2>4, <4>1 DEF Reaching
      <3> QED
        BY <2>2, <2>4, <3>1 DEF Count
    <2> QED
      BY <2>3, <2>4
  <1> QED
    BY <1>1, <1>2, <1>3

LEMMA WorthCounts ==
  ASSUME NEW x \in 0..2
  PROVE  /\ S!Worth(x) = (IF x >= 1 THEN 1 ELSE 0) + 2 * (IF x >= 2 THEN 1 ELSE 0)
         /\ S!Worth(x) \in Int /\ S!Worth(x) >= 0 /\ (S!Worth(x) = 0 => x = 0)
  <1>1. 2 ^ 0 = 1 /\ 2 ^ 1 = 2 /\ 2 ^ 2 = 4
    BY SMT
  <1>2. x = 0 \/ x = 1 \/ x = 2
    OBVIOUS
  <1>3. CASE x = 0
    BY <1>1, <1>3 DEF S!Worth
  <1>4. CASE x = 1
    BY <1>1, <1>4 DEF S!Worth
  <1>5. CASE x = 2
    BY <1>1, <1>5 DEF S!Worth
  <1> QED
    BY <1>2, <1>3, <1>4, <1>5

LEMMA WorthTells ==
  ASSUME NEW x \in 0..2, NEW y \in 0..2, S!Worth(x) = S!Worth(y)
  PROVE  x = y
  <1>1. S!Worth(x) = (IF x >= 1 THEN 1 ELSE 0) + 2 * (IF x >= 2 THEN 1 ELSE 0)
    BY WorthCounts
  <1>2. S!Worth(y) = (IF y >= 1 THEN 1 ELSE 0) + 2 * (IF y >= 2 THEN 1 ELSE 0)
    BY WorthCounts
  <1>3. (x = 0 \/ x = 1 \/ x = 2) /\ (y = 0 \/ y = 1 \/ y = 2)
    OBVIOUS
  <1> DEFINE one(z) == IF z >= 1 THEN 1 ELSE 0
             two(z) == IF z >= 2 THEN 1 ELSE 0
  <1>4. one(0) + 2 * two(0) = 0 /\ one(1) + 2 * two(1) = 1 /\ one(2) + 2 * two(2) = 3
    OBVIOUS
  <1>5. one(x) + 2 * two(x) = one(y) + 2 * two(y)
    BY <1>1, <1>2
  <1> HIDE DEF one, two
  <1> QED
    BY <1>3, <1>4, <1>5

Worths(g, n) == [k \in 1..n |-> S!Worth(g[k])]

Behind(g, h, n) ==
  \A k \in 0..n : Count(g, 1, k) <= Count(h, 1, k) /\ Count(g, 2, k) <= Count(h, 2, k)

(* Of two lists of grades, the one whose first grades never reach as many  *)
(* thresholds is worth less.                                               *)
LEMMA GradesCompare ==
  ASSUME NEW n \in Nat, NEW disc, Decreasing(disc, n),
         NEW g \in [1..n -> 0..2], NEW h \in [1..n -> 0..2],
         NEW p, Summed(p, Worths(g, n), disc, n), NEW q, Summed(q, Worths(h, n), disc, n),
         Behind(g, h, n)
  PROVE  p[n] <= q[n] /\ (p[n] = q[n] => \A k \in 1..n : g[k] = h[k])
  <1> DEFINE a == Worths(g, n)
             b == Worths(h, n)
             lead == [k \in 0..n |-> Count(g, 1, k) - Count(h, 1, k)
                                      + 2 * (Count(g, 2, k) - Count(h, 2, k))]
  <1>1. /\ \A k \in 0..n : /\ Count(g, 1, k) \in Int /\ Count(h, 1, k) \in Int
                           /\ Count(g, 2, k) \in Int /\ Count(h, 2, k) \in Int
        /\ Count(g, 1, 0) = 0 /\ Count(h, 1, 0) = 0 /\ Count(g, 2, 0) = 0 /\ Count(h, 2, 0) = 0
    <2>1. ASSUME NEW t \in {1, 2} 
          PROVE  /\ \A k \in 0..n : Count(g, t, k) \in Int /\ Count(h, t, k) \in Int
                 /\ Count(g, t, 0) = 0 /\ Count(h, t, 0) = 0
      <3>1. t \in Nat
        OBVIOUS
      <3>2. \A k \in 0..n : Count(g, t, k) \in Nat
        BY <3>1, CountGrows
      <3>3. \A k \in 0..n : Count(h, t, k) \in Nat
        BY <3>1, CountGrows
      <3>4. Count(g, t, 0) = 0
        BY <3>1, CountGrows
      <3>5. Count(h, t, 0) = 0
        BY <3>1, CountGrows
      <3> QED
        BY <3>2, <3>3, <3>4, <3>5
    <2> QED
      BY <2>1
  <1>2. \A k \in 1..n : g[k] \in 0..2 /\ h[k] \in 0..2 /\ a[k] = S!Worth(g[k]) /\ b[k] = S!Worth(h[k])
    BY DEF Worths
  <1>3. Weights(a, n) /\ Weights(b, n)
    BY <1>2, WorthCounts DEF Worths, Weights
  <1>4. \A k \in 0..n : lead[k] \in Int /\ lead[k] <= 0
    BY <1>1 DEF Behind
  <1>5. \A k \in 1..n : lead[k] = lead[k - 1] + a[k] - b[k]
    <2> TAKE k \in 1..n
    <2>1. k \in 0..n /\ k - 1 \in 0..n
      OBVIOUS
    <2> DEFINE one(x) == IF x >= 1 THEN 1 ELSE 0
               two(x) == IF x >= 2 THEN 1 ELSE 0
    <2>2. /\ Count(g, 1, k) = Count(g, 1, k - 1) + one(g[k])
          /\ Count(g, 2, k) = Count(g, 2, k - 1) + two(g[k])
          /\ Count(h, 1, k) = Count(h, 1, k - 1) + one(h[k])
          /\ Count(h, 2, k) = Count(h, 2, k - 1) + two(h[k])
      BY CountGrows
    <2>3. a[k] = one(g[k]) + 2 * two(g[k]) /\ b[k] = one(h[k]) + 2 * two(h[k])
      BY <1>2, WorthCounts
    <2>6. one(g[k]) \in Int /\ two(g[k]) \in Int /\ one(h[k]) \in Int /\ two(h[k]) \in Int
      OBVIOUS
    <2>4. /\ lead[k] = Count(g, 1, k) - Count(h, 1, k) + 2 * (Count(g, 2, k) - Count(h, 2, k))
          /\ lead[k - 1] = Count(g, 1, k - 1) - Count(h, 1, k - 1)
                             + 2 * (Count(g, 2, k - 1) - Count(h, 2, k - 1))
      BY <2>1
    <2>5. /\ Count(g, 1, k - 1) \in Int /\ Count(h, 1, k - 1) \in Int
          /\ Count(g, 2, k - 1) \in Int /\ Count(h, 2, k - 1) \in Int
      BY <1>1, <2>1
    <2> HIDE DEF lead, a, b, one, two
    <2>7. (Count(g, 1, k - 1) + one(g[k])) - (Count(h, 1, k - 1) + one(h[k]))
             + 2 * ((Count(g, 2, k - 1) + two(g[k])) - (Count(h, 2, k - 1) + two(h[k])))
           = (Count(g, 1, k - 1) - Count(h, 1, k - 1) + 2 * (Count(g, 2, k - 1) - Count(h, 2, k - 1)))
               + (one(g[k]) + 2 * two(g[k])) - (one(h[k]) + 2 * two(h[k]))
      <3>1. PICK u \in Int : u = Count(g, 1, k - 1)
        BY <2>5
      <3>2. PICK v \in Int : v = Count(h, 1, k - 1)
        BY <2>5
      <3>3. PICK w \in Int : w = Count(g, 2, k - 1)
        BY <2>5
      <3>4. PICK x \in Int : x = Count(h, 2, k - 1)
        BY <2>5
      <3>5. PICK uu \in Int : uu = one(g[k])
        BY <2>6
      <3>6. PICK vv \in Int : vv = one(h[k])
        BY <2>6
      <3>7. PICK ww \in Int : ww = two(g[k])
        BY <2>6
      <3>8. PICK xx \in Int : xx = two(h[k])
        BY <2>6
      <3>9. (u + uu) - (v + vv) + 2 * ((w + ww) - (x + xx))
           = (u - v + 2 * (w - x)) + (uu + 2 * ww) - (vv + 2 * xx)
        OBVIOUS
      <3> QED
        BY <3>1, <3>2, <3>3, <3>4, <3>5, <3>6, <3>7, <3>8, <3>9, Zenon
    <2> QED
      BY <2>2, <2>3, <2>4, <2>7, Zenon
  <1>6. Leads(lead, a, b, n)
    <2>1. lead \in [0..n -> Int] /\ lead[0] = 0
      BY <1>1, <1>4
    <2> HIDE DEF lead, a, b
    <2> QED
      BY <1>4, <1>5, <2>1 DEF Leads
  <1>7. p[n] <= q[n] /\ (p[n] = q[n] => \A k \in 1..n : a[k] = b[k])
    <2>1. Summed(p, a, disc, n) /\ Summed(q, b, disc, n)
      OBVIOUS
    <2> HIDE DEF lead, a, b
    <2> QED
      BY <1>3, <1>6, <2>1, SumsCompare
  <1>8. ASSUME p[n] = q[n] PROVE \A k \in 1..n : g[k] = h[k]
    <2> TAKE k \in 1..n
    <2>1. a[k] = b[k]
      <3> HIDE DEF a, b
      <3> QED
        BY <1>7, <1>8
    <2>2. S!Worth(g[k]) = S!Worth(h[k])
      BY <1>2, <2>1
    <2> QED
      BY <1>2, <2>2, WorthTells
  <1> QED
    BY <1>7, <1>8

(* A discounted sum is that of the list filled up with zeros.              *)
Filled(grades, n) == [k \in 1..n |-> IF k <= Len(grades) THEN grades[k] ELSE 0]

LEMMA DiscountedSumUnfolds ==
  ASSUME NEW n \in Nat, Discount \in [1..n -> Nat \ {0}],
         NEW grades \in Seq(0..2), Len(grades) <= n
  PROVE  \E p : Summed(p, Worths(Filled(grades, n), n), Discount, n) /\ S!DiscountedSum(grades) = p[n]
  <1> DEFINE m == Len(grades)
             worth == [k \in 1..m |-> S!Worth(grades[k]) * Discount[k]]
             step == [k \in 1..m |-> [x \in Int |-> x + worth[k]]]
             Sum(f) == f = [k \in 0..m |-> IF k = 0 THEN 0 ELSE f[k - 1] + S!Worth(grades[k]) * Discount[k]]
             sum == CHOOSE f : Sum(f)
  <1>1. m \in Nat /\ m <= n
    OBVIOUS
  <1>2. \A k \in 1..m : /\ k \in 1..n /\ grades[k] \in 0..2 /\ S!Worth(grades[k]) \in Int
                        /\ Discount[k] \in Int
    <2> TAKE k \in 1..m
    <2>1. k \in 1..n /\ grades[k] \in 0..2
      OBVIOUS
    <2> QED
      BY <2>1, WorthCounts
  <1>3. \A k \in 1..m : worth[k] \in Int /\ worth[k] = S!Worth(grades[k]) * Discount[k]
    <2> TAKE k \in 1..m
    <2>1. S!Worth(grades[k]) \in Int /\ Discount[k] \in Int
      BY <1>2
    <2>2. \A x, y \in Int : x * y \in Int
      OBVIOUS
    <2>3. S!Worth(grades[k]) * Discount[k] \in Int
      BY <2>1, <2>2, Zenon
    <2> QED
      BY <2>3
  <1> HIDE DEF worth
  <1>4. Moves(step, m, Int)
    BY <1>3 DEF Moves
  <1>5. PICK f : Runs(f, step, m, 0, Int)
    <2>1. 0 \in Int
      OBVIOUS
    <2> HIDE DEF step, m
    <2> QED
      BY <1>1, <1>4, <2>1, RecursionWorks
  <1>6. /\ f \in [0..m -> Int] /\ f[0] = 0
        /\ \A k \in 1..m : f[k] = f[k - 1] + worth[k]
    <2>1. f \in [0..m -> Int] /\ f[0] = 0 /\ \A k \in 1..m : f[k] = step[k][f[k - 1]]
      BY <1>5, Zenon DEF Runs
    <2>2. ASSUME NEW k \in 1..m PROVE f[k] = f[k - 1] + worth[k]
      <3>1. k - 1 \in 0..m
        BY <1>1
      <3>2. f[k - 1] \in Int
        BY <2>1, <3>1
      <3>3. step[k][f[k - 1]] = f[k - 1] + worth[k]
        BY <3>2
      <3> QED
        BY <2>1, <3>3
    <2> QED
      BY <2>1, <2>2
  <1>7. Sum(f)
    <2> HIDE DEF m
    <2>1. \A k \in 0..m : f[k] = IF k = 0 THEN 0 ELSE f[k - 1] + S!Worth(grades[k]) * Discount[k]
      BY <1>1, <1>3, <1>6
    <2> QED
      BY <1>6, <2>1
  <1>8. Sum(sum)
    <2> HIDE DEF Sum
    <2> QED
      BY <1>7, Zenon
  <1>9. S!DiscountedSum(grades) = sum[m]
    BY DEF S!DiscountedSum
  <1> HIDE DEF sum
  <1>10. sum[0] = 0 /\ \A k \in 1..m : sum[k] = sum[k - 1] + worth[k]
    <2> HIDE DEF m
    <2>1. \A k \in 0..m : sum[k] = IF k = 0 THEN 0 ELSE sum[k - 1] + S!Worth(grades[k]) * Discount[k]
      BY <1>8
    <2>2. 0 \in 0..m /\ \A k \in 1..m : k \in 0..m /\ k # 0
      BY <1>1
    <2> QED
      BY <1>3, <2>1, <2>2
  <1>11. \A k \in 0..m : sum[k] \in Int
    <2> DEFINE T == {k \in Nat : sum[k] \in Int}
    <2>1. 0 \in T
      BY <1>10
    <2>3. ASSUME NEW k \in 1..m, k - 1 \in T PROVE k \in T
      <3>1. sum[k - 1] \in Int /\ worth[k] \in Int /\ sum[k] = sum[k - 1] + worth[k]
        BY <1>3, <1>10, <2>3
      <3> QED
        BY <1>1, <3>1
    <2>2. \A k \in 0..m : k \in T
      <3> HIDE DEF T, m
      <3> QED
        BY <1>1, <2>1, <2>3, UpTo
    <2> HIDE DEF m
    <2> QED
      BY <2>2
  <1> DEFINE p == [k \in 0..n |-> IF k <= m THEN sum[k] ELSE sum[m]]
             a == Worths(Filled(grades, n), n)
  <1>12. p \in [0..n -> Int] /\ p[0] = 0
    <2> HIDE DEF m
    <2>1. m \in 0..m
      BY <1>1
    <2> QED
      BY <1>1, <1>10, <1>11, <2>1
  <1>13. ASSUME NEW k \in 1..n PROVE p[k] = p[k - 1] + Scaled(a[k], Discount[k])
    <2>1. k \in 0..n /\ k - 1 \in 0..n /\ Discount[k] \in Int
      OBVIOUS
    <2>2. CASE k <= m
      <3>1. k \in 1..m /\ k - 1 <= m
        BY <1>1, <2>2
      <3>2. a[k] = S!Worth(grades[k])
        BY <2>2 DEF Worths, Filled
      <3>3. Scaled(a[k], Discount[k]) = worth[k]
        BY <1>3, <3>1, <3>2 DEF Scaled
      <3>4. p[k] = sum[k] /\ p[k - 1] = sum[k - 1]
        BY <2>1, <2>2, <3>1
      <3> QED
        BY <1>10, <3>1, <3>3, <3>4
    <2>3. CASE ~(k <= m)
      <3>1. a[k] = 0
        <4>1. Filled(grades, n)[k] = 0
          BY <2>3 DEF Filled
        <4>2. S!Worth(0) = 0
          BY WorthCounts
        <4> QED
          BY <4>1, <4>2 DEF Worths
      <3>2. Scaled(a[k], Discount[k]) = 0
        BY <2>1, <3>1 DEF Scaled
      <3>3. p[k] = sum[m]
        BY <2>1, <2>3
      <3>4. k - 1 <= m => k - 1 = m
        BY <1>1, <2>3
      <3>5. p[k - 1] = sum[m]
        BY <2>1, <3>4
      <3>6. sum[m] \in Int
        <4> HIDE DEF m
        <4> QED
          BY <1>1, <1>11
      <3> HIDE DEF p, a, m
      <3> QED
        BY <3>2, <3>3, <3>5, <3>6
    <2> QED
      BY <2>2, <2>3
  <1>14. Summed(p, a, Discount, n)
    <2> HIDE DEF p, a
    <2> QED
      BY <1>12, <1>13 DEF Summed
  <1>15. p[n] = sum[m]
    BY <1>1
  <1> QED
    BY <1>9, <1>14, <1>15

(* A case with ne pieces of evidence, and nr passages ranked for it.       *)
Case(ne, nr) ==
  /\ ne \in Nat /\ v1 \in [1..ne -> S!Evidence]
  /\ MaxRanked \in Nat /\ nr \in 0..MaxRanked /\ v2 \in [1..nr -> SUBSET Blocks]

Grade(m) == v1[m].relevance

LEMMA RelevantIsGraded ==
  ASSUME NEW ne, NEW nr, Case(ne, nr)
  PROVE  /\ IsFiniteSet(S!Relevant)
         /\ \A m \in S!Relevant : Grade(m) \in 1..2
         /\ DOMAIN v2 = 1..nr
         /\ \A k : S!Matches(k) \subseteq S!Relevant
  <1>1. DOMAIN v1 = 1..ne /\ DOMAIN v2 = 1..nr
    BY DEF Case
  <1>2. \A m \in 1..ne : v1[m].relevance \in 0..2
    BY DEF Case, S!Evidence
  <1>3. \A m \in S!Relevant : Grade(m) \in 1..2
    BY <1>1, <1>2 DEF S!Relevant, Grade
  <1>4. S!Relevant \subseteq 1..ne
    BY <1>1 DEF S!Relevant
  <1>5. ne \in Nat
    BY DEF Case
  <1>6. IsFiniteSet(1..ne)
    BY <1>5, FS_Interval
  <1>7. IsFiniteSet(S!Relevant)
    BY <1>4, <1>6, FS_Subset
  <1>8. \A k : S!Matches(k) \subseteq S!Relevant
    BY DEF S!Matches
  <1> QED
    BY <1>1, <1>3, <1>7, <1>8

(* The best of some evidence is that of a piece of it.                     *)
LEMMA BestIsAttained ==
  ASSUME NEW ne, NEW nr, Case(ne, nr), NEW ms, ms \subseteq S!Relevant
  PROVE  /\ S!Best(ms) \in 0..2
         /\ \A m \in ms : Grade(m) <= S!Best(ms)
         /\ S!Best(ms) >= 1 => \E m \in ms : Grade(m) = S!Best(ms)
  <1> DEFINE U == {v1[m].relevance : m \in ms} \cup {0}
  <1>1. \A m \in ms : v1[m].relevance \in 1..2
    BY RelevantIsGraded, Zenon DEF Grade
  <1>2. U \subseteq 0..2 /\ 0 \in U
    BY <1>1
  <1>3. IsFiniteSet(U)
    <2>1. IsFiniteSet(0..2)
      <3>1. 0 \in Int /\ 2 \in Int
        OBVIOUS
      <3> QED
        BY <3>1, FS_Interval, Zenon
    <2> HIDE DEF U
    <2> QED
      BY <1>2, <2>1, FS_Subset
  <1>4. R!Max(U) \in U /\ \A i \in U : i <= R!Max(U)
    <2> HIDE DEF U
    <2>1. U \subseteq Int /\ U # {}
      BY <1>2
    <2> QED
      BY <1>3, <2>1, FiniteMax
  <1>5. S!Best(ms) = R!Max(U)
    BY DEF S!Best, S!Max, R!Max
  <1>6. \A m \in ms : v1[m].relevance \in U
    OBVIOUS
  <1>7. \A x \in U : x = 0 \/ \E m \in ms : v1[m].relevance = x
    OBVIOUS
  <1> HIDE DEF U
  <1>8. S!Best(ms) \in U /\ \A i \in U : i <= S!Best(ms)
    BY <1>4, <1>5, Zenon
  <1>9. S!Best(ms) \in 0..2
    BY <1>2, <1>8
  <1>10. \A m \in ms : Grade(m) <= S!Best(ms)
    BY <1>6, <1>8, Zenon DEF Grade
  <1>11. S!Best(ms) >= 1 => \E m \in ms : Grade(m) = S!Best(ms)
    <2>1. S!Best(ms) >= 1 => S!Best(ms) # 0
      BY <1>9
    <2> QED
      BY <1>7, <1>8, <2>1, Zenon DEF Grade
  <1> QED
    BY <1>9, <1>10, <1>11

(* What passage k is the first to match.                                   *)
New(k) == S!Matches(k) \ UNION {S!Matches(j) : j \in 1..(k - 1)}

LEMMA GainsAreGrades ==
  ASSUME NEW ne, NEW nr, Case(ne, nr)
  PROVE  /\ S!Gains \in [1..nr -> 0..2] /\ S!Gains \in Seq(0..2) /\ Len(S!Gains) = nr
         /\ \A k \in 1..nr : S!Gains[k] = S!Best(New(k))
  <1>1. DOMAIN v2 = 1..nr /\ nr \in Nat
    BY RelevantIsGraded DEF Case
  <1>2. \A k : New(k) \subseteq S!Relevant
    BY RelevantIsGraded DEF New
  <1>3. S!Gains = [k \in 1..nr |-> S!Best(New(k))]
    BY <1>1 DEF S!Gains, New
  <1>4. \A k \in 1..nr : S!Best(New(k)) \in 0..2
    BY <1>2, BestIsAttained
  <1>5. S!Gains \in [1..nr -> 0..2]
    BY <1>3, <1>4
  <1> QED
    BY <1>1, <1>3, <1>5

(* Evidence of grade t at least.                                           *)
High(t) == {m \in S!Relevant : Grade(m) >= t}

(* Every rank that gains t stands for other evidence.                      *)
LEMMA GainsReach ==
  ASSUME NEW ne, NEW nr, Case(ne, nr), NEW t \in 1..2, NEW k \in 0..MaxRanked
  PROVE  /\ Cardinality(High(t)) \in Nat
         /\ Count(Filled(S!Gains, MaxRanked), t, k) <= Cardinality(High(t))
         /\ Count(Filled(S!Gains, MaxRanked), t, k) <= k
  <1> DEFINE W == Reaching(Filled(S!Gains, MaxRanked), t, k)
             Claimed(j) == CHOOSE m \in New(j) : Grade(m) = S!Best(New(j))
             f == [j \in W |-> Claimed(j)]
  <1>1. IsFiniteSet(High(t)) /\ Cardinality(High(t)) \in Nat
    BY RelevantIsGraded, FS_Subset, FS_CardinalityType DEF High
  <1>2. ASSUME NEW j \in W PROVE j \in 1..nr /\ j \in 1..k /\ S!Best(New(j)) >= t
    <2>1. j \in 1..k /\ Filled(S!Gains, MaxRanked)[j] >= t
      BY DEF Reaching
    <2>2. j \in 1..MaxRanked /\ t >= 1
      BY <2>1 DEF Case
    <2>3. Filled(S!Gains, MaxRanked)[j] = IF j <= nr THEN S!Gains[j] ELSE 0
      BY <2>2, GainsAreGrades DEF Filled
    <2>4. j <= nr
      BY <2>1, <2>2, <2>3
    <2>5. nr \in Nat
      BY DEF Case
    <2>6. j \in 1..nr
      BY <2>1, <2>4, <2>5
    <2> QED
      BY <2>1, <2>3, <2>4, <2>6, GainsAreGrades
  <1>3. ASSUME NEW j \in W PROVE f[j] \in New(j) /\ Grade(f[j]) >= t
    <2>1. New(j) \subseteq S!Relevant
      BY RelevantIsGraded DEF New
    <2>2. S!Best(New(j)) >= t /\ S!Best(New(j)) \in 0..2
      BY <1>2, <2>1, BestIsAttained
    <2>3. S!Best(New(j)) >= 1
      BY <2>2
    <2>4. \E m \in New(j) : Grade(m) = S!Best(New(j))
      BY <2>1, <2>3, BestIsAttained
    <2>5. f[j] \in New(j) /\ Grade(f[j]) = S!Best(New(j))
      <3> HIDE DEF W
      <3> QED
        BY <2>4
    <2> QED
      BY <2>2, <2>5
  <1>4. \A i, j \in W : i < j => New(i) \cap New(j) = {}
    <2> SUFFICES ASSUME NEW i \in W, NEW j \in W, i < j PROVE New(i) \cap New(j) = {}
      OBVIOUS
    <2>1. i \in 1..(j - 1)
      BY <1>2
    <2> QED
      BY <2>1, Zenon DEF New
  <1>5. f \in Injection(W, High(t))
    <2>1. \A j \in W : Claimed(j) \in High(t)
      <3> TAKE j \in W
      <3>1. f[j] = Claimed(j)
        OBVIOUS
      <3>2. f[j] \in S!Relevant
        BY <1>3, RelevantIsGraded DEF New
      <3> HIDE DEF f, Claimed
      <3> QED
        BY <1>3, <3>1, <3>2 DEF High
    <2>2. f \in [W -> High(t)]
      <3> HIDE DEF W, Claimed
      <3> QED
        BY <2>1
    <2>3. \A i, j \in W : f[i] = f[j] => i = j
      <3> SUFFICES ASSUME NEW i \in W, NEW j \in W, f[i] = f[j], i # j PROVE FALSE
        OBVIOUS
      <3>1. f[i] \in New(i) /\ f[j] \in New(j)
        BY <1>3
      <3>2. i < j \/ j < i
        BY <1>2
      <3> HIDE DEF f, W
      <3> QED
        BY <1>4, <3>1, <3>2
    <2> HIDE DEF f, W
    <2> QED
      BY <2>2, <2>3, Zenon DEF Injection, IsInjective
  <1>6. Cardinality(W) <= Cardinality(High(t))
    <2> HIDE DEF f, W
    <2> QED
      BY <1>1, <1>5, FS_Injection
  <1>7. Cardinality(W) <= k
    <2>1. W \subseteq 1..k
      BY DEF Reaching
    <2>2. k \in Nat
      BY DEF Case
    <2>3. IsFiniteSet(1..k) /\ Cardinality(1..k) = k
      BY <2>2, FS_Interval
    <2> HIDE DEF W
    <2> QED
      BY <2>1, <2>3, FS_Subset
  <1> QED
    BY <1>1, <1>6, <1>7 DEF Count

LEMMA SameCounts ==
  /\ \A U : S!Cardinality(U) = Cardinality(U)
  /\ \A U : S!IsFiniteSet(U) <=> IsFiniteSet(U)
  BY DEF S!Cardinality, Cardinality, S!IsFiniteSet, IsFiniteSet

(* There is an order by relevance, and it has every piece once.            *)
LEMMA ByRelevanceSorts ==
  ASSUME NEW ne, NEW nr, Case(ne, nr)
  PROVE  LET N == Cardinality(S!Relevant)
             s == S!ByRelevance
         IN  /\ N \in Nat
             /\ s \in [1..N -> S!Relevant]
             /\ \A m \in S!Relevant : \E k \in 1..N : s[k] = m
             /\ \A j, k \in 1..N : j < k => Grade(s[j]) >= Grade(s[k])
  <1> DEFINE U == S!Relevant
             N == Cardinality(U)
             s == S!ByRelevance
             before == {p \in U \X U : \/ Grade(p[1]) > Grade(p[2])
                                       \/ Grade(p[1]) = Grade(p[2]) /\ p[1] < p[2]}
             Falls(q) == \A j, k \in 1..N : j < k => q[j] # q[k] /\ Grade(q[j]) >= Grade(q[k])
  <1>1. IsFiniteSet(U) /\ N \in Nat /\ \A m \in U : Grade(m) \in 1..2
    BY RelevantIsGraded, FS_CardinalityType
  <1>2. U \subseteq Int
    BY DEF S!Relevant, Case
  <1>3. \A i, j \in U : <<i, j>> \in before <=>
                          Grade(i) > Grade(j) \/ (Grade(i) = Grade(j) /\ i < j)
    OBVIOUS
  <1>4. Orders(before, U)
    <2>1. \A i \in U : i \in Int /\ Grade(i) \in Int
      BY <1>1, <1>2
    <2> HIDE DEF before, U
    <2>2. \A i \in U : <<i, i>> \notin before
      BY <1>3, <2>1
    <2>3. ASSUME NEW i \in U, NEW j \in U, NEW k \in U, <<i, j>> \in before, <<j, k>> \in before
          PROVE  <<i, k>> \in before
      <3>1. Grade(i) \in Int /\ Grade(j) \in Int /\ Grade(k) \in Int /\ i \in Int /\ j \in Int /\ k \in Int
        BY <2>1
      <3>2. Grade(i) > Grade(j) \/ (Grade(i) = Grade(j) /\ i < j)
        BY <1>3, <2>3
      <3>3. Grade(j) > Grade(k) \/ (Grade(j) = Grade(k) /\ j < k)
        BY <1>3, <2>3
      <3>4. Grade(i) > Grade(k) \/ (Grade(i) = Grade(k) /\ i < k)
        BY <3>1, <3>2, <3>3
      <3> QED
        BY <1>3, <3>4
    <2>4. ASSUME NEW i \in U, NEW j \in U, i # j PROVE <<i, j>> \in before \/ <<j, i>> \in before
      <3>1. Grade(i) \in Int /\ Grade(j) \in Int /\ i \in Int /\ j \in Int
        BY <2>1
      <3>2. \/ Grade(i) > Grade(j) \/ (Grade(i) = Grade(j) /\ i < j)
            \/ Grade(j) > Grade(i) \/ (Grade(j) = Grade(i) /\ j < i)
        BY <2>4, <3>1
      <3> QED
        BY <1>3, <3>2
    <2> QED
      BY <2>2, <2>3, <2>4, Zenon DEF Orders
  <1>5. PICK q : Sorts(q, before, U)
    <2> HIDE DEF before, U
    <2> QED
      BY <1>1, <1>4, SortedExists
  <1>6. q \in [1..N -> U] /\ Falls(q)
    <2>1. q \in [1..N -> U] /\ \A j, k \in 1..N : j < k => <<q[j], q[k]>> \in before
      BY <1>5 DEF Sorts
    <2>2. ASSUME NEW j \in 1..N, NEW k \in 1..N, j < k
          PROVE  q[j] # q[k] /\ Grade(q[j]) >= Grade(q[k])
      <3>1. q[j] \in U /\ q[k] \in U /\ <<q[j], q[k]>> \in before
        BY <2>1, <2>2
      <3>2. Grade(q[j]) > Grade(q[k]) \/ (Grade(q[j]) = Grade(q[k]) /\ q[j] < q[k])
        BY <1>3, <3>1
      <3>3. Grade(q[j]) \in Int /\ Grade(q[k]) \in Int /\ q[j] \in Int
        <4> HIDE DEF U, before, N
        <4>1. \A m \in U : Grade(m) \in Int /\ m \in Int
          BY <1>1, <1>2
        <4> QED
          BY <3>1, <4>1
      <3> HIDE DEF U, before
      <3>4. q[j] # q[k]
        BY <3>2, <3>3
      <3>5. Grade(q[j]) >= Grade(q[k])
        BY <3>2, <3>3
      <3> QED
        BY <3>4, <3>5
    <2> HIDE DEF N, U
    <2> QED
      BY <2>1, <2>2
  <1>7. S!ByRelevance = CHOOSE r \in [1..N -> U] : Falls(r)
    BY SameCounts DEF S!ByRelevance, Grade
  <1>8. s \in [1..N -> U] /\ Falls(s)
    <2> HIDE DEF Falls, N, U
    <2> QED
      BY <1>6, <1>7, Zenon
  <1>9. \A m \in U : \E k \in 1..N : s[k] = m
    <2>1. \A j, k \in 1..N : s[j] = s[k] => j = k
      <3> SUFFICES ASSUME NEW j \in 1..N, NEW k \in 1..N, s[j] = s[k], j # k PROVE FALSE
        OBVIOUS
      <3>1. j < k \/ k < j
        BY <1>1
      <3> HIDE DEF s, N
      <3> QED
        BY <1>8, <3>1
    <2> HIDE DEF s, U
    <2>2. s \in Injection(1..N, U)
      BY <1>8, <2>1, Zenon DEF Injection, IsInjective
    <2>3. IsFiniteSet(1..N) /\ Cardinality(1..N) = N
      BY <1>1, FS_Interval
    <2>4. s \in Surjection(1..N, U)
      BY <1>1, <2>2, <2>3, FS_Injection
    <2> QED
      BY <2>4, Zenon DEF Surjection
  <1> QED
    BY <1>1, <1>8, <1>9

(* The ideal grades are those of the first pieces.                         *)
LEMMA IdealIsGraded ==
  ASSUME NEW ne, NEW nr, Case(ne, nr)
  PROVE  LET N == Cardinality(S!Relevant)
             m == IF N <= MaxRanked THEN N ELSE MaxRanked
         IN  /\ S!IdealGrades \in [1..m -> 1..2] /\ S!IdealGrades \in Seq(0..2)
             /\ Len(S!IdealGrades) = m
             /\ \A k \in 1..m : S!IdealGrades[k] = Grade(S!ByRelevance[k])
  <1> DEFINE N == Cardinality(S!Relevant)
             m == IF N <= MaxRanked THEN N ELSE MaxRanked
  <1>1. N \in Nat /\ MaxRanked \in Nat
    BY ByRelevanceSorts DEF Case
  <1>2. S!Min({N, MaxRanked}) = m
    <2> HIDE DEF N
    <2>1. R!Min({N, MaxRanked}) = m
      BY <1>1, SmallerOfTwo
    <2> QED
      BY <2>1 DEF S!Min, R!Min
  <1>3. S!IdealGrades = [k \in 1..m |-> Grade(S!ByRelevance[k])]
    BY <1>2, SameCounts DEF S!IdealGrades, Grade
  <1>4. m \in Nat /\ \A k \in 1..m : k \in 1..N
    <2> HIDE DEF N
    <2> QED
      BY <1>1
  <1>5. \A k \in 1..m : Grade(S!ByRelevance[k]) \in 1..2
    <2> TAKE k \in 1..m
    <2>1. S!ByRelevance[k] \in S!Relevant
      BY <1>4, ByRelevanceSorts
    <2> QED
      BY <2>1, RelevantIsGraded
  <1> HIDE DEF m
  <1>6. S!IdealGrades \in [1..m -> 1..2]
    BY <1>3, <1>5
  <1>7. S!IdealGrades \in [1..m -> 0..2]
    BY <1>6
  <1>8. S!IdealGrades \in Seq(0..2) /\ Len(S!IdealGrades) = m
    BY <1>4, <1>7
  <1> QED
    BY <1>3, <1>6, <1>8 DEF m

(* Its first ranks reach a grade as long as there is evidence of it.       *)
LEMMA IdealReaches ==
  ASSUME NEW ne, NEW nr, Case(ne, nr), NEW t \in 1..2, NEW k \in 0..MaxRanked
  PROVE  LET c == Cardinality(High(t))
             x == Count(Filled(S!IdealGrades, MaxRanked), t, k)
         IN  c \in Nat /\ x \in Nat /\ (c <= x \/ k <= x)
  <1> DEFINE c == Cardinality(High(t))
             W == Reaching(Filled(S!IdealGrades, MaxRanked), t, k)
             x == Cardinality(W)
             N == Cardinality(S!Relevant)
             m == IF N <= MaxRanked THEN N ELSE MaxRanked
             b == IF c <= k THEN c ELSE k
             s == S!ByRelevance
  <1>1. IsFiniteSet(High(t)) /\ c \in Nat /\ c <= N
    BY RelevantIsGraded, FS_Subset, FS_CardinalityType DEF High
  <1>2. /\ N \in Nat /\ MaxRanked \in Nat /\ k \in Nat /\ k <= MaxRanked /\ b \in Nat
        /\ b <= m /\ b <= k /\ b <= c /\ m <= N /\ m \in Nat /\ t \in 1..2
    <2>1. N \in Nat /\ MaxRanked \in Nat
      BY ByRelevanceSorts DEF Case
    <2> HIDE DEF N, c
    <2> QED
      BY <1>1, <2>1
  <1>3. IsFiniteSet(W) /\ x \in Nat
    <2>1. W \subseteq 1..k
      BY DEF Reaching
    <2>2. IsFiniteSet(1..k)
      BY <1>2, FS_Interval
    <2> HIDE DEF W
    <2> QED
      BY <2>1, <2>2, FS_Subset, FS_CardinalityType
  <1>4. ASSUME NEW j \in 1..b PROVE Grade(s[j]) >= t
    <2>1. SUFFICES ASSUME ~(Grade(s[j]) >= t) PROVE FALSE
      OBVIOUS
    <2> DEFINE Q == {i \in 1..(j - 1) : s[i] \in High(t)}
               f == [i \in Q |-> s[i]]
    <2>2. j \in 1..N
      <3> HIDE DEF b, N, m
      <3> QED
        BY <1>2
    <2>3. s \in [1..N -> S!Relevant] /\ \A i \in 1..N : Grade(s[i]) \in 1..2
      BY ByRelevanceSorts, RelevantIsGraded
    <2>4. ASSUME NEW p \in High(t) PROVE \E i \in Q : f[i] = p
      <3>1. PICK i \in 1..N : s[i] = p
        BY ByRelevanceSorts DEF High
      <3>2. Grade(p) >= t
        BY DEF High
      <3>3. i # j
        BY <2>1, <3>1, <3>2
      <3>4. ~(j < i)
        <4> SUFFICES ASSUME j < i PROVE FALSE
          OBVIOUS
        <4>1. Grade(s[j]) >= Grade(s[i])
          BY <2>2, ByRelevanceSorts
        <4>2. Grade(s[j]) \in Int /\ Grade(s[i]) \in Int
          BY <2>2, <2>3
        <4> HIDE DEF s
        <4> QED
          BY <1>2, <2>1, <3>1, <3>2, <4>1, <4>2
      <3>5. i \in 1..(j - 1)
        BY <1>2, <2>2, <3>3, <3>4
      <3> QED
        BY <3>1, <3>5
    <2>5. f \in [Q -> High(t)]
      OBVIOUS
    <2>6. f \in Surjection(Q, High(t))
      <3> HIDE DEF f, Q
      <3> QED
        BY <2>4, <2>5, Zenon DEF Surjection
    <2>7. IsFiniteSet(Q) /\ Cardinality(Q) <= j - 1
      <3> DEFINE h == j - 1
      <3>1. Q \subseteq 1..h /\ h \in Nat
        BY <1>2, <2>2
      <3> HIDE DEF Q, h, b, c, m, N
      <3>4. h \in Nat
        BY <3>1
      <3>2. IsFiniteSet(1..h) /\ Cardinality(1..h) = h
        BY <3>4, FS_Interval
      <3>3. IsFiniteSet(Q) /\ Cardinality(Q) <= h
        BY <3>1, <3>2, FS_Subset
      <3> QED
        BY <3>3 DEF h
    <2>8. c <= Cardinality(Q)
      <3> HIDE DEF f, Q
      <3> QED
        BY <2>6, <2>7, FS_Surjection
    <2>9. Cardinality(Q) \in Nat
      <3> HIDE DEF Q
      <3> QED
        BY <2>7, FS_CardinalityType
    <2> HIDE DEF Q, c, b
    <2> QED
      BY <1>1, <1>2, <2>7, <2>8, <2>9
  <1>5. 1..b \subseteq W
    <2> SUFFICES ASSUME NEW j \in 1..b PROVE j \in W
      OBVIOUS
    <2>1. j \in 1..k /\ j \in 1..m /\ j \in 1..MaxRanked
      <3> HIDE DEF b, m
      <3>1. j \in Nat /\ 1 <= j /\ j <= b
        BY <1>2
      <3> QED
        BY <1>2, <3>1
    <2>2. S!IdealGrades[j] = Grade(s[j]) /\ j <= Len(S!IdealGrades)
      BY <2>1, IdealIsGraded
    <2>3. Filled(S!IdealGrades, MaxRanked)[j] = Grade(s[j])
      BY <2>1, <2>2 DEF Filled
    <2> HIDE DEF s, b
    <2> QED
      BY <1>4, <2>1, <2>3 DEF Reaching
  <1>6. b <= x
    <2>1. Cardinality(1..b) = b
      <3> HIDE DEF b
      <3> QED
        BY <1>2, FS_Interval
    <2> HIDE DEF b, W
    <2> QED
      BY <1>3, <1>5, <2>1, FS_Subset
  <1>7. c <= x \/ k <= x
    <2> HIDE DEF x, c
    <2> QED
      BY <1>1, <1>2, <1>3, <1>6
  <1> QED
    BY <1>1, <1>3, <1>7 DEF Count

LEMMA FilledIsGrades ==
  ASSUME NEW n \in Nat, NEW grades \in Seq(0..2), Len(grades) <= n
  PROVE  /\ Filled(grades, n) \in [1..n -> 0..2]
         /\ \A k \in 1..Len(grades) : k \in 1..n /\ Filled(grades, n)[k] = grades[k]
         /\ \A k \in 1..n : k > Len(grades) => Filled(grades, n)[k] = 0
  <1>1. Len(grades) \in Nat /\ \A k \in 1..Len(grades) : grades[k] \in 0..2
    OBVIOUS
  <1>2. \A k \in 1..n : k <= Len(grades) => grades[k] \in 0..2
    BY <1>1
  <1> QED
    BY <1>1, <1>2 DEF Filled

(* No ranking is worth more than the ideal one, and one worth as much gains*)
(* what the ideal one does, rank by rank.                                  *)
LEMMA ShareOfIdeal ==
  ASSUME NEW ne, NEW nr, Case(ne, nr), Decreasing(Discount, MaxRanked)
  PROVE  /\ S!DiscountedSum(S!Gains) <= S!DiscountedSum(S!IdealGrades)
         /\ S!DiscountedSum(S!Gains) = S!DiscountedSum(S!IdealGrades) =>
              \A k \in DOMAIN S!IdealGrades : k <= nr /\ S!Gains[k] = S!IdealGrades[k]
  <1> DEFINE n == MaxRanked
             g == Filled(S!Gains, n)
             h == Filled(S!IdealGrades, n)
             top == Len(S!IdealGrades)
  <1>1. n \in Nat /\ nr \in Nat /\ nr <= n /\ Discount \in [1..n -> Nat \ {0}]
    BY DEF Case, Decreasing
  <1>2. S!Gains \in Seq(0..2) /\ Len(S!Gains) = nr
    BY GainsAreGrades
  <1>3. S!IdealGrades \in Seq(0..2) /\ top \in Nat /\ top <= n /\ DOMAIN S!IdealGrades = 1..top
        /\ \A k \in 1..top : S!IdealGrades[k] \in 1..2
    <2> DEFINE N == Cardinality(S!Relevant)
               m == IF N <= MaxRanked THEN N ELSE MaxRanked
    <2>1. S!IdealGrades \in [1..m -> 1..2] /\ S!IdealGrades \in Seq(0..2) /\ top = m
      BY IdealIsGraded
    <2>2. N \in Nat
      BY ByRelevanceSorts
    <2>3. m \in Nat /\ m <= n
      <3> HIDE DEF N
      <3> QED
        BY <1>1, <2>2
    <2> HIDE DEF m, top, N
    <2> QED
      BY <2>1, <2>3
  <1>4. /\ g \in [1..n -> 0..2] /\ \A k \in 1..nr : k \in 1..n /\ g[k] = S!Gains[k]
        /\ \A k \in 1..n : k > nr => g[k] = 0
    BY <1>1, <1>2, FilledIsGrades
  <1>5. h \in [1..n -> 0..2] /\ \A k \in 1..top : k \in 1..n /\ h[k] = S!IdealGrades[k]
    BY <1>1, <1>3, FilledIsGrades
  <1>6. PICK p : Summed(p, Worths(g, n), Discount, n) /\ S!DiscountedSum(S!Gains) = p[n]
    BY <1>1, <1>2, DiscountedSumUnfolds
  <1>7. PICK q : Summed(q, Worths(h, n), Discount, n) /\ S!DiscountedSum(S!IdealGrades) = q[n]
    BY <1>1, <1>3, DiscountedSumUnfolds
  <1>8. Behind(g, h, n)
    <2>1. ASSUME NEW k \in 0..n, NEW t \in 1..2 PROVE Count(g, t, k) <= Count(h, t, k)
      <3>1. /\ Cardinality(High(t)) \in Nat
            /\ Count(g, t, k) <= Cardinality(High(t)) /\ Count(g, t, k) <= k
        BY GainsReach
      <3>2. /\ Count(h, t, k) \in Nat
            /\ Cardinality(High(t)) <= Count(h, t, k) \/ k <= Count(h, t, k)
        BY IdealReaches
      <3>3. t \in Nat /\ k \in Nat
        BY <1>1
      <3>4. Count(g, t, k) \in Nat
        BY <1>1, <1>4, <3>3, CountGrows
      <3> HIDE DEF g, h, n
      <3> QED
        BY <3>1, <3>2, <3>3, <3>4
    <2>2. 1 \in 1..2 /\ 2 \in 1..2
      OBVIOUS
    <2> HIDE DEF g, h, n
    <2> QED
      BY <2>1, <2>2, Zenon DEF Behind
  <1>9. p[n] <= q[n] /\ (p[n] = q[n] => \A k \in 1..n : g[k] = h[k])
    <2>1. Decreasing(Discount, n) /\ n \in Nat
      BY <1>1
    <2>2. g \in [1..n -> 0..2] /\ h \in [1..n -> 0..2]
      BY <1>4, <1>5
    <2>3. Summed(p, Worths(g, n), Discount, n) /\ Summed(q, Worths(h, n), Discount, n)
      BY <1>6, <1>7
    <2> HIDE DEF g, h, n
    <2> QED
      BY <1>8, <2>1, <2>2, <2>3, GradesCompare
  <1>10. ASSUME p[n] = q[n], NEW k \in 1..top PROVE k <= nr /\ S!Gains[k] = S!IdealGrades[k]
    <2>1. k \in 1..n /\ h[k] = S!IdealGrades[k] /\ g[k] = h[k] /\ h[k] \in 1..2
      <3> HIDE DEF g, h, n, top
      <3> QED
        BY <1>3, <1>5, <1>9, <1>10
    <2>2. k <= nr
      <3> HIDE DEF g, h, n, top
      <3> QED
        BY <1>1, <1>4, <2>1
    <2> HIDE DEF g, h, n, top
    <2> QED
      BY <1>1, <1>4, <2>1, <2>2
  <1> HIDE DEF g, h, n, top
  <1> QED
    BY <1>3, <1>6, <1>7, <1>9, <1>10

(* There is a gain where there is a grade.                                 *)
LEMMA WorthOfSome ==
  ASSUME NEW n \in Nat, Decreasing(Discount, n), NEW grades \in Seq(0..2), Len(grades) <= n
  PROVE  S!DiscountedSum(grades) > 0 <=> \E k \in 1..Len(grades) : grades[k] >= 1
  <1> DEFINE g == Filled(grades, n)
             z == [k \in 1..n |-> 0]
             o == [k \in 0..n |-> 0]
  <1>1. /\ g \in [1..n -> 0..2] /\ \A k \in 1..Len(grades) : k \in 1..n /\ g[k] = grades[k]
        /\ \A k \in 1..n : k > Len(grades) => g[k] = 0
    BY FilledIsGrades
  <1>2. z \in [1..n -> 0..2] /\ \A k \in 1..n : z[k] = 0
    OBVIOUS
  <1>3. PICK p : Summed(p, Worths(g, n), Discount, n) /\ S!DiscountedSum(grades) = p[n]
    BY DiscountedSumUnfolds DEF Decreasing
  <1>4. Summed(o, Worths(z, n), Discount, n)
    <2>1. \A k \in 1..n : Worths(z, n)[k] = 0
      <3>1. S!Worth(0) = 0
        BY WorthCounts
      <3> QED
        BY <3>1 DEF Worths
    <2>2. \A k \in 1..n : Scaled(Worths(z, n)[k], Discount[k]) = 0
      BY <2>1, SMTT(20) DEF Scaled, Decreasing
    <2> HIDE DEF z
    <2>3. \A k \in 1..n : o[k] = o[k - 1] + Scaled(Worths(z, n)[k], Discount[k])
      BY <2>2
    <2> QED
      BY <2>3 DEF Summed
  <1>5. \A t \in {1, 2}, k \in 0..n : Count(z, t, k) = 0
    <2> SUFFICES ASSUME NEW t \in {1, 2}, NEW k \in 0..n PROVE Count(z, t, k) = 0
      OBVIOUS
    <2>1. Reaching(z, t, k) = {}
      BY DEF Reaching
    <2> QED
      BY <2>1, FS_EmptySet DEF Count
  <1>6. \A t \in {1, 2}, k \in 0..n : Count(g, t, k) \in Nat
    <2> SUFFICES ASSUME NEW t \in {1, 2}, NEW k \in 0..n PROVE Count(g, t, k) \in Nat
      OBVIOUS
    <2>1. t \in Nat
      OBVIOUS
    <2> QED
      BY <1>1, <2>1, CountGrows
  <1> HIDE DEF g, z
  <1>7. Behind(z, g, n)
    BY <1>5, <1>6 DEF Behind
  <1>8. o[n] <= p[n] /\ (o[n] = p[n] => \A k \in 1..n : z[k] = g[k])
    <2> HIDE DEF o
    <2> QED
      BY <1>1, <1>2, <1>3, <1>4, <1>7, GradesCompare
  <1>9. o[n] = 0 /\ p[n] \in Int
    BY <1>3 DEF Summed
  <1> HIDE DEF o
  <1>10. CASE \E k \in 1..Len(grades) : grades[k] >= 1
    <2>1. PICK k \in 1..Len(grades) : grades[k] >= 1
      BY <1>10
    <2>2. z[k] # g[k]
      BY <1>1, <1>2, <2>1
    <2>3. p[n] # o[n]
      BY <1>1, <1>8, <2>2
    <2> QED
      BY <1>3, <1>8, <1>9, <1>10, <2>3
  <1>11. CASE ~ \E k \in 1..Len(grades) : grades[k] >= 1
    <2>1. \A k \in 1..n : g[k] = z[k]
      <3> TAKE k \in 1..n
      <3>1. g[k] \in 0..2 /\ z[k] = 0 /\ Len(grades) \in Nat
        BY <1>1, <1>2
      <3>2. CASE k <= Len(grades)
        <4>1. k \in 1..Len(grades)
          BY <3>1, <3>2
        <4> QED
          BY <1>1, <1>11, <3>1, <4>1
      <3>3. CASE ~(k <= Len(grades))
        BY <1>1, <3>1, <3>3
      <3> QED
        BY <3>2, <3>3
    <2>2. g = z
      BY <1>1, <1>2, <2>1
    <2>3. Behind(g, z, n)
      BY <1>7, <2>2
    <2>4. p[n] <= o[n]
      BY <1>1, <1>2, <1>3, <1>4, <2>3, GradesCompare
    <2> QED
      BY <1>3, <1>9, <1>11, <2>4
  <1> QED
    BY <1>10, <1>11

(* The first match settles what the metrics say of the head of a ranking.  *)
LEMMA FirstTells ==
  ASSUME NEW ne, NEW nr, Case(ne, nr)
  PROVE  LET first == S!FirstRelevant
         IN  /\ first \in 0..nr
             /\ \A k \in Nat : S!Hit(k) <=> first \in 1..k
             /\ \A k \in Nat : S!Found(k) # {} <=> first \in 1..k
             /\ first # 0 => S!Matches(first) # {} /\ New(first) = S!Matches(first)
  <1> DEFINE first == S!FirstRelevant
             Q == {rank \in 1..nr : S!Matches(rank) # {}}
  <1>1. DOMAIN v2 = 1..nr /\ nr \in Nat /\ MaxRanked \in Nat /\ nr <= MaxRanked
    BY RelevantIsGraded DEF Case
  <1>2. \A k : S!Hit(k) <=> \E rank \in Q : rank <= k
    BY <1>1 DEF S!Hit
  <1>3. S!Hit(MaxRanked) <=> Q # {}
    BY <1>1, <1>2
  <1>4. first = IF Q # {} THEN S!Min(Q) ELSE 0
    BY <1>1, <1>3 DEF S!FirstRelevant
  <1>5. Q # {} => first \in Q /\ \A rank \in Q : first <= rank
    <2> SUFFICES ASSUME Q # {} PROVE first \in Q /\ \A rank \in Q : first <= rank
      OBVIOUS
    <2>1. Q \subseteq Nat
      BY <1>1
    <2> HIDE DEF Q
    <2>2. \E x \in Q : \A y \in Q : x <= y
      BY <2>1, LeastNumber
    <2> QED
      BY <1>4, <2>2 DEF S!Min
  <1>6. Q \subseteq 1..nr
    OBVIOUS
  <1>7. \A k \in Nat : S!Hit(k) <=> first \in 1..k
    <2> TAKE k \in Nat
    <2> HIDE DEF Q, first
    <2>1. CASE Q = {}
      BY <1>2, <1>4, <2>1
    <2>2. CASE Q # {}
      <3>1. first \in 1..nr /\ first \in Q /\ \A rank \in Q : first <= rank
        BY <1>5, <1>6, <2>2
      <3>2. \A rank \in Q : rank \in Int
        BY <1>6
      <3> QED
        BY <1>2, <3>1, <3>2
    <2> QED
      BY <2>1, <2>2
  <1>8. \A k \in Nat : S!Found(k) # {} <=> S!Hit(k)
    BY DEF S!Found, S!Hit
  <1>9. ASSUME first # 0 PROVE S!Matches(first) # {} /\ New(first) = S!Matches(first)
    <2>1. first \in Q /\ \A rank \in Q : first <= rank
      <3> HIDE DEF Q
      <3> QED
        BY <1>4, <1>5, <1>9
    <2>2. \A j \in 1..(first - 1) : S!Matches(j) = {}
      <3> TAKE j \in 1..(first - 1)
      <3>1. j \in 1..nr /\ ~(first <= j)
        <4>1. first \in 1..nr
          BY <2>1
        <4> HIDE DEF first
        <4> QED
          BY <1>1, <4>1
      <3> QED
        BY <2>1, <3>1
    <2>3. S!Matches(first) # {}
      BY <2>1
    <2> HIDE DEF first
    <2> QED
      BY <2>2, <2>3 DEF New
  <1>10. first \in 0..nr
    <2> HIDE DEF Q, first
    <2>1. CASE Q = {}
      BY <1>1, <1>4, <2>1
    <2>2. CASE Q # {}
      <3>1. first \in 1..nr
        BY <1>5, <1>6, <2>2
      <3> QED
        BY <1>1, <3>1
    <2> QED
      BY <2>1, <2>2
  <1> QED
    BY <1>7, <1>8, <1>9, <1>10

LEMMA ScoresInit ==
  ASSUME S!Init
  PROVE  S!IInv
  BY DEF S!Init, S!IInv, S!MetricsAgree, S!NdcgIsAShare, S!NoScore

LEMMA LoadCaseKeeps ==
  ASSUME S!IInv, S!LoadCase
  PROVE  S!IInv'
  <1>1. v1 = <<>> /\ v2' = v2 /\ v3' = v3
    BY DEF S!LoadCase
  <1>2. v2 = <<>>
    <2> SUFFICES ASSUME ~(v2 = <<>>) PROVE FALSE
      OBVIOUS
    <2>1. S!Relevant # {}
      BY DEF S!IInv
    <2> QED
      BY <1>1, <2>1 DEF S!Relevant
  <1>3. v3 = S!NoScore
    BY <1>2 DEF S!IInv
  <1>4. S!MetricsAgree'
    BY <1>1, <1>3 DEF S!MetricsAgree, S!NdcgIsAShare, S!NoScore
  <1>5. /\ \E n \in 1..MaxEvidence : v1' \in [1..n -> S!Evidence]
        /\ \A m, n \in DOMAIN v1' : v1'[m].blocks = v1'[n].blocks => m = n
    BY DEF S!LoadCase
  <1>6. S!Relevant' # {}
    BY DEF S!LoadCase, S!Relevant
  <1>7. v2' = <<>> /\ v3' = S!NoScore
    BY <1>1, <1>2, <1>3
  <1> QED
    BY <1>4, <1>5, <1>6, <1>7 DEF S!IInv, S!Evidence, S!NoScore

LEMMA RetrieveKeeps ==
  ASSUME S!IInv, S!Retrieve
  PROVE  S!IInv'
  <1>1. v1' = v1 /\ v3' = v3 /\ v1 # <<>> /\ v2 = <<>> /\ \E n \in 1..MaxRanked : v2' \in [1..n -> SUBSET Blocks]
    BY DEF S!Retrieve
  <1>2. v3' = S!NoScore
    BY <1>1 DEF S!IInv
  <1>3. S!MetricsAgree'
    BY <1>2 DEF S!MetricsAgree, S!NdcgIsAShare, S!NoScore
  <1>4. S!Relevant' = S!Relevant
    BY <1>1 DEF S!Relevant
  <1>5. /\ \E n \in 1..MaxEvidence : v1' \in [1..n -> S!Evidence]
        /\ \A m, n \in DOMAIN v1' : v1'[m].blocks = v1'[n].blocks => m = n
        /\ S!Relevant # {}
    BY <1>1 DEF S!IInv
  <1> QED
    BY <1>1, <1>2, <1>3, <1>4, <1>5 DEF S!IInv, S!Evidence, S!NoScore

(* What is said of a score that is the score of the ranking.               *)
Agrees(sc) ==
  /\ sc.dcg <= sc.ideal
  /\ sc.dcg = sc.ideal =>
       \A k \in DOMAIN S!IdealGrades : k <= Len(v2) /\ S!Gains[k] = S!IdealGrades[k]
  /\ sc.recall <= Cardinality(sc.matched) /\ Cardinality(sc.matched) <= sc.total
  /\ sc.hit1 <=> sc.first = 1
  /\ sc.hit3 <=> sc.first \in 1..HitK
  /\ sc.recall > 0 <=> sc.first \in 1..RecallK
  /\ sc.dcg > 0 <=> sc.first > 0
  /\ sc.matched = {} <=> sc.first = 0

ScoreOf ==
  [scored |-> TRUE, hit1 |-> S!Hit(1), hit3 |-> S!Hit(HitK),
   recall |-> S!Cardinality(S!Found(RecallK)), total |-> S!Cardinality(S!Relevant),
   first |-> S!FirstRelevant, matched |-> S!Found(MaxRanked),
   dcg |-> S!DiscountedSum(S!Gains), ideal |-> S!DiscountedSum(S!IdealGrades)]

LEMMA ScoreAgrees ==
  ASSUME S!ConstantsAssumption, NEW ne, NEW nr, Case(ne, nr)
  PROVE  Agrees(ScoreOf)
  <1> DEFINE first == S!FirstRelevant
             gains == S!Gains
             dcg == S!DiscountedSum(S!Gains)
             ideal == S!DiscountedSum(S!IdealGrades)
  <1>1. /\ HitK \in Nat /\ RecallK \in Nat /\ MaxRanked \in Nat
        /\ Decreasing(Discount, MaxRanked) /\ nr \in Nat /\ nr <= MaxRanked
    BY DEF S!ConstantsAssumption, Decreasing, Case
  <1>2. /\ first \in 0..nr
        /\ \A k \in Nat : S!Hit(k) <=> first \in 1..k
        /\ \A k \in Nat : S!Found(k) # {} <=> first \in 1..k
        /\ first # 0 => S!Matches(first) # {} /\ New(first) = S!Matches(first)
    BY FirstTells
  <1>3. /\ dcg <= ideal
        /\ dcg = ideal => \A k \in DOMAIN S!IdealGrades : k <= nr /\ gains[k] = S!IdealGrades[k]
    BY <1>1, ShareOfIdeal
  <1>4. Len(v2) = nr
    <2>1. v2 \in [1..nr -> SUBSET Blocks]
      BY DEF Case
    <2> QED
      BY <1>1, <2>1
  <1>5. dcg > 0 <=> first > 0
    <2>1. gains \in Seq(0..2) /\ Len(gains) = nr /\ \A k \in 1..nr : gains[k] = S!Best(New(k))
      BY GainsAreGrades
    <2>2. dcg > 0 <=> \E k \in 1..nr : gains[k] >= 1
      <3> HIDE DEF gains
      <3>1. S!DiscountedSum(gains) > 0 <=> \E k \in 1..Len(gains) : gains[k] >= 1
        BY <1>1, <2>1, WorthOfSome
      <3> QED
        BY <2>1, <3>1 DEF gains
    <2>3. ASSUME first > 0 PROVE gains[first] >= 1 /\ first \in 1..nr
      <3>1. first \in 1..nr /\ first # 0
        <4> HIDE DEF first
        <4> QED
          BY <1>1, <1>2, <2>3
      <3>2. gains[first] = S!Best(S!Matches(first)) /\ S!Matches(first) # {}
        BY <1>2, <2>1, <3>1
      <3>3. PICK m \in S!Matches(first) : TRUE
        BY <3>2
      <3>4. S!Matches(first) \subseteq S!Relevant
        BY RelevantIsGraded
      <3>5. Grade(m) <= S!Best(S!Matches(first)) /\ S!Best(S!Matches(first)) \in 0..2
        BY <3>4, BestIsAttained
      <3>6. Grade(m) \in 1..2
        BY <3>4, RelevantIsGraded
      <3>7. S!Best(S!Matches(first)) >= 1
        BY <3>5, <3>6
      <3> QED
        BY <3>1, <3>2, <3>7
    <2>4. ASSUME ~(first > 0), NEW k \in 1..nr PROVE ~(gains[k] >= 1)
      <3>1. first = 0
        <4> HIDE DEF first
        <4> QED
          BY <1>2, <2>4
      <3>2. ~S!Hit(k)
        <4> HIDE DEF first
        <4> QED
          BY <1>1, <1>2, <3>1
      <3>3. S!Matches(k) = {}
        <4>1. k \in DOMAIN v2 /\ k <= k
          BY <1>1, RelevantIsGraded
        <4> QED
          BY <3>2, <4>1 DEF S!Hit
      <3>4. New(k) = {} /\ {} \subseteq S!Relevant
        BY <3>3 DEF New
      <3>5. S!Best({}) >= 1 => \E m \in {} : Grade(m) = S!Best({})
        BY <3>4, BestIsAttained
      <3> QED
        BY <2>1, <3>4, <3>5
    <2> HIDE DEF first, gains, dcg
    <2> QED
      BY <2>2, <2>3, <2>4
  <1>6. /\ S!Cardinality(S!Found(RecallK)) <= Cardinality(S!Found(MaxRanked))
        /\ Cardinality(S!Found(MaxRanked)) <= S!Cardinality(S!Relevant)
        /\ S!Cardinality(S!Found(RecallK)) > 0 <=> S!Found(RecallK) # {}
    <2>1. IsFiniteSet(S!Relevant) /\ \A k : S!Matches(k) \subseteq S!Relevant
      BY RelevantIsGraded
    <2>2. DOMAIN v2 = 1..nr
      BY RelevantIsGraded
    <2>3. \A j \in DOMAIN v2 : j <= MaxRanked
      BY <1>1, <2>2
    <2>4. S!Found(RecallK) \subseteq S!Found(MaxRanked) /\ S!Found(MaxRanked) \subseteq S!Relevant
      BY <2>1, <2>3 DEF S!Found
    <2>5. IsFiniteSet(S!Found(MaxRanked))
      BY <2>1, <2>4, FS_Subset
    <2>6. /\ IsFiniteSet(S!Found(RecallK))
          /\ Cardinality(S!Found(RecallK)) <= Cardinality(S!Found(MaxRanked))
          /\ Cardinality(S!Found(MaxRanked)) <= Cardinality(S!Relevant)
      BY <2>1, <2>4, <2>5, FS_Subset
    <2>7. Cardinality(S!Found(RecallK)) \in Nat /\ (Cardinality(S!Found(RecallK)) = 0 <=> S!Found(RecallK) = {})
      BY <2>6, FS_CardinalityType, FS_EmptySet
    <2> QED
      BY <2>6, <2>7, SameCounts
  <1> HIDE DEF first, gains, dcg, ideal
  <1>7. /\ S!Hit(1) <=> first = 1
        /\ S!Hit(HitK) <=> first \in 1..HitK
        /\ S!Found(RecallK) # {} <=> first \in 1..RecallK
        /\ S!Found(MaxRanked) = {} <=> first = 0
    <2>1. S!Hit(1) <=> first \in 1..1
      <3>1. 1 \in Nat
        OBVIOUS
      <3> QED
        BY <1>2, <3>1
    <2>2. first \in 0..MaxRanked
      BY <1>1, <1>2
    <2>3. S!Found(MaxRanked) # {} <=> first \in 1..MaxRanked
      BY <1>1, <1>2
    <2> QED
      BY <1>1, <1>2, <2>1, <2>2, <2>3
  <1> QED
    BY <1>3, <1>4, <1>5, <1>6, <1>7 DEF Agrees, ScoreOf, first, gains, dcg, ideal

LEMMA ScoreKeeps ==
  ASSUME S!ConstantsAssumption, S!IInv, S!Score
  PROVE  S!IInv'
  <1>1. v1' = v1 /\ v2' = v2 /\ v2 # <<>> /\ v3' = ScoreOf
    BY DEF S!Score, ScoreOf
  <1>2. /\ \E n \in 1..MaxEvidence : v1 \in [1..n -> S!Evidence]
        /\ \A m, n \in DOMAIN v1 : v1[m].blocks = v1[n].blocks => m = n
        /\ S!Relevant # {}
        /\ \E n \in 1..MaxRanked : v2 \in [1..n -> SUBSET Blocks]
    BY <1>1 DEF S!IInv
  <1>3. \E ne, nr : Case(ne, nr)
    <2>1. PICK ne \in 1..MaxEvidence : v1 \in [1..ne -> S!Evidence]
      BY <1>2
    <2>2. PICK nr \in 1..MaxRanked : v2 \in [1..nr -> SUBSET Blocks]
      BY <1>2
    <2>3. ne \in Nat /\ MaxRanked \in Nat /\ nr \in 0..MaxRanked
      BY DEF S!ConstantsAssumption
    <2> QED
      BY <2>1, <2>2, <2>3 DEF Case
  <1>4. Agrees(ScoreOf)
    BY <1>3, ScoreAgrees
  <1>5. S!Relevant' = S!Relevant
    BY <1>1 DEF S!Relevant
  <1>6. S!Gains' = S!Gains /\ S!IdealGrades' = S!IdealGrades
    BY <1>1 DEF S!Gains, S!IdealGrades, S!ByRelevance, S!Best, S!Matches, S!Relevant
  <1>7. S!MetricsAgree'
    BY <1>1, <1>4, <1>6, SameCounts DEF Agrees, S!MetricsAgree, S!NdcgIsAShare
  <1>8. v3'.scored
    BY <1>1 DEF ScoreOf
  <1> QED
    BY <1>1, <1>2, <1>5, <1>7, <1>8 DEF S!IInv, S!Evidence, S!NoScore

LEMMA ScoresNext ==
  ASSUME S!ConstantsAssumption, S!IInv, [S!Next]_(S!vars)
  PROVE  S!IInv'
  <1>1. CASE UNCHANGED S!vars
    <2>1. v1' = v1 /\ v2' = v2 /\ v3' = v3
      BY <1>1 DEF S!vars
    <2>2. S!Relevant' = S!Relevant
      BY <2>1 DEF S!Relevant
    <2>3. S!Gains' = S!Gains /\ S!IdealGrades' = S!IdealGrades
      BY <2>1 DEF S!Gains, S!IdealGrades, S!ByRelevance, S!Best, S!Matches, S!Relevant
    <2>4. S!MetricsAgree'
      BY <2>1, <2>3 DEF S!IInv, S!MetricsAgree, S!NdcgIsAShare
    <2> QED
      BY <2>1, <2>2, <2>4 DEF S!IInv, S!NoScore, S!Evidence
  <1> QED
    BY <1>1, LoadCaseKeeps, RetrieveKeeps, ScoreKeeps DEF S!Next

-----------------------------------------------------------------------------
(* EmbeddingConfigs: v1 config, v2 selected, v3 document, v4 spaces,       *)
(* v5 run, v6 edit, v7 question, v8 overlapped.  Why a signature is enough *)
(* to keep models apart.                                                   *)

(* What is read of a knowledge base names a model in use.                  *)
LEMMA SnapshotsAreUsed ==
  ASSUME E!ConstantsAssumption, E!TypeOK, NEW c \in Configs, E!Present(c)
  PROVE  E!Snapshot(c) \in E!Snapshots /\ E!Snapshot(c) \in E!Uses
  <1>1. c # NoConfig
    BY DEF E!ConstantsAssumption
  <1>2. v1[c] \in [model : Models \cup {NoModel}, revision : Nat] /\ v1[c].model # NoModel
    BY DEF E!TypeOK, E!Present
  <1> QED
    BY <1>1, <1>2 DEF E!Snapshot, E!Snapshots, E!Uses

LEMMA ChosenIsUsed ==
  ASSUME E!ConstantsAssumption, E!TypeOK, E!SelectionExists
  PROVE  E!Chosen \in E!Snapshots /\ E!Chosen \in E!Uses
  <1>1. CASE v2 = NoConfig
    BY <1>1 DEF E!Chosen, E!Snapshot, E!Without, E!Snapshots, E!Uses
  <1>2. CASE v2 # NoConfig
    <2>1. v2 \in Configs /\ E!Present(v2)
      BY <1>2 DEF E!TypeOK, E!SelectionExists
    <2> QED
      BY <2>1, SnapshotsAreUsed DEF E!Chosen
  <1> QED
    BY <1>1, <1>2

(* Uses are typed.                                                         *)
LEMMA UsesAreSnapshots ==
  ASSUME E!ConstantsAssumption, E!TypeOK, NEW s \in E!Uses
  PROVE  s \in E!Snapshots
  <1>1. CASE s \in {E!Without, v7.by}
    BY <1>1 DEF E!TypeOK, E!Without, E!Snapshots
  <1>2. CASE s \in {v5[d].by : d \in Files}
    BY <1>2 DEF E!TypeOK
  <1>3. CASE s \in {E!Snapshot(c) : c \in {c \in Configs : E!Present(c)}}
    BY <1>3, SnapshotsAreUsed
  <1>4. CASE s \in UNION {E!Held(d) : d \in Files}
    <2>1. PICK d \in Files : s \in E!Held(d)
      BY <1>4
    <2>2. PICK m \in v3[d].vectors :
            s = [config |-> v3[d].signature.config,
                 revision |-> v3[d].signature.revision, model |-> m]
      BY <2>1 DEF E!Held
    <2>3. v3[d].signature \in E!Signatures /\ v3[d].vectors \subseteq E!AnyModel
      BY DEF E!TypeOK
    <2> QED
      BY <2>2, <2>3 DEF E!Signatures, E!Snapshots, E!AnyModel
  <1> QED
    BY <1>1, <1>2, <1>3, <1>4 DEF E!Uses

-----------------------------------------------------------------------------
(* Nothing new is in use, and no revision goes back.                       *)
LEMMA NothingNew ==
  ASSUME E!ConstantsAssumption, E!TypeOK, E!Agreement, v8' = v8,
         E!TypeOK', E!Uses' \subseteq E!Uses,
         \A c \in Configs : v1'[c].revision >= v1[c].revision
  PROVE  E!Agreement'
  <1> SUFFICES ASSUME ~v8
               PROVE  E!SignaturesAgree' /\ E!RevisionsAreSpent'
    BY DEF E!Agreement
  <1>1. E!SignaturesAgree /\ E!RevisionsAreSpent
    BY DEF E!Agreement
  <1>2. E!SignaturesAgree'
    BY <1>1 DEF E!SignaturesAgree, E!Signature
  <1>3. E!RevisionsAreSpent'
    <2> SUFFICES ASSUME NEW s \in E!Uses', s.config # NoConfig
                 PROVE  0 < s.revision /\ s.revision <= v1'[s.config].revision
      BY DEF E!RevisionsAreSpent
    <2>1. s \in E!Uses
      OBVIOUS
    <2>2. 0 < s.revision /\ s.revision <= v1[s.config].revision
      BY <1>1, <2>1 DEF E!RevisionsAreSpent
    <2>3. s.config \in Configs /\ s.revision \in Nat
      BY <2>1, UsesAreSnapshots DEF E!Snapshots
    <2>4. v1[s.config].revision \in Nat /\ v1'[s.config].revision \in Nat
      BY <2>3 DEF E!TypeOK
    <2> QED
      BY <2>2, <2>3, <2>4
  <1> QED
    BY <1>2, <1>3

(* A revision that nothing uses yet is given to one model.                 *)
LEMMA NewRevision ==
  ASSUME E!ConstantsAssumption, E!TypeOK, E!SignaturesAgree, E!RevisionsAreSpent,
         NEW c \in Configs, NEW m \in Models,
         v1' = [v1 EXCEPT ![c] = [model |-> m, revision |-> v1[c].revision + 1]],
         E!Uses' \subseteq E!Uses \cup {[config |-> c, revision |-> v1[c].revision + 1, model |-> m]}
  PROVE  E!SignaturesAgree' /\ E!RevisionsAreSpent'
  <1> DEFINE new == [config |-> c, revision |-> v1[c].revision + 1, model |-> m]
  <1>1. /\ v1[c].revision \in Nat
        /\ v1'[c].revision = v1[c].revision + 1
        /\ \A k \in Configs : k # c => v1'[k] = v1[k]
    BY DEF E!TypeOK
  <1>2. \A s \in E!Uses : s.config \in Configs \cup {NoConfig} /\ s.revision \in Nat
    BY UsesAreSnapshots DEF E!Snapshots
  <1>3. c # NoConfig
    BY DEF E!ConstantsAssumption
  <1>4. \A s \in E!Uses : E!Signature(s) # E!Signature(new)
    <2> SUFFICES ASSUME NEW s \in E!Uses, E!Signature(s) = E!Signature(new) PROVE FALSE
      OBVIOUS
    <2>1. s.config = c /\ s.revision = v1[c].revision + 1
      BY DEF E!Signature
    <2>2. s.revision <= v1[c].revision
      BY <2>1, <1>3 DEF E!RevisionsAreSpent
    <2> QED
      BY <2>1, <2>2, <1>1
  <1>5. E!SignaturesAgree'
    <2> SUFFICES ASSUME NEW s \in E!Uses', NEW t \in E!Uses', E!Signature(s) = E!Signature(t)
                 PROVE  s.model = t.model
      BY DEF E!SignaturesAgree, E!Signature
    <2>1. CASE s \in E!Uses /\ t \in E!Uses
      BY <2>1 DEF E!SignaturesAgree
    <2>2. CASE s = new /\ t = new
      BY <2>2
    <2>3. CASE s \in E!Uses /\ t = new
      BY <2>3, <1>4
    <2>4. CASE s = new /\ t \in E!Uses
      BY <2>4, <1>4
    <2> QED
      BY <2>1, <2>2, <2>3, <2>4
  <1>6. E!RevisionsAreSpent'
    <2> SUFFICES ASSUME NEW s \in E!Uses', s.config # NoConfig
                 PROVE  0 < s.revision /\ s.revision <= v1'[s.config].revision
      BY DEF E!RevisionsAreSpent
    <2>1. CASE s \in E!Uses
      <3>1. 0 < s.revision /\ s.revision <= v1[s.config].revision /\ s.config \in Configs
        BY <2>1, <1>2 DEF E!RevisionsAreSpent
      <3>2. CASE s.config = c
        BY <3>1, <3>2, <2>1, <1>1, <1>2
      <3>3. CASE s.config # c
        BY <3>1, <3>3, <1>1
      <3> QED
        BY <3>2, <3>3
    <2>2. CASE s = new
      BY <2>2, <1>1
    <2> QED
      BY <2>1, <2>2
  <1> QED
    BY <1>5, <1>6

-----------------------------------------------------------------------------
LEMMA ModelsInit ==
  ASSUME E!ConstantsAssumption, E!Init
  PROVE  E!IInv
  <1> USE DEF E!Init, E!Without, E!NoRun, E!Quiet
  <1>1. E!TypeOK
    BY DEF E!TypeOK, E!Snapshots, E!Signatures, E!Signature, E!AnyModel
  <1>2. E!SelectionExists /\ E!RunsHaveOneModel /\ E!RowsAreTheVectors /\ E!CandidatesAreRows /\ E!SameModel
    BY DEF E!SelectionExists, E!RunsHaveOneModel, E!RowsAreTheVectors, E!CandidatesAreRows, E!SameModel
  <1>3. E!Uses \subseteq {E!Without}
    <2>1. \A d \in Files : E!Held(d) = {} /\ v5[d].by = E!Without
      BY DEF E!Held
    <2>2. \A c \in Configs : ~E!Present(c)
      BY DEF E!Present
    <2> QED
      BY <2>1, <2>2 DEF E!Uses
  <1>4. E!Agreement
    BY <1>3 DEF E!Agreement, E!SignaturesAgree, E!RevisionsAreSpent
  <1> QED
    BY <1>1, <1>2, <1>4 DEF E!IInv


-----------------------------------------------------------------------------
(* The parts of the invariant that a step leaves alone.                    *)
LEMMA DocumentsKept ==
  ASSUME E!IInv, UNCHANGED <<v3, v7>>
  PROVE  E!RowsAreTheVectors' /\ E!CandidatesAreRows'
  BY DEF E!IInv, E!RowsAreTheVectors, E!CandidatesAreRows, E!Signature

LEMMA ComparedKept ==
  ASSUME E!IInv, UNCHANGED v7, v8 => v8'
  PROVE  E!SameModel'
  BY DEF E!IInv, E!SameModel

LEMMA CreateConfigInv ==
  ASSUME E!ConstantsAssumption, E!IInv, NEW c \in Configs, NEW m \in Models, E!CreateConfig(c, m)
  PROVE  E!IInv'
  <1> USE DEF E!CreateConfig
  <1>1. E!TypeOK /\ E!Agreement /\ v1[c].revision = 0
    BY DEF E!IInv
  <1>2. E!TypeOK'
    BY <1>1 DEF E!TypeOK
  <1>3. v1' = [v1 EXCEPT ![c] = [model |-> m, revision |-> v1[c].revision + 1]]
    BY <1>1
  <1>4. E!Uses' \subseteq E!Uses \cup {[config |-> c, revision |-> v1[c].revision + 1, model |-> m]}
    <2>1. \A k \in Configs : k # c => E!Snapshot(k)' = E!Snapshot(k) /\ (E!Present(k)' <=> E!Present(k))
      BY <1>1 DEF E!Snapshot, E!Present, E!TypeOK
    <2>2. E!Snapshot(c)' = [config |-> c, revision |-> v1[c].revision + 1, model |-> m]
      BY <1>1, <1>3 DEF E!Snapshot, E!TypeOK, E!ConstantsAssumption
    <2> QED
      BY <2>1, <2>2 DEF E!Uses, E!Held
  <1>5. E!Agreement'
    BY <1>1, <1>3, <1>4, NewRevision DEF E!Agreement
  <1>6. E!SelectionExists'
    BY <1>1 DEF E!IInv, E!SelectionExists, E!Present, E!TypeOK, E!ConstantsAssumption
  <1>7. E!RunsHaveOneModel'
    BY DEF E!IInv, E!RunsHaveOneModel
  <1> QED
    BY <1>2, <1>5, <1>6, <1>7, DocumentsKept, ComparedKept DEF E!IInv

LEMMA EditReadInv ==
  ASSUME E!ConstantsAssumption, E!IInv, NEW e \in Editors, NEW c \in Configs, E!EditRead(e, c)
  PROVE  E!IInv'
  <1> USE DEF E!EditRead
  <1>1. E!TypeOK /\ E!Snapshot(c) \in E!Snapshots
    BY SnapshotsAreUsed DEF E!IInv
  <1>2. E!TypeOK'
    BY <1>1 DEF E!TypeOK
  <1>3. E!Uses' = E!Uses
    BY DEF E!Uses, E!Held, E!Snapshot, E!Present
  <1>4. E!Agreement'
    <2>1. \A k \in Configs : v1'[k].revision >= v1[k].revision
      BY <1>1 DEF E!TypeOK
    <2> QED
      BY <1>1, <1>2, <1>3, <2>1, NothingNew DEF E!IInv
  <1>5. E!SelectionExists' /\ E!RunsHaveOneModel'
    BY DEF E!IInv, E!SelectionExists, E!Present, E!RunsHaveOneModel
  <1> QED
    BY <1>2, <1>4, <1>5, DocumentsKept, ComparedKept DEF E!IInv

LEMMA EditSaveInv ==
  ASSUME E!ConstantsAssumption, E!IInv, NEW e \in Editors, NEW m \in Models, E!EditSave(e, m)
  PROVE  E!IInv'
  <1> DEFINE read == v6[e]
             saved == [model |-> m,
                       revision |-> IF m = read.model THEN read.revision ELSE read.revision + 1]
  <1>1. /\ read # E!Without
        /\ v1' = [v1 EXCEPT ![read.config] = saved]
        /\ v8' = (v8 \/ E!Snapshot(read.config) # read)
        /\ v6' = [v6 EXCEPT ![e] = E!Without]
        /\ UNCHANGED <<v2, v3, v4, v5, v7>>
    BY DEF E!EditSave
  <1>2. E!TypeOK /\ E!Agreement /\ read \in E!Snapshots
    BY DEF E!IInv, E!TypeOK
  <1>3. saved \in [model : Models \cup {NoModel}, revision : Nat] /\ E!Without \in E!Snapshots
    BY <1>2 DEF E!Snapshots, E!Without
  <1>4. E!TypeOK'
    BY <1>1, <1>2, <1>3 DEF E!TypeOK
  <1>5. E!Agreement'
    <2> SUFFICES ASSUME ~v8, E!Snapshot(read.config) = read
                 PROVE  E!SignaturesAgree' /\ E!RevisionsAreSpent'
      BY <1>1 DEF E!Agreement
    <2>1. E!SignaturesAgree /\ E!RevisionsAreSpent
      BY <1>2 DEF E!Agreement
    <2>2. read.config \in Configs
      BY <1>1, <1>2 DEF E!Snapshot, E!Snapshots
    <2>3. read = [config |-> read.config, revision |-> v1[read.config].revision,
                  model |-> v1[read.config].model]
      BY <2>2 DEF E!Snapshot, E!ConstantsAssumption
    <2>4. v1[read.config] = [model |-> read.model, revision |-> read.revision]
      <3>1. v1[read.config] \in [model : Models \cup {NoModel}, revision : Nat]
        BY <1>2, <2>2 DEF E!TypeOK
      <3> QED
        BY <2>3, <3>1
    <2>5. CASE m = read.model
      <3>1. v1' = v1
        BY <1>1, <1>2, <2>4, <2>5 DEF E!TypeOK
      <3>2. E!Uses' = E!Uses
        BY <1>1, <3>1 DEF E!Uses, E!Held, E!Snapshot, E!Present
      <3> QED
        BY <2>1, <3>1, <3>2 DEF E!SignaturesAgree, E!RevisionsAreSpent, E!Signature
    <2>6. CASE m # read.model
      <3>1. PICK c \in Configs : c = read.config
        BY <2>2
      <3>2. v1' = [v1 EXCEPT ![c] = [model |-> m, revision |-> v1[c].revision + 1]]
        <4>1. saved = [model |-> m, revision |-> v1[c].revision + 1]
          BY <2>4, <2>6, <3>1
        <4> HIDE DEF saved
        <4> QED
          BY <1>1, <3>1, <4>1
      <3>3. \A k \in Configs : k # c => E!Snapshot(k)' = E!Snapshot(k) /\ (E!Present(k)' <=> E!Present(k))
        BY <1>2, <3>2 DEF E!Snapshot, E!Present, E!TypeOK
      <3>4. E!Snapshot(c)' = [config |-> c, revision |-> v1[c].revision + 1, model |-> m]
        BY <1>2, <3>2 DEF E!Snapshot, E!TypeOK, E!ConstantsAssumption
      <3>5. E!Uses' \subseteq E!Uses \cup
              {[config |-> c, revision |-> v1[c].revision + 1, model |-> m]}
        BY <1>1, <3>3, <3>4 DEF E!Uses, E!Held
      <3> QED
        BY <1>2, <2>1, <3>2, <3>5, NewRevision
    <2> QED
      BY <2>5, <2>6
  <1>6. E!SelectionExists'
    BY <1>1, <1>2 DEF E!IInv, E!SelectionExists, E!Present, E!TypeOK, E!ConstantsAssumption
  <1>7. E!RunsHaveOneModel'
    BY <1>1 DEF E!IInv, E!RunsHaveOneModel
  <1> QED
    BY <1>1, <1>4, <1>5, <1>6, <1>7, DocumentsKept, ComparedKept DEF E!IInv

LEMMA DeleteConfigInv ==
  ASSUME E!ConstantsAssumption, E!IInv, NEW c \in Configs, E!DeleteConfig(c)
  PROVE  E!IInv'
  <1> USE DEF E!DeleteConfig
  <1>1. E!TypeOK /\ E!Agreement
    BY DEF E!IInv
  <1>2. E!TypeOK'
    BY <1>1 DEF E!TypeOK
  <1>3. E!Uses' \subseteq E!Uses
    <2>1. \A k \in Configs : E!Present(k)' => E!Present(k) /\ E!Snapshot(k)' = E!Snapshot(k)
      BY <1>1 DEF E!Snapshot, E!Present, E!TypeOK
    <2> QED
      BY <2>1 DEF E!Uses, E!Held
  <1>4. \A k \in Configs : v1'[k].revision >= v1[k].revision
    BY <1>1 DEF E!TypeOK
  <1>5. E!Agreement'
    BY <1>1, <1>2, <1>3, <1>4, NothingNew
  <1>6. E!SelectionExists'
    BY <1>1 DEF E!IInv, E!SelectionExists, E!Present, E!TypeOK
  <1>7. E!RunsHaveOneModel'
    BY DEF E!IInv, E!RunsHaveOneModel
  <1> QED
    BY <1>2, <1>5, <1>6, <1>7, DocumentsKept, ComparedKept DEF E!IInv

LEMMA SelectConfigInv ==
  ASSUME E!ConstantsAssumption, E!IInv, NEW c \in Configs \cup {NoConfig}, E!SelectConfig(c)
  PROVE  E!IInv'
  <1> USE DEF E!SelectConfig
  <1>1. E!TypeOK /\ E!TypeOK'
    BY DEF E!IInv, E!TypeOK
  <1>2. E!Uses' = E!Uses
    BY DEF E!Uses, E!Held, E!Snapshot, E!Present
  <1>3. E!Agreement'
    <2>1. \A k \in Configs : v1'[k].revision >= v1[k].revision
      BY <1>1 DEF E!TypeOK
    <2> QED
      BY <1>1, <1>2, <2>1, NothingNew DEF E!IInv
  <1>4. E!SelectionExists' /\ E!RunsHaveOneModel'
    BY DEF E!IInv, E!SelectionExists, E!Present, E!RunsHaveOneModel
  <1> QED
    BY <1>1, <1>3, <1>4, DocumentsKept, ComparedKept DEF E!IInv

LEMMA LoadInv ==
  ASSUME E!ConstantsAssumption, E!IInv, NEW d \in Files, E!Load(d)
  PROVE  E!IInv'
  <1> USE DEF E!Load
  <1>1. E!TypeOK /\ E!Chosen \in E!Snapshots /\ E!Chosen \in E!Uses
    BY ChosenIsUsed DEF E!IInv
  <1>2. E!TypeOK'
    BY <1>1 DEF E!TypeOK, E!ConstantsAssumption
  <1>3. E!Uses' \subseteq E!Uses
    <2>1. \A k \in Files : v5'[k].by = IF k = d THEN E!Chosen ELSE v5[k].by
      BY <1>1 DEF E!TypeOK
    <2>2. \A k \in Files : v5[k].by \in E!Uses
      BY DEF E!Uses
    <2>3. {v5'[k].by : k \in Files} \subseteq E!Uses
      BY <1>1, <2>1, <2>2
    <2> QED
      BY <2>3 DEF E!Uses, E!Held, E!Snapshot, E!Present
  <1>4. E!Agreement'
    <2>1. \A k \in Configs : v1'[k].revision >= v1[k].revision
      BY <1>1 DEF E!TypeOK
    <2> QED
      BY <1>1, <1>2, <1>3, <2>1, NothingNew DEF E!IInv
  <1>5. E!SelectionExists' /\ E!RunsHaveOneModel'
    BY <1>1 DEF E!IInv, E!SelectionExists, E!Present, E!RunsHaveOneModel, E!TypeOK
  <1> QED
    BY <1>2, <1>4, <1>5, DocumentsKept, ComparedKept DEF E!IInv

LEMMA EmbedInv ==
  ASSUME E!ConstantsAssumption, E!IInv, NEW d \in Files, E!Embed(d)
  PROVE  E!IInv'
  <1> USE DEF E!Embed
  <1>1. E!TypeOK /\ v5[d].by.model \in E!AnyModel /\ v5[d].left - 1 \in Nat
    BY DEF E!IInv, E!TypeOK, E!Snapshots, E!AnyModel
  <1>2. E!TypeOK'
    BY <1>1 DEF E!TypeOK
  <1>3. \A k \in Files : v5'[k].by = v5[k].by
    BY <1>1 DEF E!TypeOK
  <1>4. E!Uses' = E!Uses
    <2>1. {v5'[k].by : k \in Files} = {v5[k].by : k \in Files}
      BY <1>3
    <2>2. \A k \in Files : E!Held(k)' = E!Held(k)
      BY DEF E!Held
    <2>3. {E!Snapshot(c) : c \in {c \in Configs : E!Present(c)}}' = {E!Snapshot(c) : c \in {c \in Configs : E!Present(c)}}
      BY DEF E!Snapshot, E!Present
    <2>4. (UNION {E!Held(k) : k \in Files})' = UNION {E!Held(k) : k \in Files}
      BY <2>2
    <2>5. v7' = v7
      OBVIOUS
    <2> QED
      BY <2>1, <2>3, <2>4, <2>5 DEF E!Uses
  <1>5. E!Agreement'
    <2>1. \A k \in Configs : v1'[k].revision >= v1[k].revision
      BY <1>1 DEF E!TypeOK
    <2> QED
      BY <1>1, <1>2, <1>4, <2>1, NothingNew DEF E!IInv
  <1>6. E!SelectionExists'
    BY DEF E!IInv, E!SelectionExists, E!Present
  <1>7. E!RunsHaveOneModel'
    BY <1>1, <1>3 DEF E!IInv, E!RunsHaveOneModel, E!TypeOK
  <1> QED
    BY <1>2, <1>5, <1>6, <1>7, DocumentsKept, ComparedKept DEF E!IInv

(* A run that is over uses no signature.                                   *)
LEMMA OverUsesNothing ==
  ASSUME E!TypeOK, NEW d \in Files, v5' = [v5 EXCEPT ![d] = E!NoRun]
  PROVE  \A k \in Files : v5'[k].by \in {v5[k].by, E!Without}
  BY DEF E!TypeOK, E!NoRun

LEMMA RunFailsInv ==
  ASSUME E!ConstantsAssumption, E!IInv, NEW d \in Files, E!RunFails(d)
  PROVE  E!IInv'
  <1> USE DEF E!RunFails
  <1>1. E!TypeOK /\ E!NoRun \in [phase : {"idle", "embedding"}, by : E!Snapshots,
                             vectors : SUBSET E!AnyModel, left : Nat]
    BY DEF E!IInv, E!NoRun, E!Without, E!Snapshots
  <1>2. E!TypeOK'
    BY <1>1 DEF E!TypeOK
  <1>3. E!Uses' \subseteq E!Uses
    <2>1. {v5'[k].by : k \in Files} \subseteq {v5[k].by : k \in Files} \cup {E!Without}
      BY <1>1, OverUsesNothing
    <2> QED
      BY <2>1 DEF E!Uses, E!Held, E!Snapshot, E!Present
  <1>4. E!Agreement'
    <2>1. \A k \in Configs : v1'[k].revision >= v1[k].revision
      BY <1>1 DEF E!TypeOK
    <2> QED
      BY <1>1, <1>2, <1>3, <2>1, NothingNew DEF E!IInv
  <1>5. E!SelectionExists'
    BY DEF E!IInv, E!SelectionExists, E!Present
  <1>6. E!RunsHaveOneModel'
    BY <1>1 DEF E!IInv, E!RunsHaveOneModel, E!TypeOK, E!NoRun
  <1> QED
    BY <1>2, <1>4, <1>5, <1>6, DocumentsKept, ComparedKept DEF E!IInv

LEMMA CommitInv ==
  ASSUME E!ConstantsAssumption, E!IInv, NEW d \in Files, E!Commit(d)
  PROVE  E!IInv'
  <1> DEFINE new == [signature |-> E!Signature(v5[d].by), vectors |-> v5[d].vectors,
                     rows |-> [space : {E!Signature(E!Chosen)}, model : v5[d].vectors],
                     version |-> v3[d].version + 1]
  <1>1. /\ v3' = [v3 EXCEPT ![d] = new]
        /\ v4' = v4 \cup {E!Signature(E!Chosen)}
        /\ v5' = [v5 EXCEPT ![d] = E!NoRun]
        /\ UNCHANGED <<v1, v2, v6, v7, v8>>
    BY DEF E!Commit, E!Replace
  <1>2. /\ E!TypeOK /\ E!Chosen \in E!Snapshots /\ v5[d].by \in E!Snapshots
        /\ v5[d].vectors \subseteq E!AnyModel /\ v5[d].vectors \subseteq {v5[d].by.model}
        /\ v3[d].version \in Nat
    BY ChosenIsUsed DEF E!IInv, E!TypeOK, E!RunsHaveOneModel
  <1>3. E!Signature(E!Chosen) \in E!Signatures /\ E!Signature(v5[d].by) \in E!Signatures
    BY <1>2 DEF E!Signature, E!Signatures, E!Snapshots
  <1>4. new \in [signature : E!Signatures, vectors : SUBSET E!AnyModel,
                 rows : SUBSET [space : E!Signatures, model : E!AnyModel], version : Nat]
    BY <1>2, <1>3
  <1>5. E!NoRun \in [phase : {"idle", "embedding"}, by : E!Snapshots,
                   vectors : SUBSET E!AnyModel, left : Nat]
    BY DEF E!NoRun, E!Without, E!Snapshots
  <1> HIDE DEF new
  <1>6. E!TypeOK'
    BY <1>1, <1>2, <1>3, <1>4, <1>5 DEF E!TypeOK
  <1>7. E!Uses' \subseteq E!Uses
    <2>1. \A k \in Files : k # d => v3'[k] = v3[k]
      BY <1>1, <1>2 DEF E!TypeOK
    <2>2. \A k \in Files : k # d => E!Held(k)' = E!Held(k)
      BY <2>1 DEF E!Held
    <2>3. v3'[d] = new
      BY <1>1, <1>2 DEF E!TypeOK
    <2>4. E!Held(d)' \subseteq {v5[d].by}
      <3>1. E!Held(d)' = {[config |-> v5[d].by.config, revision |-> v5[d].by.revision, model |-> m] :
                          m \in v5[d].vectors}
        BY <2>3 DEF new, E!Held, E!Signature
      <3>2. v5[d].by = [config |-> v5[d].by.config, revision |-> v5[d].by.revision,
                         model |-> v5[d].by.model]
        BY <1>2 DEF E!Snapshots
      <3> QED
        BY <1>2, <3>1, <3>2
    <2>5. (UNION {E!Held(k) : k \in Files})' \subseteq E!Uses
      BY <2>2, <2>4 DEF E!Uses
    <2> QED
      BY <1>1, <1>2, <2>5, OverUsesNothing DEF E!Uses, E!Snapshot, E!Present
  <1>8. E!Agreement'
    <2>1. \A k \in Configs : v1'[k].revision >= v1[k].revision
      BY <1>1, <1>2 DEF E!TypeOK
    <2> QED
      BY <1>1, <1>2, <1>6, <1>7, <2>1, NothingNew DEF E!IInv
  <1>9. E!SelectionExists'
    BY <1>1 DEF E!IInv, E!SelectionExists, E!Present
  <1>10. E!RunsHaveOneModel'
    BY <1>1, <1>2 DEF E!IInv, E!RunsHaveOneModel, E!TypeOK, E!NoRun
  <1>11. E!RowsAreTheVectors'
    BY <1>1, <1>2 DEF E!IInv, E!RowsAreTheVectors, E!TypeOK, new
  <1>12. E!CandidatesAreRows'
    <2> SUFFICES ASSUME NEW x \in v7.found
                 PROVE  /\ x.version <= v3'[x.document].version
                        /\ /\ x.version = v3'[x.document].version
                           /\ v3'[x.document].signature = E!Signature(v7.by)
                           => x.model \in v3'[x.document].vectors
      BY <1>1 DEF E!CandidatesAreRows, E!Signature
    <2>1. /\ x.document \in Files /\ x.version \in Nat
          /\ x.version <= v3[x.document].version
          /\ /\ x.version = v3[x.document].version
             /\ v3[x.document].signature = E!Signature(v7.by)
             => x.model \in v3[x.document].vectors
      BY <1>2 DEF E!IInv, E!TypeOK, E!CandidatesAreRows
    <2>2. CASE x.document = d
      <3>1. v3'[d].version = v3[d].version + 1
        BY <1>1, <1>2 DEF E!TypeOK, new
      <3> QED
        BY <1>2, <2>1, <2>2, <3>1
    <2>3. CASE x.document # d
      <3>1. v3'[x.document] = v3[x.document]
        BY <1>1, <1>2, <2>1, <2>3 DEF E!TypeOK
      <3> QED
        BY <2>1, <3>1
    <2> QED
      BY <2>2, <2>3
  <1> QED
    BY <1>1, <1>6, <1>8, <1>9, <1>10, <1>11, <1>12, ComparedKept DEF E!IInv

LEMMA BackfillInv ==
  ASSUME E!ConstantsAssumption, E!IInv, NEW d \in Files, NEW s \in v4, E!Backfill(d, s)
  PROVE  E!IInv'
  <1>1. /\ v3' = [v3 EXCEPT ![d].rows =
             {r \in @ : r.space # s} \cup [space : {s}, model : v3[d].vectors]]
        /\ UNCHANGED <<v1, v2, v4, v5, v6, v7, v8>>
    BY DEF E!Backfill
  <1>2. E!TypeOK /\ s \in E!Signatures /\ v3[d].vectors \subseteq E!AnyModel
    BY DEF E!IInv, E!TypeOK
  <1>3. [space : {s}, model : v3[d].vectors] \subseteq [space : E!Signatures, model : E!AnyModel]
    BY <1>2
  <1>4. \A k \in Files :
          /\ v3'[k].signature = v3[k].signature
          /\ v3'[k].vectors = v3[k].vectors
          /\ v3'[k].version = v3[k].version
          /\ v3'[k].rows =
               IF k = d THEN {r \in v3[k].rows : r.space # s}
                               \cup [space : {s}, model : v3[d].vectors]
               ELSE v3[k].rows
    BY <1>1, <1>2 DEF E!TypeOK
  <1>5. E!TypeOK'
    BY <1>1, <1>2, <1>3 DEF E!TypeOK
  <1>6. E!Uses' = E!Uses
    BY <1>1, <1>4 DEF E!Uses, E!Held, E!Snapshot, E!Present
  <1>7. E!Agreement'
    <2>1. \A k \in Configs : v1'[k].revision >= v1[k].revision
      BY <1>1, <1>2 DEF E!TypeOK
    <2> QED
      BY <1>1, <1>2, <1>5, <1>6, <2>1, NothingNew DEF E!IInv
  <1>8. E!SelectionExists' /\ E!RunsHaveOneModel'
    BY <1>1 DEF E!IInv, E!SelectionExists, E!Present, E!RunsHaveOneModel
  <1>9. E!RowsAreTheVectors'
    <2> SUFFICES ASSUME NEW k \in Files, NEW r \in v3'[k].rows,
                        r.space = v3'[k].signature
                 PROVE  r.model \in v3'[k].vectors
      BY DEF E!RowsAreTheVectors
    <2>1. CASE r \in v3[k].rows
      BY <1>4, <2>1 DEF E!IInv, E!RowsAreTheVectors
    <2>2. CASE k = d /\ r \in [space : {s}, model : v3[d].vectors]
      BY <1>4, <2>2
    <2> QED
      BY <1>4, <2>1, <2>2
  <1>10. E!CandidatesAreRows'
    BY <1>1, <1>2, <1>4 DEF E!IInv, E!CandidatesAreRows, E!Signature, E!TypeOK
  <1> QED
    BY <1>1, <1>5, <1>7, <1>8, <1>9, <1>10, ComparedKept DEF E!IInv

LEMMA AskInv ==
  ASSUME E!ConstantsAssumption, E!IInv, E!Ask
  PROVE  E!IInv'
  <1>1. /\ v7' = [phase |-> "asked", by |-> E!Chosen, found |-> {}, compared |-> {}]
        /\ UNCHANGED <<v1, v2, v3, v4, v5, v6, v8>>
    BY DEF E!Ask, E!Quiet
  <1>2. E!TypeOK /\ E!Chosen \in E!Snapshots /\ E!Chosen \in E!Uses
    BY ChosenIsUsed DEF E!IInv
  <1>3. E!TypeOK'
    BY <1>1, <1>2 DEF E!TypeOK
  <1>4. E!Uses' \subseteq E!Uses
    BY <1>1, <1>2 DEF E!Uses, E!Held, E!Snapshot, E!Present
  <1>5. E!Agreement'
    <2>1. \A k \in Configs : v1'[k].revision >= v1[k].revision
      BY <1>1, <1>2 DEF E!TypeOK
    <2> QED
      BY <1>1, <1>2, <1>3, <1>4, <2>1, NothingNew DEF E!IInv
  <1>6. E!SelectionExists' /\ E!RunsHaveOneModel' /\ E!RowsAreTheVectors'
    BY <1>1 DEF E!IInv, E!SelectionExists, E!Present, E!RunsHaveOneModel, E!RowsAreTheVectors
  <1>7. E!CandidatesAreRows' /\ E!SameModel'
    BY <1>1 DEF E!CandidatesAreRows, E!SameModel
  <1> QED
    BY <1>3, <1>5, <1>6, <1>7 DEF E!IInv

LEMMA SearchSpaceInv ==
  ASSUME E!ConstantsAssumption, E!IInv, E!SearchSpace
  PROVE  E!IInv'
  <1> DEFINE candidates ==
        {x \in [document : Files, version : {v3[d].version : d \in Files},
                model : E!AnyModel] :
           /\ x.version = v3[x.document].version
           /\ \E r \in v3[x.document].rows :
                r.space = E!Signature(v7.by) /\ r.model = x.model}
  <1>1. /\ v7' = [v7 EXCEPT !.phase = "searched", !.found = candidates]
        /\ UNCHANGED <<v1, v2, v3, v4, v5, v6, v8>>
    BY DEF E!SearchSpace
  <1>2. E!TypeOK
    BY DEF E!IInv
  <1>3. candidates \subseteq [document : Files, version : Nat, model : E!AnyModel]
    BY <1>2 DEF E!TypeOK
  <1>4. \A x \in candidates :
          /\ x.version <= v3[x.document].version
          /\ v3[x.document].signature = E!Signature(v7.by)
             => x.model \in v3[x.document].vectors
    <2> SUFFICES ASSUME NEW x \in candidates
                 PROVE  /\ x.version <= v3[x.document].version
                        /\ v3[x.document].signature = E!Signature(v7.by)
                           => x.model \in v3[x.document].vectors
      OBVIOUS
    <2>1. x.document \in Files /\ v3[x.document].version \in Nat
      BY <1>2 DEF E!TypeOK
    <2>2. x.version <= v3[x.document].version
      BY <2>1
    <2>3. v3[x.document].signature = E!Signature(v7.by)
            => x.model \in v3[x.document].vectors
      BY <2>1 DEF E!IInv, E!RowsAreTheVectors
    <2> QED
      BY <2>2, <2>3
  <1> HIDE DEF candidates
  <1>5. v7'.by = v7.by /\ v7'.found = candidates
        /\ v7'.compared = v7.compared
    BY <1>1, <1>2 DEF E!TypeOK
  <1>6. E!TypeOK'
    BY <1>1, <1>2, <1>3 DEF E!TypeOK
  <1>7. E!Uses' = E!Uses
    BY <1>1, <1>5 DEF E!Uses, E!Held, E!Snapshot, E!Present
  <1>8. E!Agreement'
    <2>1. \A k \in Configs : v1'[k].revision >= v1[k].revision
      BY <1>1, <1>2 DEF E!TypeOK
    <2> QED
      BY <1>1, <1>2, <1>6, <1>7, <2>1, NothingNew DEF E!IInv
  <1>9. E!SelectionExists' /\ E!RunsHaveOneModel' /\ E!RowsAreTheVectors'
    BY <1>1 DEF E!IInv, E!SelectionExists, E!Present, E!RunsHaveOneModel, E!RowsAreTheVectors
  <1>10. E!CandidatesAreRows'
    BY <1>1, <1>4, <1>5 DEF E!CandidatesAreRows, E!Signature
  <1>11. E!SameModel'
    BY <1>1, <1>5 DEF E!IInv, E!SameModel
  <1> QED
    BY <1>6, <1>8, <1>9, <1>10, <1>11 DEF E!IInv

(* Vectors of a document that a question under a configuration lists are   *)
(* of the question's model.                                                *)
LEMMA ListedAgree ==
  ASSUME E!ConstantsAssumption, E!IInv, ~v8, v7.by.config # NoConfig,
         NEW d \in Files, E!Listed(d), NEW m \in v3[d].vectors
  PROVE  m = v7.by.model
  <1> DEFINE s == [config |-> v3[d].signature.config,
                   revision |-> v3[d].signature.revision, model |-> m]
  <1>1. s \in E!Uses /\ v7.by \in E!Uses
    BY DEF E!Uses, E!Held
  <1>2. v3[d].signature = E!Signature(v7.by)
    BY DEF E!Listed
  <1>3. E!Signature(s) = E!Signature(v7.by)
    BY <1>2 DEF E!Signature
  <1>4. E!SignaturesAgree
    BY DEF E!IInv, E!Agreement
  <1> QED
    BY <1>1, <1>3, <1>4 DEF E!SignaturesAgree

LEMMA ScoreInv ==
  ASSUME E!ConstantsAssumption, E!IInv, E!Score
  PROVE  E!IInv'
  <1> DEFINE kept == {y \in v7.found :
                        E!Listed(y.document) /\ y.version = v3[y.document].version}
             scored == IF v7.phase = "searched" THEN {x.model : x \in kept}
                       ELSE UNION {v3[d].vectors : d \in {d \in Files : E!Listed(d)}}
             pairs == [filtered : {v7.by.config # NoConfig}, asked : {v7.by.model},
                       held : scored]
  <1>1. /\ v7' = [phase |-> "idle", by |-> E!Without, found |-> {}, compared |-> pairs]
        /\ UNCHANGED <<v1, v2, v3, v4, v5, v6, v8>>
    BY DEF E!Score, E!Quiet
  <1>2. E!TypeOK /\ v7.by.model \in E!AnyModel /\ E!Without \in E!Snapshots
    BY DEF E!IInv, E!TypeOK, E!Snapshots, E!AnyModel, E!Without
  <1>3. scored \subseteq E!AnyModel
    <2>1. CASE v7.phase = "searched"
      BY <1>2, <2>1 DEF E!TypeOK
    <2>2. CASE v7.phase # "searched"
      BY <1>2, <2>2 DEF E!TypeOK
    <2> QED
      BY <2>1, <2>2
  <1>4. ASSUME ~v8, v7.by.config # NoConfig, NEW m \in scored
        PROVE  m = v7.by.model
    <2>1. CASE v7.phase = "searched"
      <3>1. PICK x \in kept : m = x.model
        BY <1>4, <2>1
      <3>2. x.document \in Files /\ E!Listed(x.document)
        BY <1>2 DEF E!TypeOK
      <3>3. v3[x.document].signature = E!Signature(v7.by)
        BY <1>4, <3>2 DEF E!Listed
      <3>4. x.model \in v3[x.document].vectors
        BY <3>3 DEF E!IInv, E!CandidatesAreRows
      <3> QED
        BY <1>4, <3>1, <3>2, <3>4, ListedAgree
    <2>2. CASE v7.phase # "searched"
      <3>1. PICK d \in Files : E!Listed(d) /\ m \in v3[d].vectors
        BY <1>4, <2>2
      <3> QED
        BY <1>4, <3>1, ListedAgree
    <2> QED
      BY <2>1, <2>2
  <1> HIDE DEF scored
  <1>5. pairs \in SUBSET [filtered : BOOLEAN, asked : E!AnyModel, held : E!AnyModel]
    BY <1>2, <1>3
  <1>6. E!SameModel'
    BY <1>1, <1>4 DEF E!SameModel
  <1> HIDE DEF pairs
  <1>7. E!TypeOK'
    BY <1>1, <1>2, <1>5 DEF E!TypeOK
  <1>8. E!Uses' \subseteq E!Uses
    BY <1>1 DEF E!Uses, E!Held, E!Snapshot, E!Present
  <1>9. E!Agreement'
    <2>1. \A k \in Configs : v1'[k].revision >= v1[k].revision
      BY <1>1, <1>2 DEF E!TypeOK
    <2> QED
      BY <1>1, <1>2, <1>7, <1>8, <2>1, NothingNew DEF E!IInv
  <1>10. E!SelectionExists' /\ E!RunsHaveOneModel' /\ E!RowsAreTheVectors'
    BY <1>1 DEF E!IInv, E!SelectionExists, E!Present, E!RunsHaveOneModel, E!RowsAreTheVectors
  <1>11. E!CandidatesAreRows'
    BY <1>1 DEF E!CandidatesAreRows
  <1> QED
    BY <1>6, <1>7, <1>9, <1>10, <1>11 DEF E!IInv

LEMMA StutterInv ==
  ASSUME E!IInv, UNCHANGED E!vars
  PROVE  E!IInv'
  <1>1. E!Uses' = E!Uses
    BY DEF E!vars, E!Uses, E!Held, E!Snapshot, E!Present
  <1>2. E!TypeOK' /\ E!SelectionExists' /\ E!RunsHaveOneModel' /\ E!SameModel'
    BY DEF E!IInv, E!vars, E!TypeOK, E!SelectionExists, E!Present, E!RunsHaveOneModel, E!SameModel
  <1>3. E!RowsAreTheVectors' /\ E!CandidatesAreRows'
    BY DocumentsKept DEF E!vars
  <1>4. E!Agreement'
    BY <1>1 DEF E!IInv, E!Agreement, E!SignaturesAgree, E!RevisionsAreSpent, E!Signature, E!vars
  <1> QED
    BY <1>2, <1>3, <1>4 DEF E!IInv

-----------------------------------------------------------------------------
(* Every step of every request, run and question.                          *)
LEMMA ModelsNext ==
  ASSUME E!ConstantsAssumption, E!IInv, [E!Next]_(E!vars)
  PROVE  E!IInv'
  <1>1. ASSUME NEW c \in Configs, NEW m \in Models, E!CreateConfig(c, m) PROVE E!IInv'
    BY <1>1, CreateConfigInv
  <1>2. ASSUME NEW c \in Configs, NEW e \in Editors, E!EditRead(e, c) PROVE E!IInv'
    BY <1>2, EditReadInv
  <1>3. ASSUME NEW c \in Configs, E!DeleteConfig(c) PROVE E!IInv'
    BY <1>3, DeleteConfigInv
  <1>4. ASSUME NEW c \in Configs \cup {NoConfig}, E!SelectConfig(c) PROVE E!IInv'
    BY <1>4, SelectConfigInv
  <1>5. ASSUME NEW e \in Editors, NEW m \in Models, E!EditSave(e, m) PROVE E!IInv'
    BY <1>5, EditSaveInv
  <1>6. ASSUME NEW d \in Files, E!Load(d) \/ E!Embed(d) \/ E!RunFails(d) \/ E!Commit(d) PROVE E!IInv'
    BY <1>6, LoadInv, EmbedInv, RunFailsInv, CommitInv
  <1>7. ASSUME NEW d \in Files, NEW s \in v4, E!Backfill(d, s) PROVE E!IInv'
    BY <1>7, BackfillInv
  <1>8. CASE E!Ask \/ E!SearchSpace \/ E!Score
    BY <1>8, AskInv, SearchSpaceInv, ScoreInv
  <1>9. CASE UNCHANGED E!vars
    BY <1>9, StutterInv
  <1> QED
    <2>1. ASSUME E!Next PROVE E!IInv'
      BY <1>1, <1>2, <1>3, <1>4, <1>5, <1>6, <1>7, <1>8, <2>1, Zenon DEF E!Next
    <2> QED
      BY <1>9, <2>1

(* A document that needs no run has the signature of the selected model, so *)
(* by the invariant its vectors are of that model.                          *)
LEMMA InvImpliesReported ==
  ASSUME E!ConstantsAssumption, E!IInv
  PROVE  E!StaleIsReported
  <1> SUFFICES ASSUME v2 # NoConfig, ~v8,
                      NEW d \in Files, E!Indexed(d), ~E!NeedsReprocess(d)
               PROVE  v3[d].vectors = {E!Chosen.model}
    BY DEF E!StaleIsReported
  <1>1. v3[d].signature = E!Signature(E!Chosen)
    BY DEF E!NeedsReprocess
  <1>2. E!Chosen \in E!Uses /\ E!SignaturesAgree
    BY ChosenIsUsed DEF E!IInv, E!Agreement
  <1>3. ASSUME NEW m \in v3[d].vectors PROVE m = E!Chosen.model
    <2> DEFINE s == [config |-> v3[d].signature.config,
                     revision |-> v3[d].signature.revision, model |-> m]
    <2>1. s \in E!Uses
      BY DEF E!Uses, E!Held
    <2>2. E!Signature(s) = E!Signature(E!Chosen)
      BY <1>1 DEF E!Signature
    <2> QED
      BY <1>2, <2>1, <2>2 DEF E!SignaturesAgree
  <1> QED
    BY <1>3 DEF E!Indexed

-----------------------------------------------------------------------------
(* The parts side by side: a step is one of the part that was chosen.      *)
LEMMA StepsOfParts ==
  ASSUME [ServicesNext]_services
  PROVE  /\ part' = part
         /\ part = "accounts" => [A!Next]_(A!vars)
         /\ part = "logins" => [G!Next]_(G!vars)
         /\ part = "limits" => [L!Next]_(L!vars)
         /\ part = "reranker" => [K!Next]_(K!vars)
         /\ part = "retrieval" => [R!Next]_(R!vars)
         /\ part = "chunking" => [C!Next]_(C!vars)
         /\ part = "data" => [D!Next]_(D!vars)
         /\ part = "scores" => [S!Next]_(S!vars)
         /\ part = "models" => [E!Next]_(E!vars)
  BY DEF ServicesNext, services, A!vars, G!vars, L!vars, K!vars, R!vars, C!vars, D!vars,
         S!vars, E!vars

PartsInv ==
  /\ part = "accounts" => A!IInv
  /\ part = "logins" => G!IInv
  /\ part = "limits" => L!IInv
  /\ part = "reranker" => K!IInv
  /\ part = "retrieval" => R!IInv
  /\ part = "chunking" => C!IInv
  /\ part = "data" => D!IInv
  /\ part = "scores" => S!IInv
  /\ part = "models" => E!IInv

(* Each part keeps its inductive invariant, with any number of requests,   *)
(* sessions, clients, windows, passages, files, configurations and         *)
(* documents.                                                              *)
THEOREM PartsKeepTheirInvariants == ServicesSpec => []PartsInv
  <1>1. /\ A!ConstantsAssumption /\ G!ConstantsAssumption /\ L!ConstantsAssumption
        /\ K!ConstantsAssumption /\ R!ConstantsAssumption /\ S!ConstantsAssumption
        /\ C!ConstantsAssumption /\ E!ConstantsAssumption
    BY PartsAssumption DEF PartsAssumption
  <1>2. ServicesInit => PartsInv
    <2> SUFFICES ASSUME ServicesInit PROVE PartsInv
      OBVIOUS
    <2>1. /\ part = "accounts" => A!Init
          /\ part = "logins" => G!Init
          /\ part = "limits" => L!Init
          /\ part = "reranker" => K!Init
          /\ part = "retrieval" => R!Init
          /\ part = "chunking" => C!Init
          /\ part = "data" => D!Init
          /\ part = "scores" => S!Init
          /\ part = "models" => E!Init
      BY DEF ServicesInit
    <2> QED
      BY <1>1, <2>1, AccountsInit, LoginsInit, LimitsInit, RerankerInit, RetrievalInit,
         ChunkingInit, DataInit, ScoresInit, ModelsInit DEF PartsInv
  <1>3. PartsInv /\ [ServicesNext]_services => PartsInv'
    <2> SUFFICES ASSUME PartsInv, [ServicesNext]_services PROVE PartsInv'
      OBVIOUS
    <2>1. part' = part
      BY StepsOfParts
    <2>2. part = "accounts" => A!IInv'
      BY <1>1, StepsOfParts, AccountsNext DEF PartsInv
    <2>3. part = "models" => E!IInv'
      <3> SUFFICES ASSUME part = "models" PROVE E!IInv'
        OBVIOUS
      <3>1. E!IInv
        BY DEF PartsInv
      <3>2. [E!Next]_(E!vars)
        BY StepsOfParts
      <3> QED
        BY <1>1, <3>1, <3>2, ModelsNext
    <2>4. part = "logins" => G!IInv'
      BY <1>1, StepsOfParts, LoginsNext DEF PartsInv
    <2>5. part = "limits" => L!IInv'
      BY <1>1, StepsOfParts, LimitsNext DEF PartsInv
    <2>6. part = "reranker" => K!IInv'
      BY <1>1, StepsOfParts, RerankerNext DEF PartsInv
    <2>7. part = "retrieval" => R!IInv'
      BY <1>1, StepsOfParts, RetrievalNext DEF PartsInv
    <2>8. part = "data" => D!IInv'
      BY StepsOfParts, DataNext DEF PartsInv
    <2>9. part = "scores" => S!IInv'
      BY <1>1, StepsOfParts, ScoresNext DEF PartsInv
    <2>10. part = "chunking" => C!IInv'
      BY <1>1, StepsOfParts, ChunkingNext DEF PartsInv
    <2> QED
      BY <2>1, <2>2, <2>3, <2>4, <2>5, <2>6, <2>7, <2>8, <2>9, <2>10 DEF PartsInv
  <1> QED
    BY <1>2, <1>3, PTL DEF ServicesSpec

(* Accounts: once a revocation has deleted what it read, no session that   *)
(* could be used when it began can be used.                                *)
THEOREM OthersStayOut == ServicesSpec => []OthersAreOut
  <1>1. PartsInv => OthersAreOut
    BY SessionsOut DEF PartsInv, OthersAreOut
  <1> QED
    BY <1>1, PartsKeepTheirInvariants, PTL

(* Accounts: a session that can be used is listed.                         *)
THEOREM UsableStaysListed == ServicesSpec => []UsableIsListed
  <1>1. PartsInv => UsableIsListed
    BY SessionsListed DEF PartsInv, UsableIsListed
  <1> QED
    BY <1>1, PartsKeepTheirInvariants, PTL

(* LoginLimit: guesses at once exceed the limit by those at once.          *)
THEOREM GuessesStayBounded == ServicesSpec => []GuessesAreBounded
  <1>1. PartsInv => GuessesAreBounded
    BY PartsAssumption, LoginsInv DEF PartsInv, PartsAssumption, GuessesAreBounded
  <1> QED
    BY <1>1, PartsKeepTheirInvariants, PTL

(* AccessLimits: no window lets more requests pass than the limit.         *)
THEOREM LimitsAreKept == ServicesSpec => []LimitsHold
  <1>1. PartsInv => LimitsHold
    BY DEF PartsInv, LimitsHold, L!IInv
  <1> QED
    BY <1>1, PartsKeepTheirInvariants, PTL

(* Reranker: the slot is taken exactly as long as there is a job.          *)
THEOREM SlotIsKept == ServicesSpec => []SlotIsTheJob
  <1>1. PartsInv => SlotIsTheJob
    BY DEF PartsInv, SlotIsTheJob, K!IInv
  <1> QED
    BY <1>1, PartsKeepTheirInvariants, PTL

(* Retrieval: the context is as long as it was reckoned, within the budget, *)
(* and has no parent twice, whatever passages were found or returned.      *)
THEOREM ContextStaysInBudget == ServicesSpec => []ContextFits
  <1>1. PartsInv => ContextFits
    BY PartsAssumption, RetrievalInv DEF PartsInv, PartsAssumption, ContextFits
  <1> QED
    BY <1>1, PartsKeepTheirInvariants, PTL

(* Retrieval: ranking, fusing, reranking, comparing settings and weighing  *)
(* knowledge bases never turn around an order that was settled.            *)
THEOREM OrderStays == ServicesSpec => []OrderIsKept
  <1>1. PartsInv => OrderIsKept
    BY PartsAssumption, RetrievalInv DEF PartsInv, PartsAssumption, OrderIsKept
  <1> QED
    BY <1>1, PartsKeepTheirInvariants, PTL

(* EvaluationData: no question of the frozen test is one of dev.           *)
THEOREM FrozenTestStaysBlind == ServicesSpec => []FrozenTestIsBlind
  <1>1. PartsInv => FrozenTestIsBlind
    BY DataInv DEF PartsInv, FrozenTestIsBlind
  <1> QED
    BY <1>1, PartsKeepTheirInvariants, PTL

(* EvaluationData: reports that were compared are about the same cases.    *)
THEOREM LikeStaysWithLike == ServicesSpec => []LikeIsComparedWithLike
  <1>1. PartsInv => LikeIsComparedWithLike
    BY DataInv DEF PartsInv, LikeIsComparedWithLike
  <1> QED
    BY <1>1, PartsKeepTheirInvariants, PTL

(* EvaluationScores: no ranking is scored above the ideal one, and none as *)
(* ideal that leaves evidence out; hits, recall and gain do not contradict *)
(* each other, whatever passages overlap with whatever evidence.           *)
THEOREM MetricsStayInAgreement == ServicesSpec => []MetricsAgree
  <1>1. PartsInv => MetricsAgree
    BY DEF PartsInv, MetricsAgree, S!IInv
  <1> QED
    BY <1>1, PartsKeepTheirInvariants, PTL

(* Chunking: nothing of a document is missing in its chunks, none is       *)
(* oversized and each is under its headings, whatever the document and the *)
(* options.                                                                *)
THEOREM ChunksStaySound == ServicesSpec => []ChunksAreSound
  <1>1. PartsInv => ChunksAreSound
    BY DEF PartsInv, ChunksAreSound, C!IInv
  <1> QED
    BY <1>1, PartsKeepTheirInvariants, PTL

(* EmbeddingConfigs: questions are compared with vectors of their model.   *)
THEOREM ModelsStayApart == ServicesSpec => []SameModel
  <1>1. PartsInv => SameModel
    BY DEF PartsInv, SameModel, E!IInv
  <1> QED
    BY <1>1, PartsKeepTheirInvariants, PTL

(* EmbeddingConfigs: a document whose model has changed is reported.       *)
THEOREM StaleStaysReported == ServicesSpec => []StaleIsReported
  <1>1. PartsInv => StaleIsReported
    BY PartsAssumption, InvImpliesReported
    DEF PartsInv, PartsAssumption, StaleIsReported
  <1> QED
    BY <1>1, PartsKeepTheirInvariants, PTL

-----------------------------------------------------------------------------
(* DocumentTaskLock.  For every number of workers and every setting with   *)
(* LockTimeout > HardLimit and StaleThreshold > HardLimit, the lock        *)
(* excludes, and the reconciler stops only runs that are dead.             *)
USE SettingsAssumption, NoHolderAssumption

LEMMA InitEstablishes == Init => IInv
  BY DEF Init, IInv, TypeOK, Phase, LockCoversRun, HeartbeatCoversRun, KeyIffHeld, Holding

\* A living run is younger than the hard limit when the clock moves, so its
\* key, with at least LockTimeout - age seconds left, outlives the tick.
LEMMA TickPreserves == IInv /\ Tick => IInv'
<1> SUFFICES ASSUME IInv, Tick PROVE IInv'
  OBVIOUS
<1> USE DEF IInv, Tick, Phase
<1>1. TypeOK'
  BY DEF TypeOK
<1>2. LockCoversRun'
  <2> SUFFICES ASSUME NEW w \in Workers, Holding(w)'
               PROVE  (holder = w /\ ttl + age[w] >= LockTimeout)'
    BY DEF LockCoversRun
  <2>1. Holding(w) /\ phase[w] # "idle"
    BY DEF Holding
  <2>2. holder = w /\ ttl + age[w] >= LockTimeout /\ age[w] < HardLimit
    BY <2>1 DEF LockCoversRun
  <2>3. age[w] \in Nat /\ ttl \in Nat
    BY DEF TypeOK
  <2>4. ttl > 1
    BY <2>2, <2>3
  <2> QED
    BY <2>1, <2>2, <2>3, <2>4 DEF TypeOK
<1>3. HeartbeatCoversRun'
  BY DEF HeartbeatCoversRun, TypeOK
<1>4. KeyIffHeld'
  BY DEF KeyIffHeld, TypeOK
<1> QED
  BY <1>1, <1>2, <1>3, <1>4

\* Acquiring takes a free key only: no other run can be holding.
LEMMA AcquirePreserves ==
  ASSUME NEW w \in Workers, IInv, Acquire(w) PROVE IInv'
<1> USE DEF IInv, Acquire, Phase
<1>1. TypeOK'
  BY DEF TypeOK
<1>2. LockCoversRun'
  BY DEF LockCoversRun, Holding, TypeOK
<1>3. HeartbeatCoversRun'
  BY DEF HeartbeatCoversRun, TypeOK
<1>4. KeyIffHeld'
  BY DEF KeyIffHeld, TypeOK
<1> QED
  BY <1>1, <1>2, <1>3, <1>4

LEMMA EndPreserves ==
  ASSUME NEW w \in Workers, IInv, End(w) PROVE IInv'
<1> USE DEF IInv, End, Phase, Holding
<1>1. TypeOK'
  BY DEF TypeOK
<1>2. LockCoversRun'
  BY DEF LockCoversRun, TypeOK
<1>3. HeartbeatCoversRun'
  BY DEF HeartbeatCoversRun, TypeOK
<1>4. KeyIffHeld'
  BY DEF KeyIffHeld, TypeOK
<1> QED
  BY <1>1, <1>2, <1>3, <1>4

LEMMA ReceivePreserves ==
  ASSUME NEW w \in Workers, IInv, Receive(w) PROVE IInv'
<1> USE DEF IInv, Receive, Phase, Holding
<1>1. TypeOK'
  BY DEF TypeOK
<1>2. LockCoversRun' /\ HeartbeatCoversRun' /\ KeyIffHeld'
  BY DEF LockCoversRun, HeartbeatCoversRun, KeyIffHeld, TypeOK
<1> QED
  BY <1>1, <1>2

LEMMA SaveProcessingPreserves ==
  ASSUME NEW w \in Workers, IInv, SaveProcessing(w) PROVE IInv'
<1> USE DEF IInv, SaveProcessing, Phase, Holding
<1>1. TypeOK'
  BY DEF TypeOK
<1>2. LockCoversRun' /\ KeyIffHeld'
  BY DEF LockCoversRun, KeyIffHeld, TypeOK
<1>3. HeartbeatCoversRun'
  BY DEF HeartbeatCoversRun, TypeOK
<1> QED
  BY <1>1, <1>2, <1>3

LEMMA UpdateProgressPreserves ==
  ASSUME NEW w \in Workers, IInv, UpdateProgress(w) PROVE IInv'
<1> USE DEF IInv, UpdateProgress, Phase, Holding
<1>1. TypeOK'
  BY DEF TypeOK
<1>2. LockCoversRun' /\ HeartbeatCoversRun' /\ KeyIffHeld'
  BY DEF LockCoversRun, HeartbeatCoversRun, KeyIffHeld, TypeOK
<1> QED
  BY <1>1, <1>2

\* The key of a dead run stays, and binds nobody.
LEMMA DiePreserves ==
  ASSUME NEW w \in Workers, IInv, Die(w) PROVE IInv'
<1> USE DEF IInv, Die, Phase, Holding
<1>1. TypeOK'
  BY DEF TypeOK
<1>2. LockCoversRun' /\ HeartbeatCoversRun' /\ KeyIffHeld'
  BY DEF LockCoversRun, HeartbeatCoversRun, KeyIffHeld, TypeOK
<1> QED
  BY <1>1, <1>2

LEMMA ReconcilePreserves == IInv /\ Reconcile => IInv'
<1> SUFFICES ASSUME IInv, Reconcile PROVE IInv'
  OBVIOUS
<1> USE DEF IInv, Reconcile, Phase, Holding
<1>1. TypeOK'
  <2>1. active' \in BOOLEAN
    BY Zenon
  <2>2. heartbeat' \in 0..(StaleThreshold + 1)
    BY SMT
  <2> QED
    BY <2>1, <2>2 DEF TypeOK
<1>2. LockCoversRun' /\ HeartbeatCoversRun' /\ KeyIffHeld'
  BY DEF LockCoversRun, HeartbeatCoversRun, KeyIffHeld, TypeOK
<1> QED
  BY <1>1, <1>2

LEMMA StutterPreserves == IInv /\ UNCHANGED vars => IInv'
  BY DEF IInv, TypeOK, LockCoversRun, HeartbeatCoversRun, KeyIffHeld, Holding, vars

\* A living run has a fresh heartbeat, so the reconciler does not act.
LEMMA LivingRunIsNotStopped ==
  ASSUME IInv, [Next]_vars, active, ~active',
         NEW w \in Workers, phase[w] = "processing"
  PROVE  phase'[w] = "idle"
<1>1. CASE Reconcile
  BY <1>1 DEF Reconcile, IInv, HeartbeatCoversRun, TypeOK
<1>2. CASE \E v \in Workers : End(v)
  <2>1. PICK v \in Workers : End(v)
    BY <1>2
  <2>2. phase[v] = "processing"
    BY <2>1 DEF End
  <2>3. v = w
    BY <2>2 DEF IInv, LockCoversRun, Holding
  <2> QED
    BY <2>1, <2>3 DEF End, IInv, TypeOK
<1> QED
  BY <1>1, <1>2 DEF Next, vars, Tick, Receive, Acquire, SaveProcessing, UpdateProgress, Die

\* The inductive invariant holds in every reachable state.
THEOREM LockInvariant == Spec => []IInv
<1>1. Init => IInv
  BY InitEstablishes
<1>2. IInv /\ [Next]_vars => IInv'
  <2> SUFFICES ASSUME IInv, [Next]_vars PROVE IInv'
    OBVIOUS
  <2> QED
    BY TickPreserves, ReconcilePreserves, StutterPreserves, ReceivePreserves,
       AcquirePreserves, SaveProcessingPreserves, UpdateProgressPreserves,
       EndPreserves, DiePreserves
       DEF Next
<1> QED
  BY <1>1, <1>2, PTL DEF Spec

\* No two runs process the document at once: document_task_lock.py with a
\* timeout that exceeds the hard limit.
THEOREM LockExcludes == Spec => []MutualExclusion
<1>1. IInv => MutualExclusion
  BY DEF IInv, LockCoversRun, MutualExclusion
<1> QED
  BY <1>1, LockInvariant, PTL

\* reconcile_stale_processing_tasks never stops a task whose run is alive.
THEOREM ReconcilerIsSafe == Spec => OnlyDeadRunsAreStopped
<1>1. IInv /\ [Next]_vars =>
        [active /\ ~active' =>
           \A w \in Workers : phase[w] = "processing" => phase'[w] = "idle"]_vars
  BY LivingRunIsNotStopped
<1> QED
  BY <1>1, LockInvariant, PTL DEF Spec, OnlyDeadRunsAreStopped
=============================================================================
