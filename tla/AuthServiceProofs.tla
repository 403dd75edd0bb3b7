------------------------- MODULE AuthServiceProofs -------------------------
(***************************************************************************)
(* Proofs about AuthService for every set of workers and tokens: when the  *)
(* account is locked, and how many refresh tokens are active.              *)
(***************************************************************************)
EXTENDS AuthService, FiniteSetTheorems, TLAPS

\* The types; that sessions is a natural number follows from what it counts.
Types ==
    /\ is_locked \in BOOLEAN /\ was_locked \in BOOLEAN
    /\ failed_login_attempts \in 0 .. Limit
    /\ active_tokens \subseteq Tokens
    /\ failures \in 0 .. Limit /\ streak \in 0 .. Limit
    /\ request \in [Workers -> Requests]

\* A login that is alone is the only one, and its row is the one that it read.
AloneReadsTheRow ==
    \A w \in Workers : request[w].alone =>
        /\ At("verify") = {w}
        /\ request[w].attempts = failed_login_attempts /\ ~is_locked

\* The row counts no more failures than there were, and a row that is not locked
\* no fewer than there were in a row; nor does the row that a login has read.
RowCounts ==
    /\ failed_login_attempts <= failures
    /\ \A w \in At("verify") : request[w].attempts <= failures
    /\ ~is_locked => failed_login_attempts < Limit /\ streak <= failed_login_attempts

\* The inductive invariant.
LockInv == Types /\ AloneReadsTheRow /\ RowCounts /\ LockTakesFive /\ LockIsKept

-----------------------------------------------------------------------------
\* What the steps leave in request is of the type.
LEMMA RequestFacts ==
    /\ Idle \in Requests
    /\ \A n \in 0 .. 4, b \in BOOLEAN :
         [pc |-> "verify", attempts |-> n, token |-> NULL, alone |-> b] \in Requests
    /\ \A pc \in {"idle", "issue", "refresh", "replace", "logout"}, t \in Tokens \cup {NULL} :
         /\ Doing(pc, t) \in Requests
         /\ Doing(pc, t).pc = pc /\ ~Doing(pc, t).alone /\ Doing(pc, t).token = t
    /\ \A r \in Requests : [r EXCEPT !.alone = FALSE] \in Requests
<1> USE DEF Requests, Limit
<1>1. \A n \in 0 .. 4, b \in BOOLEAN :
         [pc |-> "verify", attempts |-> n, token |-> NULL, alone |-> b] \in Requests
  OBVIOUS
<1>2. \A pc \in {"idle", "issue", "refresh", "replace", "logout"}, t \in Tokens \cup {NULL} :
         Doing(pc, t) \in Requests
  BY DEF Doing
<1>3. \A pc, t : Doing(pc, t).pc = pc /\ ~Doing(pc, t).alone /\ Doing(pc, t).token = t
  BY DEF Doing
<1>4. \A r \in Requests : [r EXCEPT !.alone = FALSE] \in Requests
  OBVIOUS
<1>5. Idle \in Requests
  BY <1>2 DEF Idle
<1> QED
  BY <1>1, <1>2, <1>3, <1>4, <1>5

\* A row that is not locked, or was read before it was, counts fewer than five.
LEMMA LockInit == Init => LockInv
<1> SUFFICES ASSUME Init PROVE LockInv
  OBVIOUS
<1>1. Types
  <2>1. is_locked \in BOOLEAN /\ was_locked \in BOOLEAN /\ active_tokens \subseteq Tokens
    BY DEF Init
  <2>2. request \in [Workers -> Requests]
    BY RequestFacts DEF Init
  <2>3. failed_login_attempts = 0 /\ failures = 0 /\ streak = 0
    BY DEF Init
  <2> QED
    BY <2>1, <2>2, <2>3 DEF Types, Limit
<1>2. \A w \in Workers : request[w].pc = "idle" /\ ~request[w].alone
  BY DEF Init, Idle, Doing
<1>3. AloneReadsTheRow
  BY <1>2 DEF AloneReadsTheRow
<1>4. RowCounts
  BY <1>2 DEF Init, RowCounts, At, Limit
<1> QED
  BY <1>1, <1>3, <1>4 DEF Init, LockInv, LockTakesFive, LockIsKept

LEMMA LoginKeepsLockInv ==
    ASSUME LockInv, NEW w \in Workers, login(w)
    PROVE  LockInv'
<1> USE DEF LockInv, Limit
<1>1. Types'
  <2>1. ~is_locked
    BY DEF login
  <2>2. failed_login_attempts \in 0 .. 4
    BY <2>1 DEF RowCounts, Types
  <2>3. request' \in [Workers -> Requests]
    <3> DEFINE first == At("verify") = {}
               read == [pc |-> "verify", attempts |-> failed_login_attempts,
                        token |-> NULL, alone |-> first]
    <3>1. read \in Requests
      <4>1. first \in BOOLEAN
        OBVIOUS
      <4> HIDE DEF first
      <4> QED
        BY <4>1, <2>2, RequestFacts
    <3>2. request' = [v \in Workers |-> IF v = w THEN read
                                        ELSE [request[v] EXCEPT !.alone = FALSE]]
      BY DEF login
    <3> HIDE DEF read
    <3> QED
      BY <3>1, <3>2, RequestFacts DEF Types
  <2> QED
    BY <2>3 DEF Types, login, tables, history
<1>2. \A v \in Workers : /\ request'[v].pc = IF v = w THEN "verify" ELSE request[v].pc
                         /\ v # w => request'[v].attempts = request[v].attempts
                         /\ request'[v].alone => v = w /\ At("verify") = {}
                         /\ request'[w].attempts = failed_login_attempts
  BY DEF Types, login, Requests
<1>3. At("verify")' = At("verify") \cup {w}
  BY <1>2 DEF At
<1>4. AloneReadsTheRow'
  BY <1>2, <1>3 DEF AloneReadsTheRow, login, tables
<1>5. RowCounts'
  BY <1>2, <1>3 DEF RowCounts, At, login, tables, history, Types
<1> QED
  BY <1>1, <1>4, <1>5 DEF LockTakesFive, LockIsKept, login, tables, history

\* Any other step moves one worker, to a place where it is not alone.
LEMMA MoveFacts ==
    ASSUME Types, NEW w \in Workers, NEW r, ~r.alone, r.pc # "verify",
           request' = [request EXCEPT ![w] = r]
    PROVE  /\ At("verify")' = At("verify") \ {w}
           /\ \A v \in Workers : request'[v].alone => v # w /\ request[v].alone
           /\ \A v \in Workers \ {w} : request'[v] = request[v]
BY DEF Types, At

LEMMA FailureKeepsLockInv ==
    ASSUME LockInv, NEW w \in Workers, Failure(w)
    PROVE  LockInv'
<1> USE DEF LockInv, Limit
<1>1. w \in At("verify") /\ request[w].attempts \in 0 .. 4
  BY DEF Failure, FailureOf, At, Types, Requests
<1>2. /\ ~Idle.alone /\ Idle.pc # "verify"
      /\ request' = [request EXCEPT ![w] = Idle]
  BY DEF Failure, FailureOf, Set, Idle, Doing
<1>3. /\ At("verify")' = At("verify") \ {w}
      /\ \A v \in Workers : request'[v].alone => v # w /\ request[v].alone
      /\ \A v \in Workers \ {w} : request'[v] = request[v]
  BY <1>2, MoveFacts
<1>4. Types'
  BY <1>1, <1>2, RequestFacts DEF Failure, FailureOf, Types, UpTo
<1>5. \A v \in Workers : ~request'[v].alone
  BY <1>1, <1>3 DEF AloneReadsTheRow
<1>6. failures' >= failures /\ failures' >= request[w].attempts + 1
  BY <1>1 DEF Failure, FailureOf, UpTo, RowCounts, Types
<1>7. ~is_locked' => streak' <= failed_login_attempts' /\ failed_login_attempts' < 5
  <2>1. CASE request[w].alone
    <3>1. request[w].attempts = failed_login_attempts /\ streak <= failed_login_attempts
      BY <2>1 DEF AloneReadsTheRow, RowCounts
    <3>2. /\ streak' = UpTo(streak + 1)
          /\ failed_login_attempts' = request[w].attempts + 1
      BY <2>1 DEF Failure, FailureOf
    <3>3. ~is_locked' => ~(request[w].attempts + 1 >= 5)
      BY DEF Failure, FailureOf
    <3> QED
      BY <3>1, <3>2, <3>3, <1>1 DEF UpTo, Types
  <2>2. CASE ~request[w].alone
    <3>1. /\ streak' = 0
          /\ failed_login_attempts' = request[w].attempts + 1
      BY <2>2 DEF Failure, FailureOf
    <3>2. ~is_locked' => ~(request[w].attempts + 1 >= 5)
      BY DEF Failure, FailureOf
    <3> QED
      BY <3>1, <3>2, <1>1
  <2> QED
    BY <2>1, <2>2
<1>8. RowCounts'
  <2>1. \A v \in At("verify")' : request'[v].attempts <= failures'
    BY <1>3, <1>6, <1>4 DEF RowCounts, At, Types, Requests
  <2>2. failed_login_attempts' <= failures'
    BY <1>6 DEF Failure, FailureOf
  <2> QED
    BY <2>1, <2>2, <1>7 DEF RowCounts
<1>9. LockTakesFive'
  BY <1>1, <1>6, <1>4 DEF Failure, FailureOf, LockTakesFive, Types
<1>10. LockIsKept'
  BY DEF Failure, FailureOf, LockIsKept, Types
<1> QED
  BY <1>4, <1>5, <1>8, <1>9, <1>10 DEF AloneReadsTheRow

LEMMA SuccessKeepsLockInv ==
    ASSUME LockInv, NEW w \in Workers, Success(w)
    PROVE  LockInv'
<1> USE DEF LockInv, Limit
<1> DEFINE r == Doing("issue", NULL)
<1>1. ~r.alone /\ r.pc # "verify" /\ request' = [request EXCEPT ![w] = r]
  BY DEF Success, Set, Doing
<1>2. /\ At("verify")' = At("verify") \ {w}
      /\ \A v \in Workers : request'[v].alone => v # w /\ request[v].alone
      /\ \A v \in Workers \ {w} : request'[v] = request[v]
  BY <1>1, MoveFacts
<1>3. w \in At("verify")
  BY DEF Success, At
<1>4. Types'
  <2>1. r \in Requests
    BY RequestFacts
  <2>2. failed_login_attempts' \in 0 .. 5 /\ streak' = 0
    BY DEF Success, Types
  <2> QED
    BY <1>1, <2>1, <2>2 DEF Success, Types
<1>5. \A v \in Workers : ~request'[v].alone
  BY <1>2, <1>3 DEF AloneReadsTheRow
<1>6. RowCounts'
  <2>1. failed_login_attempts' \in {failed_login_attempts, 0} /\ streak' = 0
        /\ failures' = failures /\ is_locked' = is_locked
    BY DEF Success
  <2> QED
    BY <1>2, <1>4, <2>1 DEF RowCounts, At, Types, Requests
<1> QED
  BY <1>4, <1>5, <1>6 DEF Success, AloneReadsTheRow, LockTakesFive, LockIsKept

\* The steps that leave the row, and its history, alone.
LEMMA OthersKeepLockInv ==
    ASSUME LockInv, NEW w \in Workers, NEW r,
           r \in Requests, r.pc # "verify", ~r.alone,
           request' = [request EXCEPT ![w] = r], active_tokens' \subseteq Tokens,
           UNCHANGED <<is_locked, failed_login_attempts, failures, streak, was_locked>>
    PROVE  LockInv'
<1> USE DEF LockInv, Limit
<1>1. /\ At("verify")' = At("verify") \ {w}
      /\ \A v \in Workers : request'[v].alone => v # w /\ request[v].alone
      /\ \A v \in Workers \ {w} : request'[v] = request[v]
  BY MoveFacts
<1>2. Types'
  BY DEF Types
<1>3. AloneReadsTheRow'
  BY <1>1 DEF AloneReadsTheRow
<1>4. RowCounts'
  BY <1>1 DEF RowCounts
<1> QED
  BY <1>2, <1>3, <1>4 DEF LockTakesFive, LockIsKept

LEMMA RecreateKeepsLockInv == LockInv /\ Recreate => LockInv'
<1> SUFFICES ASSUME LockInv, Recreate PROVE LockInv'
  OBVIOUS
<1>1. /\ failed_login_attempts' = 0 /\ failures' = 0 /\ streak' = 0
      /\ active_tokens' = {} /\ request' = request
  BY DEF Recreate
<1>2. ~is_locked' /\ ~was_locked' /\ is_locked' \in BOOLEAN /\ was_locked' \in BOOLEAN
  BY DEF Recreate
<1>3. At("verify") = {}
  BY DEF Recreate, At
<1>4. Types'
  BY <1>1, <1>2 DEF LockInv, Types, Limit
<1>5. \A w \in Workers : ~request[w].alone
  BY <1>3 DEF LockInv, AloneReadsTheRow
<1>6. At("verify")' = {}
  BY <1>1, <1>3 DEF At
<1>7. AloneReadsTheRow' /\ RowCounts'
  BY <1>1, <1>5, <1>6 DEF AloneReadsTheRow, RowCounts, Limit
<1> QED
  BY <1>2, <1>4, <1>7 DEF LockInv, LockTakesFive, LockIsKept

\* A step of a worker other than the three of login that concern the row.
LEMMA TokenStepsKeepLockInv ==
    ASSUME LockInv, NEW w \in Workers,
           refresh(w) \/ logout(w) \/ revoke(w) \/ create(w) \/ Die(w)
    PROVE  LockInv'
<1>1. UNCHANGED <<is_locked, failed_login_attempts, failures, streak, was_locked>>
  BY DEF refresh, logout, revoke, create, Die, tables, history
<1>2. active_tokens' \subseteq Tokens
  BY DEF LockInv, Types, refresh, logout, revoke, create, Die, tables, Unused
<1>3. \E pc \in {"idle", "refresh", "replace", "logout"}, t \in Tokens \cup {NULL} :
         request' = [request EXCEPT ![w] = Doing(pc, t)]
  BY DEF LockInv, Types, refresh, logout, revoke, create, Die, Set, Idle
<1>4. PICK pc \in {"idle", "refresh", "replace", "logout"}, t \in Tokens \cup {NULL} :
         request' = [request EXCEPT ![w] = Doing(pc, t)]
  BY <1>3
<1>5. Doing(pc, t) \in Requests /\ Doing(pc, t).pc # "verify" /\ ~Doing(pc, t).alone
  BY <1>4, RequestFacts
<1> QED
  BY <1>1, <1>2, <1>4, <1>5, OthersKeepLockInv

LEMMA StutterKeepsLockInv == LockInv /\ UNCHANGED vars => LockInv'
BY DEF LockInv, Types, AloneReadsTheRow, RowCounts, LockTakesFive, LockIsKept, At,
       vars, tables, history

LEMMA LockInvariant == SafeSpec => []LockInv
<1>1. LockInv /\ [Next]_vars => LockInv'
  <2> SUFFICES ASSUME LockInv, [Next]_vars PROVE LockInv'
    OBVIOUS
  <2>1. CASE Recreate
    BY <2>1, RecreateKeepsLockInv
  <2>2. ASSUME NEW w \in Workers, Start(w) \/ Continue(w) \/ Die(w) PROVE LockInv'
    <3>1. CASE login(w)
      BY <3>1, LoginKeepsLockInv
    <3>2. CASE Failure(w)
      BY <3>2, FailureKeepsLockInv
    <3>3. CASE Success(w)
      BY <3>3, SuccessKeepsLockInv
    <3>4. CASE refresh(w) \/ logout(w) \/ revoke(w) \/ create(w) \/ Die(w)
      BY <3>4, TokenStepsKeepLockInv
    <3>5. CASE Refused(w)
      BY <3>5, StutterKeepsLockInv DEF Refused
    <3> QED
      BY <2>2, <3>1, <3>2, <3>3, <3>4, <3>5 DEF Start, Continue
  <2>3. CASE UNCHANGED vars
    BY <2>3, StutterKeepsLockInv
  <2> QED
    BY <2>1, <2>2, <2>3 DEF Next
<1> QED
  BY LockInit, <1>1, PTL DEF SafeSpec

\* Five failures in a row lock the account, for any number of workers whose other
\* requests overlap them.
THEOREM FailuresLock == SafeSpec => []FiveInARowLock
<1>1. LockInv => FiveInARowLock
  BY DEF LockInv, Types, RowCounts, FiveInARowLock, Limit
<1> QED
  BY <1>1, LockInvariant, PTL

\* Fewer never do, in whatever order their reads and writes come.
THEOREM FewerDoNotLock == SafeSpec => []LockTakesFive
<1>1. LockInv => LockTakesFive
  BY DEF LockInv
<1> QED
  BY <1>1, LockInvariant, PTL

\* No request, of however many that have read the row before, unlocks it.
THEOREM LockStays == SafeSpec => []LockIsKept
<1>1. LockInv => LockIsKept
  BY DEF LockInv
<1> QED
  BY <1>1, LockInvariant, PTL

-----------------------------------------------------------------------------
(* The tokens.                                                              *)

LEMMA FiniteFacts ==
    ASSUME Types
    PROVE  /\ IsFiniteSet(active_tokens) /\ Cardinality(active_tokens) \in Nat
           /\ IsFiniteSet(At("replace")) /\ Cardinality(At("replace")) \in Nat
<1>1. active_tokens \in SUBSET Tokens /\ At("replace") \in SUBSET Workers
  BY DEF Types, At
<1>2. IsFiniteSet(active_tokens) /\ IsFiniteSet(At("replace"))
  BY <1>1, FS_Subset, AuthAssumption
<1> QED
  BY <1>2, FS_CardinalityType

\* A worker comes to replace a token, or goes.
LEMMA ReplaceMoves ==
    ASSUME Types, NEW w \in Workers, NEW pc, NEW t,
           request' = [request EXCEPT ![w] = Doing(pc, t)]
    PROVE  At("replace")' = IF pc = "replace" THEN At("replace") \cup {w}
                                            ELSE At("replace") \ {w}
<1>1. Doing(pc, t).pc = pc
  BY DEF Doing
<1> HIDE DEF Doing
<1> QED
  BY <1>1 DEF Types, At

\* A step that changes none of the three counts.
LEMMA SameCounts ==
    ASSUME SessionsAreConserved, active_tokens' = active_tokens,
           At("replace")' = At("replace"), sessions' = sessions
    PROVE  SessionsAreConserved'
BY DEF SessionsAreConserved

LEMMA LoginConserves ==
    ASSUME Types, SessionsAreConserved, NEW w \in Workers, login(w)
    PROVE  SessionsAreConserved'
<1>1. \A v \in Workers : request'[v].pc = IF v = w THEN "verify" ELSE request[v].pc
  BY DEF Types, login, Requests
<1>2. request[w].pc = "idle"
  BY DEF login, Idle, Doing
<1>3. At("replace")' = At("replace")
  BY <1>1, <1>2 DEF At
<1> QED
  BY <1>3, SameCounts DEF login, tables, history

\* A login's or a refresh's step to a place outside its two transactions.
LEMMA PlaceConserves ==
    ASSUME Types, SessionsAreConserved, NEW w \in Workers, request[w].pc # "replace",
           NEW pc, NEW t, pc # "replace", request' = [request EXCEPT ![w] = Doing(pc, t)],
           active_tokens' = active_tokens, sessions' = sessions
    PROVE  SessionsAreConserved'
<1>1. At("replace")' = At("replace") \ {w}
  BY ReplaceMoves
<1>2. w \notin At("replace")
  BY DEF At
<1> QED
  BY <1>1, <1>2, SameCounts

LEMMA RevokeConserves ==
    ASSUME Types, SessionsAreConserved, NEW w \in Workers, revoke(w)
    PROVE  SessionsAreConserved'
<1> DEFINE t == request[w].token
<1>1. w \notin At("replace")
  BY DEF revoke, At
<1>2. Cardinality(active_tokens') = IF t \in active_tokens THEN Cardinality(active_tokens) - 1
                                    ELSE Cardinality(active_tokens)
  BY FiniteFacts, FS_RemoveElement DEF revoke
<1>3. CASE request[w].pc = "refresh"
  <2>1. /\ request' = [request EXCEPT ![w] = Doing("replace", NULL)]
        /\ sessions' = IF t \in active_tokens THEN sessions ELSE sessions + 1
    BY <1>3 DEF revoke, Set
  <2>2. At("replace")' = At("replace") \cup {w}
    BY <2>1, ReplaceMoves
  <2>3. Cardinality(At("replace")') = Cardinality(At("replace")) + 1
    BY <1>1, <2>2, FiniteFacts, FS_AddElement
  <2> QED
    BY <1>2, <2>1, <2>3, FiniteFacts DEF SessionsAreConserved
<1>4. CASE request[w].pc = "logout"
  <2>1. /\ request' = [request EXCEPT ![w] = Doing("idle", NULL)]
        /\ sessions' = IF t \in active_tokens THEN sessions - 1 ELSE sessions
    BY <1>4 DEF revoke, Set, Idle
  <2>2. At("replace")' = At("replace") \ {w}
    BY <2>1, ReplaceMoves
  <2>3. At("replace")' = At("replace")
    BY <1>1, <2>2
  <2> QED
    BY <1>2, <2>1, <2>3, FiniteFacts DEF SessionsAreConserved
<1> QED
  BY <1>3, <1>4 DEF revoke

\* A worker gives up or ends a replacement, and so replaces one less.
LEMMA ReplacesOneLess ==
    ASSUME Types, NEW w \in Workers, request' = [request EXCEPT ![w] = Idle]
    PROVE  Cardinality(At("replace")') =
             IF request[w].pc = "replace" THEN Cardinality(At("replace")) - 1
                                          ELSE Cardinality(At("replace"))
<1>1. At("replace")' = At("replace") \ {w}
  BY ReplaceMoves DEF Idle
<1>2. w \in At("replace") <=> request[w].pc = "replace"
  BY DEF At
<1> QED
  BY <1>1, <1>2, FiniteFacts, FS_RemoveElement

LEMMA CreateConserves ==
    ASSUME Types, SessionsAreConserved, NEW w \in Workers, create(w)
    PROVE  SessionsAreConserved'
<1>1. PICK t \in Unused : active_tokens' = active_tokens \cup {t}
  BY DEF create
<1>2. Cardinality(active_tokens') = Cardinality(active_tokens) + 1
  BY <1>1, FiniteFacts, FS_AddElement DEF Unused
<1>3. /\ request[w].pc \in {"issue", "replace"}
      /\ sessions' = IF request[w].pc = "issue" THEN sessions + 1 ELSE sessions
      /\ request' = [request EXCEPT ![w] = Idle]
  BY DEF create, Set
<1>4. Cardinality(At("replace")') = IF request[w].pc = "replace"
                                    THEN Cardinality(At("replace")) - 1
                                    ELSE Cardinality(At("replace"))
  BY <1>3, ReplacesOneLess
<1> QED
  BY <1>2, <1>3, <1>4, FiniteFacts DEF SessionsAreConserved

LEMMA DieConserves ==
    ASSUME Types, SessionsAreConserved, NEW w \in Workers, Die(w)
    PROVE  SessionsAreConserved'
<1>1. /\ active_tokens' = active_tokens
      /\ sessions' = IF request[w].pc = "replace" THEN sessions - 1 ELSE sessions
      /\ request' = [request EXCEPT ![w] = Idle]
  BY DEF Die, Set, tables
<1>2. Cardinality(At("replace")') = IF request[w].pc = "replace"
                                    THEN Cardinality(At("replace")) - 1
                                    ELSE Cardinality(At("replace"))
  BY <1>1, ReplacesOneLess
<1> QED
  BY <1>1, <1>2, FiniteFacts DEF SessionsAreConserved

LEMMA RecreateConserves ==
    ASSUME Types, Recreate
    PROVE  SessionsAreConserved'
<1>1. active_tokens' = {} /\ sessions' = Cardinality(At("replace")) /\ request' = request
  BY DEF Recreate
<1>2. Cardinality(active_tokens') = 0
  BY <1>1, FS_EmptySet
<1>3. At("replace")' = At("replace")
  BY <1>1 DEF At
<1> QED
  BY <1>1, <1>2, <1>3, FiniteFacts DEF SessionsAreConserved

\* Logins add a token and logouts take one; a refresh keeps the number, whatever
\* overlaps it, but for the two cases that the history counts.
THEOREM TokensAreConserved == SafeSpec => []SessionsAreConserved
<1>1. Init => SessionsAreConserved
  <2> SUFFICES ASSUME Init PROVE SessionsAreConserved
    OBVIOUS
  <2>1. At("replace") = {} /\ active_tokens = {} /\ sessions = 0
    BY DEF Init, At, Idle, Doing
  <2> QED
    BY <2>1, FS_EmptySet DEF SessionsAreConserved
<1>2. LockInv /\ SessionsAreConserved /\ [Next]_vars => SessionsAreConserved'
  <2> SUFFICES ASSUME Types, SessionsAreConserved, [Next]_vars PROVE SessionsAreConserved'
    BY DEF LockInv
  <2>1. CASE Recreate
    BY <2>1, RecreateConserves
  <2>2. ASSUME NEW w \in Workers, Start(w) \/ Continue(w) \/ Die(w)
        PROVE  SessionsAreConserved'
    <3>1. CASE login(w)
      BY <3>1, LoginConserves
    <3>2. CASE Failure(w) \/ Success(w) \/ refresh(w) \/ logout(w)
      <4>1. \E pc, t : pc # "replace" /\ request' = [request EXCEPT ![w] = Doing(pc, t)]
        BY <3>2 DEF Failure, FailureOf, Success, refresh, logout, Set, Idle
      <4>2. request[w].pc # "replace"
        <5>1. request[w].pc = "verify" \/ request[w] = Idle
          BY <3>2 DEF Failure, FailureOf, Success, refresh, logout
        <5> QED
          BY <5>1 DEF Idle, Doing
      <4>3. active_tokens' = active_tokens /\ sessions' = sessions
        BY <3>2 DEF Failure, FailureOf, Success, refresh, logout, tables, history
      <4> QED
        BY <4>1, <4>2, <4>3, PlaceConserves
    <3>3. CASE revoke(w)
      BY <3>3, RevokeConserves
    <3>4. CASE create(w)
      BY <3>4, CreateConserves
    <3>5. CASE Die(w)
      BY <3>5, DieConserves
    <3>6. CASE Refused(w)
      BY <3>6, SameCounts DEF Refused, vars, tables, history, At
    <3> QED
      BY <2>2, <3>1, <3>2, <3>3, <3>4, <3>5, <3>6 DEF Start, Continue
  <2>3. CASE UNCHANGED vars
    BY <2>3, SameCounts DEF vars, tables, history, At
  <2> QED
    BY <2>1, <2>2, <2>3 DEF Next
<1> QED
  BY <1>1, <1>2, LockInvariant, PTL DEF SafeSpec

\* The types of the variables; that sessions never falls below zero rests on what
\* it counts.
THEOREM TypeCorrect == SafeSpec => []TypeOK
<1>1. LockInv /\ SessionsAreConserved => TypeOK
  <2> SUFFICES ASSUME LockInv, SessionsAreConserved PROVE TypeOK
    OBVIOUS
  <2>1. Types
    BY DEF LockInv
  <2>2. sessions \in Nat
    BY <2>1, FiniteFacts DEF SessionsAreConserved
  <2> QED
    BY <2>1, <2>2 DEF Types, TypeOK
<1> QED
  BY <1>1, LockInvariant, TokensAreConserved, PTL
=============================================================================
