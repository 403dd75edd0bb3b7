---------------------------- MODULE AuthService ----------------------------
(***************************************************************************)
(* login, refresh and logout of backend/app/services/auth_service.py for   *)
(* one user, served by several workers over the tables users and           *)
(* refresh_tokens of one PostgreSQL database.                              *)
(*                                                                         *)
(* A request reads, checks a hash, which takes long, and only then writes; *)
(* each write is a transaction of its own, and a worker may die between    *)
(* two of them.  The session writes the columns that differ from what it   *)
(* read, so what another worker wrote to the others stays.                 *)
(*                                                                         *)
(* A definition whose comment says "Fault" stands for no code: it is what  *)
(* the next one would be with a mistake in it, and a property fails if the *)
(* mistake is made.                                                        *)
(***************************************************************************)
EXTENDS Naturals, FiniteSets

CONSTANTS Workers,
          Tokens,      \* the ids of refresh_tokens that are told apart
          NULL

ASSUME AuthAssumption == /\ NULL \notin Tokens
                         /\ IsFiniteSet(Workers) /\ IsFiniteSet(Tokens)

VARIABLES is_locked, failed_login_attempts,   \* the user's row
          active_tokens,    \* the user's refresh tokens with is_revoked false
          request,          \* what each worker is doing
          failures,         \* history: wrong passwords answered; counts to the limit
          streak,           \* history: those since a login succeeded or overlapped
                            \* another, if none did; counts to the limit
          was_locked,       \* history: the row has been locked
          sessions          \* history: the tokens that clients should have

tables == <<is_locked, failed_login_attempts, active_tokens>>
history == <<failures, streak, was_locked, sessions>>
vars == <<tables, request, history>>

Doing(pc, token) == [pc |-> pc, attempts |-> 0, token |-> token, alone |-> FALSE]
Idle == Doing("idle", NULL)

\* The columns as migration 0002 adds them, and its empty table.
Init == /\ is_locked = FALSE /\ failed_login_attempts = 0 /\ active_tokens = {}
        /\ request = [w \in Workers |-> Idle]
        /\ failures = 0 /\ streak = 0 /\ was_locked = FALSE /\ sessions = 0

-----------------------------------------------------------------------------
Limit == 5
UpTo(n) == IF n > Limit THEN Limit ELSE n

Set(w, r) == request' = [request EXCEPT ![w] = r]
At(place) == {w \in Workers : request[w].pc = place}

\* An unknown user, a locked one, a token that is not valid, not a refresh token or
\* none of the user's active ones: refused, and nothing changes.
Refused(w) == request[w] = Idle /\ UNCHANGED vars

\* login reads the row.  It is alone if no other login has still to write: history.
login(w) ==
    /\ request[w] = Idle /\ ~is_locked
    /\ request' = [v \in Workers |->
         IF v = w THEN [pc |-> "verify", attempts |-> failed_login_attempts,
                        token |-> NULL, alone |-> At("verify") = {}]
         ELSE [request[v] EXCEPT !.alone = FALSE]]
    /\ UNCHANGED <<tables, history>>

\* The password is wrong.  Faults: the limit is one more; one less; every column is
\* written; the count of the row is not the one read plus one.
FailureOf(w, limit, locked) ==
    /\ request[w].pc = "verify"
    /\ failed_login_attempts' = request[w].attempts + 1
    /\ is_locked' = (locked \/ request[w].attempts + 1 >= limit)
    /\ was_locked' = (was_locked \/ request[w].attempts + 1 >= limit)
    /\ failures' = UpTo(failures + 1)
    /\ streak' = IF request[w].alone THEN UpTo(streak + 1) ELSE 0
    /\ Set(w, Idle)
    /\ UNCHANGED <<active_tokens, sessions>>
LateFailure(w) == FailureOf(w, Limit + 1, is_locked)
EarlyFailure(w) == FailureOf(w, Limit - 1, is_locked)
WholeRowFailure(w) == FailureOf(w, Limit, FALSE)
Failure(w) == FailureOf(w, Limit, is_locked)

\* The password is right: the count is written if it was not 0 when it was read.
Success(w) ==
    /\ request[w].pc = "verify"
    /\ failed_login_attempts' = IF request[w].attempts = 0 THEN failed_login_attempts ELSE 0
    /\ streak' = 0
    /\ Set(w, Doing("issue", NULL))
    /\ UNCHANGED <<is_locked, active_tokens, failures, was_locked, sessions>>

-----------------------------------------------------------------------------
\* refresh and logout read the active tokens and take the first whose hash fits the
\* token presented; that no other fits too is left open (bcrypt reads 72 bytes).
refresh(w) == \E t \in active_tokens :
                 /\ request[w] = Idle
                 /\ Set(w, Doing("refresh", t))
                 /\ UNCHANGED <<tables, history>>
logout(w) == \E t \in active_tokens :
                /\ request[w] = Idle
                /\ Set(w, Doing("logout", t))
                /\ UNCHANGED <<tables, history>>

\* revoke: another request may have revoked the token since, and both then go on.
\* A refresh replaces its token in a second transaction.
revoke(w) ==
    /\ active_tokens' = active_tokens \ {request[w].token}
    /\ \/ /\ request[w].pc = "refresh"
          /\ Set(w, Doing("replace", NULL))
          /\ sessions' = IF request[w].token \in active_tokens THEN sessions ELSE sessions + 1
       \/ /\ request[w].pc = "logout"
          /\ Set(w, Idle)
          /\ sessions' = IF request[w].token \in active_tokens THEN sessions - 1 ELSE sessions
    /\ UNCHANGED <<is_locked, failed_login_attempts, failures, streak, was_locked>>

\* A row of refresh_tokens that no request has read; revoked rows are forgotten.
Unused == Tokens \ (active_tokens \cup {request[w].token : w \in Workers})

\* create: the new token of a login or a refresh.  Fault: it takes the others' place.
OnlyToken(w) ==
    /\ request[w].pc \in {"issue", "replace"}
    /\ \E t \in Unused : active_tokens' = {t}
    /\ sessions' = IF request[w].pc = "issue" THEN sessions + 1 ELSE sessions
    /\ Set(w, Idle)
    /\ UNCHANGED <<is_locked, failed_login_attempts, failures, streak, was_locked>>
create(w) ==
    /\ request[w].pc \in {"issue", "replace"}
    /\ \E t \in Unused : active_tokens' = active_tokens \cup {t}
    /\ sessions' = IF request[w].pc = "issue" THEN sessions + 1 ELSE sessions
    /\ Set(w, Idle)
    /\ UNCHANGED <<is_locked, failed_login_attempts, failures, streak, was_locked>>

\* The worker or its connection dies, or the next statement fails.  A refresh that
\* has revoked its token then has no other.
Die(w) == /\ request[w] # Idle
          /\ Set(w, Idle)
          /\ sessions' = IF request[w].pc = "replace" THEN sessions - 1 ELSE sessions
          /\ UNCHANGED <<tables, failures, streak, was_locked>>

\* Migration 0002 is taken back, and applied again some time.  It waits for the
\* transactions that have read users or refresh_tokens; a refresh between its two
\* transactions goes on, into the new table.
Recreate == /\ \A w \in Workers : request[w].pc \in {"idle", "replace"}
            /\ is_locked' = FALSE /\ failed_login_attempts' = 0 /\ active_tokens' = {}
            /\ failures' = 0 /\ streak' = 0 /\ was_locked' = FALSE
            /\ sessions' = Cardinality(At("replace"))
            /\ UNCHANGED request

Start(w) == Refused(w) \/ login(w) \/ refresh(w) \/ logout(w)
Continue(w) == Failure(w) \/ Success(w) \/ revoke(w) \/ create(w)

Next == Recreate \/ \E w \in Workers : Start(w) \/ Continue(w) \/ Die(w)

SafeSpec == Init /\ [][Next]_vars

-----------------------------------------------------------------------------
Requests == [pc : {"idle", "verify", "issue", "refresh", "replace", "logout"},
             attempts : 0 .. Limit - 1, token : Tokens \cup {NULL}, alone : BOOLEAN]

\* The types of the variables.
TypeOK ==
    /\ is_locked \in BOOLEAN /\ was_locked \in BOOLEAN
    /\ failed_login_attempts \in 0 .. Limit
    /\ active_tokens \subseteq Tokens
    /\ failures \in 0 .. Limit /\ streak \in 0 .. Limit /\ sessions \in Nat
    /\ request \in [Workers -> Requests]

\* Five wrong passwords in a row lock the account, if no two of these logins
\* overlap.  (Those that do may count as one: each writes what it read plus one.)
FiveInARowLock == streak = Limit => is_locked

\* Fewer than five never do, however the logins overlap.
LockTakesFive == is_locked => failures = Limit

\* Nothing unlocks the account: not the login that read it before it was locked,
\* whether its password is then wrong or right.
LockIsKept == was_locked => is_locked

\* A login adds one active token, a logout takes one, and a refresh leaves as many
\* as there were.  Only a refresh that dies between its two transactions loses one,
\* and only a token revoked twice, by requests that overlap, gains one.
SessionsAreConserved ==
    Cardinality(active_tokens) + Cardinality(At("replace")) = sessions
=============================================================================
