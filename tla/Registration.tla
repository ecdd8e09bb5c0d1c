---------------------------- MODULE Registration ----------------------------
(***************************************************************************)
(* The registration of a board with the backend: login, OTP verification   *)
(* and completion over the tables users and pending_registrations, each    *)
(* request behind the sliding-window rate limiter and inside a database    *)
(* session that get_db commits or, when the handler raises, rolls back.    *)
(*                                                                         *)
(* A request is two steps: it is admitted, reads its rows and decides;     *)
(* later it writes what it decided and the session ends.  Between the two  *)
(* steps other requests, deregistrations, the clock and a restart of the   *)
(* server may come.  Refusals that write nothing are one step.             *)
(*                                                                         *)
(* A board is its Firebase account (email and uid); the smart_board_id is  *)
(* what the request body says.  An OTP is abstracted to whether the one    *)
(* entered matches the stored hash.                                        *)
(***************************************************************************)
EXTENDS Integers, FiniteSets

CONSTANTS
    Boards,         \* Firebase accounts of boards
    Ids,            \* smart_board_id values
    Requests,       \* request handlers that can be suspended at the same time
    Keys,           \* rate-limiter keys, address and X-Device-ID
    Nil,
    MaxAttempts,    \* _OTP_MAX_ATTEMPTS
    Limit, Window,  \* _AUTH_LIMIT requests in _WINDOW
    OtpTtl, LockTtl, TokenTtl,
    MaxTime,        \* bound: clock
    MaxRestarts     \* bound: restarts of the server

ASSUME RegistrationAssumption ==
    /\ Nil \notin Boards \cup Ids
    /\ IsFiniteSet(Keys)
    /\ {MaxAttempts, Limit, Window} \subseteq Nat \ {0}
    /\ {OtpTtl, LockTtl, TokenTtl, MaxTime, MaxRestarts} \subseteq Nat

VARIABLES
    users,      \* table users: the row of each board's email
    pending,    \* table pending_registrations: the row of each smart_board_id
    tokens,     \* verification tokens handed out
    req,        \* suspended handlers
    bucket,     \* SlidingWindowRateLimiter._buckets of the auth tier
    now,        \* clock
    restarts,   \* restarts of the server so far
    admitted,   \* history: requests admitted in the last window, by key
    verifiedAt, \* history: when an OTP of the id was last accepted
    guesses     \* history: OTPs compared with the row's current hash

vars == <<users, pending, tokens, req, bucket, now, restarts, admitted,
          verifiedAt, guesses>>

Time == 0..MaxTime
Never == -1

\* Rows.  A status of "none" and live = FALSE stand for a row that does not exist.
User == [status : {"none", "pending", "active", "suspended"}, sbi : Ids \cup {Nil}]
NoUser == [status |-> "none", sbi |-> Nil]

Pending == [live : BOOLEAN, board : Boards \cup {Nil}, expires : 0..(MaxTime + OtpTtl),
            attempts : 0..MaxAttempts, lockedUntil : 0..(MaxTime + LockTtl)]
NoPending == [live |-> FALSE, board |-> Nil, expires |-> 0, attempts |-> 0,
              lockedUntil |-> 0]

Token == [sbi : Ids, exp : 0..(MaxTime + TokenTtl)]

\* The i-th request that was admitted at a time.
Stamp == Time \X (1..Limit)

Request == [todo : {"none", "issue", "lock", "wrong", "accept", "activate"},
            board : Boards \cup {Nil}, sbi : Ids \cup {Nil}, at : Time,
            newUser : BOOLEAN, insert : BOOLEAN, attempts : 0..MaxAttempts,
            gone : BOOLEAN]
Idle == [todo |-> "none", board |-> Nil, sbi |-> Nil, at |-> 0, newUser |-> FALSE,
         insert |-> FALSE, attempts |-> 0, gone |-> FALSE]

\* No more OTPs can be compared with one row than the limiter lets in while it lives.
GuessBound(n) == Cardinality(Keys) * Limit * (OtpTtl \div Window + 1 + n)

TypeOK ==
    /\ users \in [Boards -> User]
    /\ pending \in [Ids -> Pending]
    /\ tokens \subseteq Token
    /\ req \in [Requests -> Request]
    /\ bucket \in [Keys -> SUBSET Stamp]
    /\ now \in Time
    /\ restarts \in 0..MaxRestarts
    /\ admitted \in [Keys -> SUBSET Stamp]
    /\ verifiedAt \in [Ids -> Time \cup {Never}]
    /\ guesses \in [Ids -> Nat]

Init ==
    /\ users = [b \in Boards |-> NoUser]
    /\ pending = [s \in Ids |-> NoPending]
    /\ tokens = {}
    /\ req = [r \in Requests |-> Idle]
    /\ bucket = [k \in Keys |-> {}]
    /\ now = 0
    /\ restarts = 0
    /\ admitted = [k \in Keys |-> {}]
    /\ verifiedAt = [s \in Ids |-> Never]
    /\ guesses = [s \in Ids |-> 0]

----------------------------------------------------------------------------
(* The rate limiter: check trims the bucket of the key and counts it,      *)
(* record appends the request.                                             *)

Trim_Everything(stamps) == {e \in stamps : e[1] >= now}
Trim(stamps) == {e \in stamps : e[1] > now - Window}

Allowed(k) == Cardinality(Trim(bucket[k])) < Limit

NextStamp(stamps) == <<now, CHOOSE i \in 1..Limit : <<now, i>> \notin stamps>>

Admit(k) ==
    LET kept == Trim(bucket[k])
        e == NextStamp(kept)
    IN  /\ Allowed(k)
        /\ bucket' = [bucket EXCEPT ![k] = kept \cup {e}]
        /\ admitted' = [admitted EXCEPT ![k] = @ \cup {e}]

RefuseBusy(k) ==
    /\ ~Allowed(k)
    /\ bucket' = [bucket EXCEPT ![k] = Trim(@)]
    /\ UNCHANGED <<users, pending, tokens, req, now, restarts, admitted, verifiedAt, guesses>>

----------------------------------------------------------------------------
(* What each handler decides from the rows it read.                        *)

\* register_initiate_pg
LoginTodo(user, row) ==
    IF user.status \in {"active", "suspended"} THEN "none"
    ELSE IF ~row.live THEN "issue"
    ELSE IF row.lockedUntil > now THEN "none"
    ELSE IF row.attempts >= MaxAttempts THEN "lock"
    ELSE "issue"

\* The row still holds an OTP that the one entered is compared with.
Compares_Expired(row) ==
    row.live /\ row.lockedUntil <= now /\ row.attempts < MaxAttempts
Compares(row) ==
    /\ row.live
    /\ row.lockedUntil <= now
    /\ row.attempts < MaxAttempts
    /\ now <= row.expires

\* register_verify_pg
VerifyTodo(row, right) ==
    IF Compares(row) THEN (IF right THEN "accept" ELSE "wrong")
    ELSE IF row.live /\ row.lockedUntil <= now /\ row.attempts >= MaxAttempts THEN "lock"
    ELSE "none"

\* register_complete_pg: jwt.decode and the checks on the claims.
TokenValid_AnySubject(t, s) == t.exp > now
TokenValid_NoExpiry(t, s) == t.sbi = s
TokenValid(t, s) == t.sbi = s /\ t.exp > now

\* A free handler keeps what the request decided; a decision to do nothing ends it.
Suspend(r, todo, b, s, newUser, row) ==
    /\ req[r].todo = "none"
    /\ req' = [req EXCEPT ![r] =
                IF todo = "none" THEN Idle
                ELSE [todo |-> todo, board |-> b, sbi |-> s, at |-> now,
                      newUser |-> newUser, insert |-> ~row.live, attempts |-> row.attempts, gone |-> FALSE]]

Login(r, k, b, s) ==
    /\ Admit(k)
    /\ Suspend(r, LoginTodo(users[b], pending[s]), b, s, users[b].status = "none", pending[s])
    /\ UNCHANGED <<users, pending, tokens, now, restarts, verifiedAt, guesses>>

Verify(r, k, s, right) ==
    /\ Admit(k)
    /\ Suspend(r, VerifyTodo(pending[s], right), Nil, s, FALSE, pending[s])
    /\ guesses' = [guesses EXCEPT ![s] = IF Compares(pending[s]) THEN @ + 1 ELSE @]
    /\ UNCHANGED <<users, pending, tokens, now, restarts, verifiedAt>>

\* The board found is the row with the smart_board_id, whoever sent the request.
Completes(t, s, b) ==
    /\ TokenValid(t, s)
    /\ users[b].sbi = s
    /\ users[b].status = "pending"

Complete(r, k, t, s) ==
    /\ Admit(k)
    /\ \/ \E b \in Boards :
            Completes(t, s, b) /\ Suspend(r, "activate", b, s, FALSE, pending[s])
       \/ /\ \A b \in Boards : ~Completes(t, s, b)
          /\ Suspend(r, "none", Nil, s, FALSE, pending[s])
    /\ UNCHANGED <<users, pending, tokens, now, restarts, verifiedAt, guesses>>

----------------------------------------------------------------------------
(* The end of a request: its writes, and what get_db makes of them.        *)

\* A unique column, or an UPDATE of a row that has been deleted, fails the flush.
Conflict_NoUnique(q) == q.todo = "issue" /\ ~q.insert /\ q.gone
Conflict(q) ==
    /\ q.todo = "issue"
    /\ \/ q.newUser /\ users[q.board].status # "none"
       \/ q.newUser /\ \E c \in Boards : users[c].sbi = q.sbi
       \/ q.insert /\ pending[q.sbi].live
       \/ q.insert /\ \E s \in Ids : pending[s].live /\ pending[s].board = q.board
       \/ ~q.insert /\ q.gone

Raises(q) == q.todo \in {"lock", "wrong"} \/ Conflict(q)

\* get_db: commit when the handler returned, roll back when it raised.
EndSession(q, before, after) == IF Raises(q) THEN before ELSE after

UsersWritten(q) ==
    IF q.todo = "issue" /\ q.newUser
    THEN [users EXCEPT ![q.board] = [status |-> "pending", sbi |-> q.sbi]]
    ELSE IF q.todo = "activate" THEN [users EXCEPT ![q.board].status = "active"]
    ELSE users

RowWritten(q, row) ==
    IF q.todo = "issue"
    THEN [live |-> TRUE, board |-> IF q.insert THEN q.board ELSE row.board,
          expires |-> q.at + OtpTtl, attempts |-> 0, lockedUntil |-> 0]
    ELSE IF q.todo = "lock"
    THEN [row EXCEPT !.attempts = MaxAttempts, !.lockedUntil = q.at + LockTtl]
    ELSE IF q.todo = "wrong" THEN [row EXCEPT !.attempts = q.attempts + 1]
    ELSE IF q.todo = "accept" /\ ~q.gone THEN NoPending
    ELSE row

TokensWritten_NoSubject(q) ==
    IF q.todo = "accept" THEN tokens \cup {[sbi |-> Nil, exp |-> q.at + TokenTtl]}
    ELSE tokens
TokensWritten(q) ==
    IF q.todo = "accept" THEN tokens \cup {[sbi |-> q.sbi, exp |-> q.at + TokenTtl]}
    ELSE tokens

\* The handlers that read a row this one deletes will find it gone.
Forget(q, p) ==
    IF q.todo = "accept" /\ ~q.gone /\ p.sbi = q.sbi /\ ~p.insert
    THEN [p EXCEPT !.gone = TRUE] ELSE p

Finish(r) ==
    LET q == req[r]
    IN  /\ q.todo # "none"
        /\ users' = EndSession(q, users, UsersWritten(q))
        /\ pending' = [pending EXCEPT ![q.sbi] = EndSession(q, @, RowWritten(q, @))]
        /\ tokens' = EndSession(q, tokens, TokensWritten(q))
        /\ req' = [p \in Requests |-> IF p = r THEN Idle ELSE Forget(q, req[p])]
        /\ verifiedAt' = IF q.todo = "accept"
                         THEN [verifiedAt EXCEPT ![q.sbi] = IF q.at > @ THEN q.at ELSE @]
                         ELSE verifiedAt
        /\ guesses' = IF q.todo = "issue" /\ ~Raises(q)
                      THEN [guesses EXCEPT ![q.sbi] = 0] ELSE guesses
        /\ UNCHANGED <<bucket, now, restarts, admitted>>

----------------------------------------------------------------------------
(* Everything else that changes the tables, the limiter or the clock.      *)

\* admin_deregister_board: one UPDATE, whatever the status was.
Deregister(s) ==
    /\ \E b \in Boards : users[b].sbi = s
    /\ users' = [b \in Boards |->
                   IF users[b].sbi = s
                   THEN [users[b] EXCEPT !.status = "pending"]
                   ELSE users[b]]
    /\ UNCHANGED <<pending, tokens, req, bucket, now, restarts, admitted, verifiedAt, guesses>>

\* An administrator suspends a board in the database; nothing under src/ does.
SuspendBoard(b) ==
    /\ users[b].status = "active"
    /\ users' = [users EXCEPT ![b].status = "suspended"]
    /\ UNCHANGED <<pending, tokens, req, bucket, now, restarts, admitted, verifiedAt, guesses>>

\* The server process is replaced: its memory and its open transactions go.
Restart ==
    /\ restarts < MaxRestarts
    /\ restarts' = restarts + 1
    /\ req' = [r \in Requests |-> Idle]
    /\ bucket' = [k \in Keys |-> {}]
    /\ admitted' = [k \in Keys |-> {}]
    /\ UNCHANGED <<users, pending, tokens, now, verifiedAt, guesses>>

Tick ==
    /\ now < MaxTime
    /\ now' = now + 1
    /\ admitted' = [k \in Keys |-> {e \in admitted[k] : e[1] > now + 1 - Window}]
    /\ UNCHANGED <<users, pending, tokens, req, bucket, restarts, verifiedAt, guesses>>

Next ==
    \/ \E k \in Keys : RefuseBusy(k)
    \/ \E r \in Requests, k \in Keys, b \in Boards, s \in Ids : Login(r, k, b, s)
    \/ \E r \in Requests, k \in Keys, s \in Ids, right \in BOOLEAN : Verify(r, k, s, right)
    \/ \E r \in Requests, k \in Keys, s \in Ids, t \in tokens : Complete(r, k, t, s)
    \/ \E r \in Requests : Finish(r)
    \/ \E s \in Ids : Deregister(s)
    \/ \E b \in Boards : SuspendBoard(b)
    \/ Restart
    \/ Tick

Spec == Init /\ [][Next]_vars

----------------------------------------------------------------------------

\* get_current_board_pg: the boards whose requests the other endpoints serve.
CurrentBoard(b) == users[b].status = "active"

(* A board is served only if an OTP of its own smart_board_id was accepted   *)
(* at some time: login, verification and completion of several boards may    *)
(* interleave, and the completion finds the board by the id in its body.     *)
ActiveWasVerified ==
    \A b \in Boards : CurrentBoard(b) => verifiedAt[users[b].sbi] # Never

(* A board becomes active only through a completion that was sent less than  *)
(* a token's life after an OTP of its id was accepted, also after it was     *)
(* deregistered or suspended while the completion was on its way.            *)
ActivationFresh ==
    [][\A b \in Boards :
         users[b].status # "active" /\ users'[b].status = "active" =>
           \E r \in Requests :
              /\ req[r].todo = "activate"
              /\ verifiedAt[users[b].sbi] # Never
              /\ req[r].at < verifiedAt[users[b].sbi] + TokenTtl]_vars

\* Boards whose completion is on its way.
Asked == {b \in Boards : \E r \in Requests : req[r].todo = "activate" /\ req[r].board = b}

E == INSTANCE Enrolment WITH account <- users, proven <- verifiedAt, asked <- Asked

(* The handlers, tables, tokens and database sessions together are an        *)
(* enrolment: an identity is claimed once, and a board becomes active only   *)
(* by a completion that was sent within the life of a token of its own       *)
(* identity, however requests overlap, are rolled back or are lost.  What it *)
(* does not say is that a deregistered or suspended board stays out of       *)
(* service: see Enrolment, and Revocation for what the code does.            *)
IsEnrolment == E!ESpec

(* Two boards never share a smart_board_id, and no board has two             *)
(* registrations pending, although every handler checks before it suspends   *)
(* and writes after.                                                         *)
IdentitiesUnique ==
    /\ \A b, c \in Boards : users[b].sbi = users[c].sbi /\ users[b].sbi # Nil => b = c
    /\ \A s, u \in Ids :
         pending[s].live /\ pending[u].live /\ pending[s].board = pending[u].board => s = u

(* In no window does one run of the server let in more than its limit for a  *)
(* key, at the boundary of the window included; a restart forgets the window.*)
WindowBound == \A k \in Keys : Cardinality(admitted[k]) <= Limit

(* The limiter and the expiry of the OTP bound the OTPs that can be tried on *)
(* one registration; nothing else does, since the count of wrong attempts is *)
(* rolled back (see LockoutHolds).  The bound is for a given set of limiter  *)
(* keys and grows with it: a key contains the X-Device-ID that the client    *)
(* chooses, though rate_limit_middleware.py:51 speaks of the address.        *)
GuessesBounded == \A s \in Ids : guesses[s] <= GuessBound(restarts)

(* auth_service.py:26 and PRODUCTION_READINESS_AUDIT.md:63: an OTP is        *)
(* locked after MaxAttempts attempts.                                        *)
LockoutHolds == \A s \in Ids : guesses[s] <= MaxAttempts
=============================================================================
