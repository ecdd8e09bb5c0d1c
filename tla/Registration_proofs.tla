------------------------ MODULE Registration_proofs ------------------------
(***************************************************************************)
(* Proofs about Registration, for any number of boards, ids, handlers and  *)
(* limiter keys and any of the code's constants.                           *)
(*                                                                         *)
(* A handler decides from what it read and writes later, so each property  *)
(* needs an invariant that spans the suspension:                           *)
(*   - Earned: a token, and a completion on its way, stand for an OTP      *)
(*     accepted for the id they name, recently enough;                     *)
(*   - ReadsLive: a handler that read a row still finds it, unless it was  *)
(*     marked gone;                                                        *)
(*   - LimiterKeeps: what was admitted in the window is in the bucket;     *)
(*   - Rationed: the OTPs tried on a registration are what was admitted    *)
(*     since some time in the last window and a budget for each earlier    *)
(*     window and each earlier run of the server.                          *)
(***************************************************************************)
EXTENDS Registration, FiniteSetTheorems, FunctionTheorems, TLAPS

Named ==
    /\ \A b \in Boards : users[b].status = "none" <=> users[b].sbi = Nil
    /\ \A r \in Requests :
         /\ req[r].todo # "none" => req[r].sbi \in Ids
         /\ req[r].todo \in {"issue", "activate"} => req[r].board \in Boards

Recent(s, at) ==
    /\ verifiedAt[s] # Never
    /\ at < verifiedAt[s] + TokenTtl

Earned ==
    /\ \A t \in tokens : verifiedAt[t.sbi] # Never /\ t.exp <= verifiedAt[t.sbi] + TokenTtl
    /\ \A r \in Requests : req[r].todo = "activate" =>
         /\ users[req[r].board].sbi = req[r].sbi
         /\ Recent(req[r].sbi, req[r].at)

ReadsLive ==
    \A r \in Requests : req[r].todo \in {"issue", "lock", "wrong", "accept"} =>
       /\ ~req[r].insert /\ ~req[r].gone => pending[req[r].sbi].live
       /\ req[r].todo = "accept" => ~req[r].insert

LimiterKeeps ==
    \A k \in Keys :
       /\ admitted[k] \subseteq {e \in bucket[k] : e[1] > now - Window}
       /\ Cardinality(admitted[k]) <= Limit

IInv == TypeOK /\ Named /\ Earned /\ ReadsLive /\ LimiterKeeps /\ ActiveWasVerified /\ IdentitiesUnique

----------------------------------------------------------------------------
(* The limiter.                                                            *)

LEMMA FiniteStamps == IsFiniteSet(Stamp)
  <1>1. IsFiniteSet(Time) /\ IsFiniteSet(1..Limit)
    BY FS_Interval, RegistrationAssumption DEF Time
  <1> QED
    BY <1>1, FS_Product DEF Stamp

\* A bucket below the limit has a free stamp at the present time.
LEMMA StampFree ==
    ASSUME now \in Time, NEW K \in SUBSET Stamp, Cardinality(K) < Limit
    PROVE  NextStamp(K) \in Stamp \ K /\ NextStamp(K)[1] = now
  <1> DEFINE f == [i \in 1..Limit |-> <<now, i>>]
             all == {<<now, i>> : i \in 1..Limit}
  <1>0. Limit \in Nat
    BY RegistrationAssumption
  <1>1. SUFFICES ASSUME all \subseteq K PROVE FALSE
    BY DEF NextStamp, Stamp
  <1>2. f \in Bijection(1..Limit, all)
    <2>1. f \in [1..Limit -> all]
      OBVIOUS
    <2>2. \A i, j \in 1..Limit : f[i] = f[j] => i = j
      OBVIOUS
    <2>3. \A e \in all : \E i \in 1..Limit : f[i] = e
      OBVIOUS
    <2> HIDE DEF f, all
    <2>4. f \in Injection(1..Limit, all)
      BY <2>1, <2>2 DEF Injection, IsInjective
    <2>5. f \in Surjection(1..Limit, all)
      BY <2>1, <2>3 DEF Surjection
    <2> QED
      BY <2>4, <2>5 DEF Bijection
  <1>3. IsFiniteSet(1..Limit) /\ Cardinality(1..Limit) = Limit
    BY <1>0, FS_Interval
  <1>4. ExistsBijection(1..Limit, all)
    BY <1>2 DEF ExistsBijection
  <1>5. Cardinality(all) = Limit
    BY <1>3, <1>4, FS_Bijection
  <1>6. IsFiniteSet(K)
    BY FiniteStamps, FS_Subset
  <1>7. Cardinality(all) <= Cardinality(K)
    BY <1>1, <1>6, FS_Subset
  <1> QED
    BY <1>0, <1>5, <1>6, <1>7, FS_CardinalityType

\* Admitting a request keeps the window's count within the limit.
LEMMA AdmitKeeps ==
    ASSUME TypeOK, LimiterKeeps, NEW k \in Keys, Admit(k), now' = now
    PROVE  /\ bucket' \in [Keys -> SUBSET Stamp]
           /\ admitted' \in [Keys -> SUBSET Stamp]
           /\ LimiterKeeps'
  <1> DEFINE kept == Trim(bucket[k])
             e == NextStamp(kept)
  <1>1. kept \in SUBSET Stamp /\ Cardinality(kept) < Limit /\ admitted[k] \subseteq kept
    BY DEF TypeOK, LimiterKeeps, Admit, Allowed, Trim
  <1>2. e \in Stamp /\ e[1] = now
    BY <1>1, StampFree DEF TypeOK
  <1>3. IsFiniteSet(kept) /\ IsFiniteSet(admitted[k])
    BY <1>1, FiniteStamps, FS_Subset
  <1>4. Cardinality(admitted[k]) <= Cardinality(kept)
    BY <1>1, <1>3, FS_Subset
  <1>5. Cardinality(admitted[k] \cup {e}) <= Cardinality(admitted[k]) + 1
    BY <1>3, FS_AddElement, FS_CardinalityType
  <1>6. Cardinality(admitted[k] \cup {e}) <= Limit
    <2>1. IsFiniteSet(admitted[k] \cup {e})
      BY <1>3, FS_AddElement
    <2> QED
      BY <1>1, <1>3, <1>4, <1>5, <2>1, FS_CardinalityType, RegistrationAssumption
  <1>7. /\ bucket' = [bucket EXCEPT ![k] = kept \cup {e}]
        /\ admitted' = [admitted EXCEPT ![k] = @ \cup {e}]
    BY DEF Admit
  <1>8. now > now - Window
    BY RegistrationAssumption DEF TypeOK, Time
  <1>9. \A x \in kept : x \in bucket[k] /\ x[1] > now - Window
    BY DEF Trim
  <1> HIDE DEF kept, e
  <1>10. /\ bucket' \in [Keys -> SUBSET Stamp]
         /\ admitted' \in [Keys -> SUBSET Stamp]
    BY <1>1, <1>2, <1>7 DEF TypeOK
  <1>11. ASSUME NEW j \in Keys
         PROVE  /\ admitted'[j] \subseteq {x \in bucket'[j] : x[1] > now - Window}
                /\ Cardinality(admitted'[j]) <= Limit
    <2>1. CASE j = k
      BY <1>1, <1>2, <1>6, <1>7, <1>8, <1>9, <2>1 DEF TypeOK
    <2>2. CASE j # k
      BY <1>7, <2>2 DEF TypeOK, LimiterKeeps
    <2> QED
      BY <2>1, <2>2
  <1> QED
    BY <1>10, <1>11 DEF LimiterKeeps

----------------------------------------------------------------------------
(* The first step of a request.                                            *)

Todos == {"none", "issue", "lock", "wrong", "accept", "activate"}

Remembered(todo, b, s, newUser, row) ==
    [todo |-> todo, board |-> b, sbi |-> s, at |-> now, newUser |-> newUser,
     insert |-> ~row.live, attempts |-> row.attempts, gone |-> FALSE]

LEMMA SuspendShape ==
    ASSUME TypeOK, NEW r \in Requests, NEW todo \in Todos, NEW b \in Boards \cup {Nil},
           NEW s \in Ids, NEW newUser \in BOOLEAN, NEW row \in Pending,
           Suspend(r, todo, b, s, newUser, row)
    PROVE  /\ req' \in [Requests -> Request]
           /\ \A p \in Requests :
                \/ req'[p] = req[p]
                \/ req'[p] = Idle
                \/ todo # "none" /\ req'[p] = Remembered(todo, b, s, newUser, row)
  <1>1. Idle \in Request
    BY RegistrationAssumption DEF Idle, Request, Time
  <1>2. Remembered(todo, b, s, newUser, row) \in Request
    BY DEF Remembered, Request, TypeOK, Pending, Todos
  <1>3. req' = [req EXCEPT ![r] = IF todo = "none" THEN Idle
                                  ELSE Remembered(todo, b, s, newUser, row)]
    BY DEF Suspend, Remembered
  <1> QED
    BY <1>1, <1>2, <1>3 DEF TypeOK

\* What the admission of a request leaves alone, with what it remembers.
LEMMA AdmissionKeeps ==
    ASSUME IInv, NEW r \in Requests, NEW k \in Keys, NEW todo \in Todos,
           NEW b \in Boards \cup {Nil}, NEW s \in Ids, NEW newUser \in BOOLEAN,
           Admit(k), Suspend(r, todo, b, s, newUser, pending[s]),
           UNCHANGED <<users, pending, tokens, now, restarts, verifiedAt>>,
           guesses' \in [Ids -> Nat],
           todo \in {"issue", "activate"} => b \in Boards,
           todo = "activate" => users[b].sbi = s /\ Recent(s, now),
           todo = "accept" => pending[s].live
    PROVE  IInv'
  <1> DEFINE q == Remembered(todo, b, s, newUser, pending[s])
  <1>0. TypeOK /\ Named /\ Earned /\ ReadsLive /\ LimiterKeeps /\ ActiveWasVerified /\ IdentitiesUnique
    BY DEF IInv
  <1>1. /\ bucket' \in [Keys -> SUBSET Stamp]
        /\ admitted' \in [Keys -> SUBSET Stamp]
        /\ LimiterKeeps'
    BY <1>0, AdmitKeeps
  <1>2. pending[s] \in Pending
    BY <1>0 DEF TypeOK
  <1>3. /\ req' \in [Requests -> Request]
        /\ \A p \in Requests : req'[p] = req[p] \/ req'[p] = Idle \/ (todo # "none" /\ req'[p] = q)
    BY <1>0, <1>2, SuspendShape
  <1>4. /\ q.todo = todo /\ q.board = b /\ q.sbi = s /\ q.at = now
        /\ q.insert = ~pending[s].live
    BY DEF Remembered
  <1> HIDE DEF q
  <1>5. TypeOK'
    BY <1>0, <1>1, <1>3 DEF TypeOK
  <1>6. Idle.todo = "none"
    BY DEF Idle
  <1>7. Named'
    BY <1>0, <1>3, <1>4, <1>6 DEF Named
  <1>8. Earned'
    BY <1>0, <1>3, <1>4, <1>6 DEF Earned, Recent
  <1>9. ReadsLive'
    BY <1>0, <1>3, <1>4, <1>6 DEF ReadsLive
  <1>10. ActiveWasVerified' /\ IdentitiesUnique'
    BY <1>0 DEF ActiveWasVerified, CurrentBoard, IdentitiesUnique
  <1> QED
    BY <1>1, <1>5, <1>7, <1>8, <1>9, <1>10 DEF IInv

LEMMA LoginKeeps ==
    ASSUME IInv, NEW r \in Requests, NEW k \in Keys, NEW b \in Boards, NEW s \in Ids,
           Login(r, k, b, s)
    PROVE  IInv'
  <1> DEFINE todo == LoginTodo(users[b], pending[s])
  <1>1. todo \in Todos /\ todo \notin {"activate", "accept"}
    BY DEF LoginTodo, Todos
  <1>2. (users[b].status = "none") \in BOOLEAN
    OBVIOUS
  <1> HIDE DEF todo
  <1>3. Admit(k) /\ Suspend(r, todo, b, s, users[b].status = "none", pending[s])
    BY DEF Login, todo
  <1>4. /\ UNCHANGED <<users, pending, tokens, now, restarts, verifiedAt>>
        /\ guesses' \in [Ids -> Nat]
    BY DEF Login, IInv, TypeOK
  <1> QED
    BY <1>1, <1>2, <1>3, <1>4, AdmissionKeeps

LEMMA VerifyKeeps ==
    ASSUME IInv, NEW r \in Requests, NEW k \in Keys, NEW s \in Ids, NEW right \in BOOLEAN,
           Verify(r, k, s, right)
    PROVE  IInv'
  <1> DEFINE todo == VerifyTodo(pending[s], right)
  <1>1. todo \in Todos /\ todo \notin {"activate", "issue"}
    BY DEF VerifyTodo, Todos
  <1>2. todo = "accept" => pending[s].live
    BY DEF VerifyTodo, Compares
  <1> HIDE DEF todo
  <1>3. Admit(k) /\ Suspend(r, todo, Nil, s, FALSE, pending[s])
    BY DEF Verify, todo
  <1>4. UNCHANGED <<users, pending, tokens, now, restarts, verifiedAt>>
    BY DEF Verify
  <1>5. guesses' \in [Ids -> Nat]
    BY DEF Verify, IInv, TypeOK
  <1>6. FALSE \in BOOLEAN /\ Nil \in Boards \cup {Nil}
    OBVIOUS
  <1> QED
    BY <1>1, <1>2, <1>3, <1>4, <1>5, <1>6, AdmissionKeeps

LEMMA CompleteKeeps ==
    ASSUME IInv, NEW r \in Requests, NEW k \in Keys, NEW s \in Ids, NEW t \in tokens,
           Complete(r, k, t, s)
    PROVE  IInv'
  <1>1. /\ Admit(k)
        /\ UNCHANGED <<users, pending, tokens, now, restarts, verifiedAt>>
        /\ guesses' \in [Ids -> Nat]
    BY DEF Complete, IInv, TypeOK
  <1>2. CASE \E b \in Boards :
               Completes(t, s, b) /\ Suspend(r, "activate", b, s, FALSE, pending[s])
    <2>1. PICK b \in Boards :
             Completes(t, s, b) /\ Suspend(r, "activate", b, s, FALSE, pending[s])
      BY <1>2
    <2>2. users[b].sbi = s /\ t.sbi = s /\ t.exp > now
      BY <2>1 DEF Completes, TokenValid
    <2>3. Recent(s, now)
      <3>1. verifiedAt[s] # Never /\ t.exp <= verifiedAt[s] + TokenTtl
        BY <2>2 DEF IInv, Earned
      <3>2. t.exp \in Int /\ now \in Int /\ verifiedAt[s] \in Int /\ TokenTtl \in Int
        BY RegistrationAssumption DEF IInv, TypeOK, Token, Time, Never
      <3> QED
        BY <2>2, <3>1, <3>2 DEF Recent
    <2>4. "activate" \in Todos /\ FALSE \in BOOLEAN
      BY DEF Todos
    <2> QED
      BY <1>1, <2>1, <2>2, <2>3, <2>4, AdmissionKeeps
  <1>3. CASE Suspend(r, "none", Nil, s, FALSE, pending[s])
    <2>1. "none" \in Todos /\ FALSE \in BOOLEAN /\ Nil \in Boards \cup {Nil}
      BY DEF Todos
    <2> QED
      BY <1>1, <1>3, <2>1, AdmissionKeeps
  <1> QED
    BY <1>2, <1>3 DEF Complete

----------------------------------------------------------------------------
(* The second step of a request.                                           *)

LEMMA FinishTypes ==
    ASSUME IInv, NEW r \in Requests, Finish(r)
    PROVE  TypeOK'
  <1> DEFINE q == req[r]
  <1>1. /\ q \in Request /\ q.todo # "none" /\ q.sbi \in Ids
        /\ q.todo \in {"issue", "activate"} => q.board \in Boards
    BY DEF IInv, TypeOK, Named, Finish
  <1>2. /\ q.at \in Time /\ q.attempts \in 0..MaxAttempts
        /\ q.board \in Boards \cup {Nil} /\ q.todo \in Todos
    BY <1>1 DEF Request, Todos
  <1> HIDE DEF q
  <1>3. UsersWritten(q) \in [Boards -> User]
    BY <1>1 DEF UsersWritten, IInv, TypeOK, User
  <1>4. RowWritten(q, pending[q.sbi]) \in Pending \/ Raises(q)
    <2>1. pending[q.sbi] \in Pending
      BY <1>1 DEF IInv, TypeOK
    <2>2. NoPending \in Pending
      BY RegistrationAssumption DEF NoPending, Pending
    <2>3. q.at + OtpTtl \in 0..(MaxTime + OtpTtl) /\ 0 \in 0..MaxAttempts /\ 0 \in 0..(MaxTime + LockTtl)
      BY <1>2, RegistrationAssumption DEF Time
    <2>4. q.todo = "issue" => RowWritten(q, pending[q.sbi]) \in Pending
      BY <1>2, <2>1, <2>3 DEF RowWritten, Pending
    <2> QED
      BY <1>2, <2>1, <2>2, <2>4 DEF RowWritten, Raises, Todos
  <1>5. TokensWritten(q) \subseteq Token
    <2>1. q.at + TokenTtl \in 0..(MaxTime + TokenTtl)
      BY <1>2, RegistrationAssumption DEF Time
    <2> QED
      BY <1>1, <2>1 DEF TokensWritten, IInv, TypeOK, Token
  <1>6. users' \in [Boards -> User]
    BY <1>3 DEF Finish, EndSession, IInv, TypeOK, q
  <1>7. pending' \in [Ids -> Pending]
    BY <1>1, <1>4 DEF Finish, EndSession, IInv, TypeOK, q
  <1>8. tokens' \subseteq Token
    BY <1>5 DEF Finish, EndSession, IInv, TypeOK, q
  <1>9. req' \in [Requests -> Request]
    <2>1. Idle \in Request
      BY RegistrationAssumption DEF Idle, Request, Time
    <2>2. ASSUME NEW p \in Requests PROVE Forget(q, req[p]) \in Request
      <3>1. req[p] \in Request
        BY DEF IInv, TypeOK
      <3>2. [req[p] EXCEPT !.gone = TRUE] \in Request
        BY <3>1 DEF Request
      <3> QED
        BY <3>1, <3>2 DEF Forget
    <2> QED
      BY <2>1, <2>2 DEF Finish, q
  <1>10. verifiedAt' \in [Ids -> Time \cup {Never}]
    BY <1>1, <1>2 DEF Finish, IInv, TypeOK, q
  <1>11. guesses' \in [Ids -> Nat]
    BY <1>1 DEF Finish, IInv, TypeOK, q
  <1> QED
    BY <1>6, <1>7, <1>8, <1>9, <1>10, <1>11 DEF Finish, IInv, TypeOK

\* A board's row is created by the request alone that names it, and never renamed.
LEMMA UsersShape ==
    ASSUME IInv, NEW r \in Requests, Finish(r)
    PROVE  /\ \A b \in Boards : users[b].sbi # Nil => users'[b].sbi = users[b].sbi
           /\ Named'
           /\ \A b, c \in Boards : users'[b].sbi = users'[c].sbi /\ users'[b].sbi # Nil => b = c
           /\ \A b \in Boards : users'[b].status = "active" =>
                \/ users[b].status = "active" /\ users'[b].sbi = users[b].sbi
                \/ req[r].todo = "activate" /\ req[r].board = b /\ users'[b].sbi = users[b].sbi
  <1> DEFINE q == req[r]
  <1>1. /\ q \in Request /\ q.todo # "none" /\ q.sbi \in Ids
        /\ q.todo \in {"issue", "activate"} => q.board \in Boards
        /\ users \in [Boards -> User]
        /\ Nil \notin Ids
    BY RegistrationAssumption DEF IInv, TypeOK, Named, Finish
  <1>2. users' = users \/ (~Raises(q) /\ users' = UsersWritten(q))
    BY DEF Finish, EndSession
  <1>3. \A p \in Requests : req'[p] = Idle \/
           (req'[p].todo = req[p].todo /\ req'[p].sbi = req[p].sbi /\ req'[p].board = req[p].board)
    BY DEF Finish, Forget, IInv, TypeOK, Request
  <1>4. q.todo = "activate" => users[q.board].sbi = q.sbi
    BY DEF IInv, Earned
  <1>5. Idle.todo = "none"
    BY DEF Idle
  <1>6. /\ \A b \in Boards : users[b].status = "none" <=> users[b].sbi = Nil
        /\ \A p \in Requests :
             /\ req[p].todo # "none" => req[p].sbi \in Ids
             /\ req[p].todo \in {"issue", "activate"} => req[p].board \in Boards
        /\ \A b, c \in Boards : users[b].sbi = users[c].sbi /\ users[b].sbi # Nil => b = c
    BY DEF IInv, Named, IdentitiesUnique
  <1> HIDE DEF q
  <1>7. CASE users' = users
    BY <1>3, <1>5, <1>6, <1>7 DEF Named
  <1>8. CASE ~Raises(q) /\ q.todo = "issue" /\ q.newUser
              /\ users' = [users EXCEPT ![q.board] = [status |-> "pending", sbi |-> q.sbi]]
    <2>1. users[q.board].status = "none" /\ \A c \in Boards : users[c].sbi # q.sbi
      BY <1>8 DEF Raises, Conflict
    <2> QED
      BY <1>1, <1>3, <1>5, <1>6, <1>8, <2>1 DEF Named
  <1>9. CASE q.todo = "activate" /\ users' = [users EXCEPT ![q.board].status = "active"]
    <2>1. \A b \in Boards : users'[b].sbi = users[b].sbi
      BY <1>1, <1>9 DEF User
    <2>2. \A b \in Boards : b # q.board => users'[b] = users[b]
      BY <1>1, <1>9
    <2>3. users'[q.board].status = "active" /\ users[q.board].sbi # Nil
      BY <1>1, <1>4, <1>9 DEF User
    <2> QED
      BY <1>3, <1>5, <1>6, <1>9, <2>1, <2>2, <2>3 DEF Named, q
  <1> QED
    BY <1>2, <1>7, <1>8, <1>9 DEF UsersWritten

\* The OTPs accepted so far stay accepted.
LEMMA VerifiedGrows ==
    ASSUME IInv, NEW r \in Requests, Finish(r)
    PROVE  /\ \A s \in Ids : verifiedAt[s] # Never =>
                verifiedAt'[s] # Never /\ verifiedAt[s] <= verifiedAt'[s]
           /\ req[r].todo = "accept" =>
                verifiedAt'[req[r].sbi] # Never /\ req[r].at <= verifiedAt'[req[r].sbi]
  <1>1. /\ req[r].at \in Nat /\ req[r].sbi \in Ids
        /\ verifiedAt \in [Ids -> Nat \cup {-1}]
    BY RegistrationAssumption DEF IInv, TypeOK, Named, Finish, Request, Time, Never
  <1> QED
    BY <1>1 DEF Finish, Never

LEMMA EarnedKept ==
    ASSUME IInv, NEW r \in Requests, Finish(r)
    PROVE  Earned'
  <1>1. /\ \A t \in tokens : t.sbi \in Ids /\ t.exp \in Int
        /\ \A p \in Requests : req[p].at \in Int
        /\ TokenTtl \in Int
        /\ \A s \in Ids : verifiedAt[s] \in Int /\ verifiedAt'[s] \in Int
    <2>1. TypeOK /\ TypeOK'
      BY FinishTypes DEF IInv
    <2> QED
      BY <2>1, RegistrationAssumption DEF TypeOK, Token, Request, Time, Never
  <1>2. \A t \in tokens' : t \in tokens \/
          (req[r].todo = "accept" /\ t = [sbi |-> req[r].sbi, exp |-> req[r].at + TokenTtl])
    BY DEF Finish, EndSession, TokensWritten
  <1>3. req[r].sbi \in Ids
    BY DEF IInv, Named, Finish
  <1>4. \A t \in tokens' :
          verifiedAt'[t.sbi] # Never /\ t.exp <= verifiedAt'[t.sbi] + TokenTtl
    <2> TAKE t \in tokens'
    <2>1. CASE t \in tokens
      BY <1>1, <2>1, VerifiedGrows DEF IInv, Earned
    <2>2. CASE req[r].todo = "accept" /\ t = [sbi |-> req[r].sbi, exp |-> req[r].at + TokenTtl]
      <3>1. t.sbi = req[r].sbi /\ t.exp = req[r].at + TokenTtl
        BY <2>2
      <3>2. verifiedAt'[req[r].sbi] # Never /\ req[r].at <= verifiedAt'[req[r].sbi]
        BY <2>2, VerifiedGrows
      <3> QED
        BY <1>1, <1>3, <3>1, <3>2
    <2> QED
      BY <1>2, <2>1, <2>2
  <1>5. \A p \in Requests : req'[p] = Idle \/
           (req'[p].todo = req[p].todo /\ req'[p].sbi = req[p].sbi
              /\ req'[p].board = req[p].board /\ req'[p].at = req[p].at)
    BY DEF Finish, Forget, IInv, TypeOK, Request
  <1>6. ASSUME NEW p \in Requests, req'[p].todo = "activate"
        PROVE  /\ users'[req'[p].board].sbi = req'[p].sbi
               /\ verifiedAt'[req'[p].sbi] # Never
               /\ req'[p].at < verifiedAt'[req'[p].sbi] + TokenTtl
    <2>1. /\ req[p].todo = "activate" /\ req'[p].sbi = req[p].sbi
          /\ req'[p].board = req[p].board /\ req'[p].at = req[p].at
      BY <1>5, <1>6 DEF Idle
    <2>2. /\ users[req[p].board].sbi = req[p].sbi /\ Recent(req[p].sbi, req[p].at)
          /\ req[p].sbi \in Ids /\ req[p].board \in Boards
      BY <2>1 DEF IInv, Earned, Named
    <2>3. users'[req[p].board].sbi = req[p].sbi
      BY <2>2, UsersShape, RegistrationAssumption
    <2>4. /\ verifiedAt'[req[p].sbi] # Never
          /\ req[p].at < verifiedAt'[req[p].sbi] + TokenTtl
      BY <1>1, <2>2, VerifiedGrows DEF Recent
    <2> QED
      BY <2>1, <2>3, <2>4
  <1> QED
    BY <1>4, <1>6 DEF Earned, Recent

LEMMA RowsKept ==
    ASSUME IInv, NEW r \in Requests, Finish(r)
    PROVE  /\ ReadsLive'
           /\ \A s, u \in Ids :
                pending'[s].live /\ pending'[u].live /\ pending'[s].board = pending'[u].board => s = u
  <1> DEFINE q == req[r]
             row == RowWritten(q, pending[q.sbi])
  <1>1. /\ q \in Request /\ q.todo # "none" /\ q.sbi \in Ids
        /\ pending \in [Ids -> Pending]
    BY DEF IInv, TypeOK, Named, Finish
  <1>2. \/ pending' = pending
        \/ ~Raises(q) /\ pending' = [pending EXCEPT ![q.sbi] = row]
    BY <1>1 DEF Finish, EndSession
  <1>3. req' = [p \in Requests |-> IF p = r THEN Idle ELSE Forget(q, req[p])]
    BY DEF Finish
  <1>4. /\ \A s, u \in Ids :
             pending[s].live /\ pending[u].live /\ pending[s].board = pending[u].board => s = u
        /\ \A p \in Requests : req[p].todo \in {"issue", "lock", "wrong", "accept"} =>
             /\ ~req[p].insert /\ ~req[p].gone => pending[req[p].sbi].live
             /\ req[p].todo = "accept" => ~req[p].insert
        /\ \A p \in Requests : req[p] \in Request /\ (req[p].todo # "none" => req[p].sbi \in Ids)
    BY DEF IInv, IdentitiesUnique, ReadsLive, Named, TypeOK
  <1>5. ASSUME NEW p \in Requests, p # r
        PROVE  /\ req'[p].todo = req[p].todo /\ req'[p].sbi = req[p].sbi
               /\ req'[p].insert = req[p].insert
               /\ ~req'[p].gone =>
                    ~req[p].gone /\ ~(q.todo = "accept" /\ ~q.gone /\ req[p].sbi = q.sbi /\ ~req[p].insert)
    BY <1>3, <1>4, <1>5 DEF Forget, Request
  <1>6. req'[r].todo = "none"
    BY <1>3 DEF Idle
  <1>7. /\ q.todo = "issue" => row.live /\ row.board = (IF q.insert THEN q.board ELSE pending[q.sbi].board)
        /\ q.todo = "accept" /\ ~q.gone => ~row.live
        /\ q.todo \notin {"issue", "lock", "wrong"} /\ ~(q.todo = "accept" /\ ~q.gone) => row = pending[q.sbi]
    BY DEF RowWritten, NoPending
  <1>8. ~Raises(q) => /\ q.todo \notin {"lock", "wrong"}
                      /\ q.todo = "issue" =>
                           IF q.insert
                           THEN \A s \in Ids : ~(pending[s].live /\ pending[s].board = q.board)
                           ELSE ~q.gone
    BY DEF Raises, Conflict
  <1>9. q.todo = "issue" /\ ~q.insert /\ ~q.gone => pending[q.sbi].live
    BY <1>4
  <1> HIDE DEF q, row
  <1>10. ReadsLive'
    <2>1. \A s \in Ids : pending[s].live /\ ~pending'[s].live =>
             s = q.sbi /\ q.todo = "accept" /\ ~q.gone
      BY <1>1, <1>2, <1>7, <1>8
    <2>2. ASSUME NEW p \in Requests, req'[p].todo \in {"issue", "lock", "wrong", "accept"}
          PROVE  /\ ~req'[p].insert /\ ~req'[p].gone => pending'[req'[p].sbi].live
                 /\ req'[p].todo = "accept" => ~req'[p].insert
      <3>1. p # r
        BY <1>6, <2>2
      <3>2. req[p].sbi \in Ids /\ req[p].todo \in {"issue", "lock", "wrong", "accept"}
        BY <1>4, <1>5, <2>2, <3>1
      <3> QED
        BY <1>4, <1>5, <2>1, <3>1, <3>2
    <2> QED
      BY <2>2 DEF ReadsLive
  <1>11. ASSUME NEW s \in Ids, NEW u \in Ids, pending'[s].live, pending'[u].live,
                pending'[s].board = pending'[u].board
         PROVE  s = u
    <2>1. CASE pending' = pending
      BY <1>4, <1>11, <2>1
    <2>2. CASE ~Raises(q) /\ pending' = [pending EXCEPT ![q.sbi] = row]
      <3>1. /\ pending'[q.sbi] = row
            /\ \A v \in Ids : v # q.sbi => pending'[v] = pending[v]
        BY <1>1, <2>2
      <3>2. CASE q.todo = "issue"
        BY <1>4, <1>7, <1>8, <1>9, <1>11, <2>2, <3>1, <3>2
      <3>3. CASE q.todo # "issue"
        BY <1>4, <1>7, <1>8, <1>11, <2>2, <3>1, <3>3
      <3> QED
        BY <3>2, <3>3
    <2> QED
      BY <1>2, <2>1, <2>2
  <1> QED
    BY <1>10, <1>11

LEMMA FinishKeeps ==
    ASSUME IInv, NEW r \in Requests, Finish(r)
    PROVE  IInv'
  <1>1. TypeOK'
    BY FinishTypes
  <1>2. Named' /\ Earned' /\ ReadsLive'
    BY UsersShape, EarnedKept, RowsKept
  <1>3. LimiterKeeps'
    BY DEF Finish, IInv, LimiterKeeps
  <1>4. IdentitiesUnique'
    BY UsersShape, RowsKept DEF IdentitiesUnique
  <1>5. ActiveWasVerified'
    <2> SUFFICES ASSUME NEW b \in Boards, users'[b].status = "active"
                 PROVE  verifiedAt'[users'[b].sbi] # Never
      BY DEF ActiveWasVerified, CurrentBoard
    <2>1. users[b].sbi \in Ids /\ users'[b].sbi = users[b].sbi
      <3>1. users'[b].sbi = users[b].sbi /\ users'[b].sbi # Nil
        BY UsersShape DEF Named
      <3> QED
        BY <3>1 DEF IInv, TypeOK, User
    <2>2. verifiedAt[users[b].sbi] # Never
      <3>1. CASE users[b].status = "active"
        BY <3>1 DEF IInv, ActiveWasVerified, CurrentBoard
      <3>2. CASE req[r].todo = "activate" /\ req[r].board = b
        BY <3>2 DEF IInv, Earned, Recent
      <3> QED
        BY <3>1, <3>2, UsersShape
    <2> QED
      BY <2>1, <2>2, VerifiedGrows
  <1> QED
    BY <1>1, <1>2, <1>3, <1>4, <1>5 DEF IInv

----------------------------------------------------------------------------
(* The other actions.                                                      *)

LEMMA InitOK == Init => IInv
  <1> SUFFICES ASSUME Init PROVE IInv
    OBVIOUS
  <1>1. /\ 0 \in Time /\ 0 \in 0..(MaxTime + OtpTtl) /\ 0 \in 0..MaxAttempts
        /\ 0 \in 0..(MaxTime + LockTtl) /\ 0 \in 0..MaxRestarts /\ 0 \in Nat /\ 0 <= Limit
    BY RegistrationAssumption DEF Time
  <1>2. NoUser \in User /\ NoPending \in Pending /\ Idle \in Request
    BY <1>1 DEF NoUser, User, NoPending, Pending, Idle, Request
  <1>3. TypeOK
    BY <1>1, <1>2 DEF Init, TypeOK
  <1>4. Named /\ Earned /\ ReadsLive
    BY DEF Init, Named, Earned, ReadsLive, NoUser, Idle
  <1>5. LimiterKeeps
    BY <1>1, FS_EmptySet DEF Init, LimiterKeeps
  <1>6. ActiveWasVerified /\ IdentitiesUnique
    BY DEF Init, ActiveWasVerified, CurrentBoard, IdentitiesUnique, NoUser, NoPending
  <1> QED
    BY <1>3, <1>4, <1>5, <1>6 DEF IInv

LEMMA DeregisterKeeps ==
    ASSUME IInv, NEW s \in Ids, Deregister(s)
    PROVE  IInv'
  <1>0. TypeOK /\ Named /\ Earned /\ ReadsLive /\ LimiterKeeps /\ ActiveWasVerified /\ IdentitiesUnique
    BY DEF IInv
  <1>1. \A b \in Boards : /\ users'[b] \in User
                          /\ users'[b].sbi = users[b].sbi
                          /\ users'[b] = users[b] \/ (users'[b].status = "pending" /\ users[b].sbi = s)
    BY <1>0 DEF Deregister, TypeOK, User
  <1>2. Nil \notin Ids
    BY RegistrationAssumption
  <1>3. TypeOK'
    BY <1>0 DEF Deregister, TypeOK, User
  <1>4. Named' /\ Earned'
    BY <1>0, <1>1, <1>2 DEF Deregister, Named, Earned, Recent
  <1>5. ReadsLive' /\ LimiterKeeps'
    BY <1>0 DEF Deregister, ReadsLive, LimiterKeeps
  <1>6. ActiveWasVerified' /\ IdentitiesUnique'
    BY <1>0, <1>1 DEF Deregister, ActiveWasVerified, CurrentBoard, IdentitiesUnique
  <1> QED
    BY <1>3, <1>4, <1>5, <1>6 DEF IInv

LEMMA OtherKeeps ==
    ASSUME IInv, \/ \E k \in Keys : RefuseBusy(k)
                 \/ \E b \in Boards : SuspendBoard(b)
                 \/ Restart
                 \/ Tick
                 \/ UNCHANGED vars
    PROVE  IInv'
  <1>0. TypeOK /\ Named /\ Earned /\ ReadsLive /\ LimiterKeeps /\ ActiveWasVerified /\ IdentitiesUnique
    BY DEF IInv
  <1>1. ASSUME NEW k \in Keys, RefuseBusy(k)
        PROVE  IInv'
    <2>1. TypeOK'
      BY <1>0, <1>1 DEF RefuseBusy, TypeOK, Trim
    <2>2. LimiterKeeps'
      BY <1>0, <1>1 DEF RefuseBusy, LimiterKeeps, Trim, TypeOK
    <2> QED
      BY <1>0, <1>1, <2>1, <2>2 DEF RefuseBusy, IInv, Named, Earned, Recent, ReadsLive,
         ActiveWasVerified, CurrentBoard, IdentitiesUnique
  <1>2. ASSUME NEW b \in Boards, SuspendBoard(b)
        PROVE  IInv'
    <2>1. TypeOK'
      BY <1>0, <1>2 DEF SuspendBoard, TypeOK, User
    <2>2. \A c \in Boards : /\ users'[c].sbi = users[c].sbi
                            /\ users'[c] = users[c] \/
                                 (c = b /\ users'[c].status = "suspended" /\ users[c].status = "active")
      BY <1>0, <1>2 DEF SuspendBoard, TypeOK, User
    <2> QED
      BY <1>0, <1>2, <2>1, <2>2 DEF SuspendBoard, IInv, Named, Earned, Recent, ReadsLive,
         LimiterKeeps, ActiveWasVerified, CurrentBoard, IdentitiesUnique
  <1>3. CASE Restart
    <2>1. Idle \in Request /\ Idle.todo = "none"
      BY RegistrationAssumption DEF Idle, Request, Time
    <2>2. TypeOK'
      BY <1>0, <1>3, <2>1, RegistrationAssumption DEF Restart, TypeOK
    <2>3. LimiterKeeps'
      BY <1>3, FS_EmptySet, RegistrationAssumption DEF Restart, LimiterKeeps
    <2> QED
      BY <1>0, <1>3, <2>1, <2>2, <2>3 DEF Restart, IInv, Named, Earned, Recent, ReadsLive,
         ActiveWasVerified, CurrentBoard, IdentitiesUnique
  <1>4. CASE Tick
    <2>1. now' = now + 1 /\ now' \in Time
      BY <1>0, <1>4, RegistrationAssumption DEF Tick, TypeOK, Time
    <2>2. TypeOK'
      BY <1>0, <1>4, <2>1 DEF Tick, TypeOK
    <2>3. LimiterKeeps'
      <3> SUFFICES ASSUME NEW k \in Keys
                   PROVE  /\ \A e \in admitted'[k] : e \in bucket'[k] /\ e[1] > now' - Window
                          /\ Cardinality(admitted'[k]) <= Limit
        BY DEF LimiterKeeps
      <3>0. /\ admitted'[k] = {e \in admitted[k] : e[1] > now + 1 - Window}
            /\ bucket' = bucket
        BY <1>4 DEF Tick
      <3>1. /\ \A e \in admitted'[k] : e \in admitted[k] /\ e[1] > now + 1 - Window
            /\ bucket' = bucket /\ admitted'[k] \subseteq admitted[k]
        BY <3>0
      <3>2. IsFiniteSet(admitted[k])
        BY <1>0, FiniteStamps, FS_Subset DEF TypeOK
      <3>3. /\ IsFiniteSet(admitted'[k])
            /\ Cardinality(admitted'[k]) <= Cardinality(admitted[k])
        BY <3>1, <3>2, FS_Subset
      <3>4. Cardinality(admitted[k]) \in Nat /\ Cardinality(admitted'[k]) \in Nat
        BY <3>2, <3>3, FS_CardinalityType
      <3>5. \A e \in admitted'[k] : e \in bucket'[k] /\ e[1] > now' - Window
        <4> TAKE e \in admitted'[k]
        <4>1. e \in admitted[k] /\ e[1] > now + 1 - Window /\ bucket' = bucket
          BY <3>1
        <4>2. e \in bucket[k]
          BY <1>0, <4>1 DEF LimiterKeeps
        <4>3. e[1] > now' - Window
          <5>1. now \in Int /\ Window \in Int
            BY <1>0, RegistrationAssumption DEF TypeOK, Time
          <5>2. now + 1 - Window = now' - Window
            BY <2>1, <5>1
          <5> QED
            BY <4>1, <5>2
        <4> QED
          BY <4>1, <4>2, <4>3
      <3>6. Cardinality(admitted[k]) <= Limit /\ Limit \in Nat
        BY <1>0, RegistrationAssumption DEF LimiterKeeps
      <3> QED
        BY <3>3, <3>4, <3>5, <3>6
    <2> QED
      BY <1>0, <1>4, <2>2, <2>3 DEF Tick, IInv, Named, Earned, Recent, ReadsLive,
         ActiveWasVerified, CurrentBoard, IdentitiesUnique
  <1>5. CASE UNCHANGED vars
    BY <1>0, <1>5 DEF vars, IInv, TypeOK, Named, Earned, Recent, ReadsLive, LimiterKeeps,
       ActiveWasVerified, CurrentBoard, IdentitiesUnique
  <1> QED
    BY <1>1, <1>2, <1>3, <1>4, <1>5

----------------------------------------------------------------------------

THEOREM Invariance == Spec => []IInv
  <1>1. Init => IInv
    BY InitOK
  <1>2. IInv /\ [Next]_vars => IInv'
    <2> SUFFICES ASSUME IInv, [Next]_vars PROVE IInv'
      OBVIOUS
    <2>1. ASSUME NEW r \in Requests, NEW k \in Keys, NEW b \in Boards, NEW s \in Ids, Login(r, k, b, s)
          PROVE  IInv'
      BY <2>1, LoginKeeps
    <2>2. ASSUME NEW r \in Requests, NEW k \in Keys, NEW s \in Ids, NEW right \in BOOLEAN,
                 Verify(r, k, s, right)
          PROVE  IInv'
      BY <2>2, VerifyKeeps
    <2>3. ASSUME NEW r \in Requests, NEW k \in Keys, NEW s \in Ids, NEW t \in tokens,
                 Complete(r, k, t, s)
          PROVE  IInv'
      BY <2>3, CompleteKeeps
    <2>4. ASSUME NEW r \in Requests, Finish(r)
          PROVE  IInv'
      BY <2>4, FinishKeeps
    <2>5. ASSUME NEW s \in Ids, Deregister(s)
          PROVE  IInv'
      BY <2>5, DeregisterKeeps
    <2> QED
      BY <2>1, <2>2, <2>3, <2>4, <2>5, OtherKeeps DEF Next
  <1> QED
    BY <1>1, <1>2, PTL DEF Spec

(* Every reachable state has its type.                                     *)
THEOREM TypeCorrect == Spec => []TypeOK
  <1>1. IInv => TypeOK
    BY DEF IInv
  <1> QED
    BY <1>1, Invariance, PTL

(* get_current_board_pg only ever lets in boards whose identity's OTP was  *)
(* accepted, whatever logins, completions, deregistrations and restarts    *)
(* interleave.                                                             *)
THEOREM ServedWasVerified == Spec => []ActiveWasVerified
  <1>1. IInv => ActiveWasVerified
    BY DEF IInv
  <1> QED
    BY <1>1, Invariance, PTL

(* No two boards share an identity and no board has two registrations      *)
(* pending.                                                                *)
THEOREM IdentitiesStayUnique == Spec => []IdentitiesUnique
  <1>1. IInv => IdentitiesUnique
    BY DEF IInv
  <1> QED
    BY <1>1, Invariance, PTL

(* The sliding window never admits more than its limit.                    *)
THEOREM WindowStaysBounded == Spec => []WindowBound
  <1>1. IInv => WindowBound
    BY DEF IInv, LimiterKeeps, WindowBound
  <1> QED
    BY <1>1, Invariance, PTL

(* A board is activated only by a completion sent within the life of a     *)
(* token of its own identity.                                              *)
THEOREM ActivationsAreFresh == Spec => ActivationFresh
  <1> DEFINE Fresh ==
        \A b \in Boards :
          users[b].status # "active" /\ users'[b].status = "active" =>
            \E r \in Requests :
              /\ req[r].todo = "activate"
              /\ verifiedAt[users[b].sbi] # Never
              /\ req[r].at < verifiedAt[users[b].sbi] + TokenTtl
  <1>1. IInv /\ [Next]_vars => [Fresh]_vars
    <2> SUFFICES ASSUME IInv, Next, NEW b \in Boards,
                        users[b].status # "active", users'[b].status = "active"
                 PROVE  \E r \in Requests :
                          /\ req[r].todo = "activate"
                          /\ verifiedAt[users[b].sbi] # Never
                          /\ req[r].at < verifiedAt[users[b].sbi] + TokenTtl
      OBVIOUS
    <2>1. ASSUME NEW r \in Requests, Finish(r)
          PROVE  req[r].todo = "activate" /\ Recent(users[b].sbi, req[r].at)
      <3>1. req[r].todo = "activate" /\ req[r].board = b
        BY <2>1, UsersShape
      <3> QED
        BY <3>1 DEF IInv, Earned
    <2>2. ASSUME NEW s \in Ids, Deregister(s)
          PROVE  FALSE
      BY <2>2 DEF Deregister, IInv, TypeOK, User
    <2>3. ASSUME NEW c \in Boards, SuspendBoard(c)
          PROVE  FALSE
      BY <2>3 DEF SuspendBoard, IInv, TypeOK, User
    <2>4. users' # users
      OBVIOUS
    <2> QED
      BY <2>1, <2>2, <2>3, <2>4 DEF Next, RefuseBusy, Login, Verify, Complete, Restart, Tick, Recent
  <1> QED
    BY <1>1, Invariance, PTL DEF Spec, ActivationFresh

----------------------------------------------------------------------------
(* The OTPs that can be tried on one registration.                         *)

\* The admissions of all keys in the bucket contents A that are later than t.
Later(A, t) == {x \in Keys \X Stamp : x[2] \in A[x[1]] /\ x[2][1] > t}

Budget == Cardinality(Keys) * Limit

LEMMA BudgetType ==
    /\ Budget \in Nat
    /\ IsFiniteSet(Keys \X (1..Limit))
    /\ Cardinality(Keys \X (1..Limit)) = Budget
  <1>1. IsFiniteSet(Keys) /\ Cardinality(Keys) \in Nat /\ Limit \in Nat
    BY RegistrationAssumption, FS_CardinalityType
  <1>2. IsFiniteSet(1..Limit) /\ Cardinality(1..Limit) = Limit
    BY <1>1, FS_Interval
  <1>3. Budget \in Nat
    BY <1>1 DEF Budget
  <1> QED
    BY <1>1, <1>2, <1>3, FS_Product DEF Budget

\* A bucket within the limit can be numbered.
LEMMA Numbered ==
    ASSUME NEW S \in SUBSET Stamp, Cardinality(S) <= Limit
    PROVE  \E f : f \in Injection(S, 1..Limit)
  <1>1. IsFiniteSet(S)
    BY FiniteStamps, FS_Subset
  <1>2. Cardinality(S) \in Nat /\ ExistsBijection(1..Cardinality(S), S)
    BY <1>1, FS_CardinalityType
  <1>3. ExistsBijection(S, 1..Cardinality(S))
    BY <1>2, Fun_ExistsBijSymmetric
  <1>4. PICK f : f \in Bijection(S, 1..Cardinality(S))
    BY <1>3 DEF ExistsBijection
  <1>5. 1..Cardinality(S) \subseteq 1..Limit
    BY <1>2, RegistrationAssumption
  <1>6. f \in Injection(S, 1..Limit)
    BY <1>4, <1>5 DEF Bijection, Injection
  <1> QED
    BY <1>6

\* All keys together stay within the budget of one window.
LEMMA WithinBudget ==
    ASSUME NEW A \in [Keys -> SUBSET Stamp], \A k \in Keys : Cardinality(A[k]) <= Limit, NEW t
    PROVE  /\ IsFiniteSet(Later(A, t))
           /\ Cardinality(Later(A, t)) \in Nat
           /\ Cardinality(Later(A, t)) <= Budget
  <1> DEFINE number == [k \in Keys |-> CHOOSE f : f \in Injection(A[k], 1..Limit)]
             h == [x \in Later(A, t) |-> <<x[1], number[x[1]][x[2]]>>]
  <1>1. ASSUME NEW k \in Keys
        PROVE  number[k] \in Injection(A[k], 1..Limit)
    <2>1. \E f : f \in Injection(A[k], 1..Limit)
      BY Numbered
    <2> QED
      BY <2>1
  <1> HIDE DEF number
  <1>2. ASSUME NEW x \in Later(A, t)
        PROVE  /\ x[1] \in Keys /\ x[2] \in A[x[1]] /\ x = <<x[1], x[2]>>
               /\ number[x[1]][x[2]] \in 1..Limit
    <2>1. x[1] \in Keys /\ x[2] \in A[x[1]] /\ x = <<x[1], x[2]>>
      BY DEF Later
    <2> QED
      BY <1>1, <2>1 DEF Injection
  <1>3. h \in [Later(A, t) -> Keys \X (1..Limit)]
    BY <1>2
  <1>4. ASSUME NEW x \in Later(A, t), NEW y \in Later(A, t), h[x] = h[y]
        PROVE  x = y
    <2>1. x[1] = y[1] /\ number[x[1]][x[2]] = number[x[1]][y[2]]
      BY <1>4
    <2>2. x[2] \in A[x[1]] /\ y[2] \in A[x[1]] /\ x[1] \in Keys
      BY <1>2, <2>1
    <2>3. x[2] = y[2]
      BY <1>1, <2>1, <2>2 DEF Injection, IsInjective
    <2> QED
      BY <1>2, <2>1, <2>3
  <1> HIDE DEF h
  <1>5. h \in Injection(Later(A, t), Keys \X (1..Limit))
    BY <1>3, <1>4 DEF Injection, IsInjective
  <1>6. IsFiniteSet(Later(A, t)) /\ Cardinality(Later(A, t)) <= Budget
    BY <1>5, BudgetType, FS_Injection
  <1> QED
    BY <1>6, FS_CardinalityType

\* What was admitted later than t bounds the OTPs tried on s, but for those of earlier windows
\* and of earlier runs of the server, which had a budget each.
Rationed(s) ==
    /\ guesses[s] <= GuessBound(restarts)
    /\ pending[s].live =>
         /\ pending[s].expires <= now + OtpTtl
         /\ \A t \in (now - Window)..(now - 1), n \in Nat :
              t < pending[s].expires - OtpTtl + n * Window
                => guesses[s] <= Cardinality(Later(admitted, t)) + Budget * (n + restarts)

GInv ==
    /\ \A r \in Requests : req[r].at <= now
    /\ \A s \in Ids : Rationed(s)

LEMMA BudgetGrows ==
    ASSUME NEW n \in Nat, NEW m \in Nat
    PROVE  /\ Budget * (n + m) \in Nat
           /\ Budget * (n + (m + 1)) = Budget * (n + m) + Budget
           /\ Budget * ((n + 1) + m) = Budget * (n + m) + Budget
           /\ n * Window \in Nat /\ Window \in Nat /\ Window > 0
           /\ (n + 1) * Window = n * Window + Window
  BY BudgetType, RegistrationAssumption

\* The number of windows that the life of an OTP reaches into.
LEMMA LifeInWindows ==
    /\ OtpTtl \div Window \in Nat
    /\ OtpTtl - Window < (OtpTtl \div Window) * Window
    /\ \A n \in Nat : GuessBound(n) = Budget * ((OtpTtl \div Window + 1) + n)
  <1>1. OtpTtl \in Nat /\ Window \in Nat \ {0}
    BY RegistrationAssumption
  <1>2. OtpTtl \div Window \in Nat
    BY <1>1
  <1>3. OtpTtl - Window < (OtpTtl \div Window) * Window
    BY <1>1
  <1> QED
    BY <1>2, <1>3 DEF GuessBound, Budget

\* An admission is later than any earlier time.
LEMMA AdmissionCounts ==
    ASSUME TypeOK, LimiterKeeps, NEW k \in Keys, Admit(k), NEW t \in Int, t < now
    PROVE  /\ Cardinality(Later(admitted, t)) \in Nat
           /\ Cardinality(Later(admitted', t)) = Cardinality(Later(admitted, t)) + 1
  <1> DEFINE kept == Trim(bucket[k])
             e == NextStamp(kept)
  <1>1. kept \in SUBSET Stamp /\ Cardinality(kept) < Limit /\ admitted[k] \subseteq kept
    BY DEF TypeOK, LimiterKeeps, Admit, Allowed, Trim
  <1>2. e \in Stamp \ kept /\ e[1] = now
    BY <1>1, StampFree DEF TypeOK
  <1>3. admitted' = [admitted EXCEPT ![k] = @ \cup {e}]
    BY DEF Admit
  <1> HIDE DEF kept, e
  <1>4. Later(admitted', t) = Later(admitted, t) \cup {<<k, e>>}
    <2>1. ASSUME NEW x PROVE x \in Later(admitted', t) <=> x \in Later(admitted, t) \/ x = <<k, e>>
      <3>1. CASE x \in Keys \X Stamp
        <4>1. PICK j \in Keys, f \in Stamp : x = <<j, f>>
          BY <3>1
        <4>2. f \in admitted'[j] <=> f \in admitted[j] \/ (j = k /\ f = e)
          BY <1>3 DEF TypeOK
        <4> QED
          BY <1>2, <4>1, <4>2 DEF Later
      <3>2. CASE x \notin Keys \X Stamp
        BY <1>2, <3>2 DEF Later
      <3> QED
        BY <3>1, <3>2
    <2> QED
      BY <2>1
  <1>5. <<k, e>> \notin Later(admitted, t)
    BY <1>1, <1>2 DEF Later
  <1>6. IsFiniteSet(Later(admitted, t)) /\ Cardinality(Later(admitted, t)) \in Nat
    BY WithinBudget DEF TypeOK, LimiterKeeps
  <1> QED
    BY <1>4, <1>5, <1>6, FS_AddElement

\* What has been admitted, before and after a step, in numbers.
LEMMA LaterType ==
    ASSUME IInv, NEW t
    PROVE  Cardinality(Later(admitted, t)) \in Nat /\ Cardinality(Later(admitted, t)) <= Budget
  BY WithinBudget DEF IInv, TypeOK, LimiterKeeps

LEMMA NumbersType ==
    ASSUME IInv, NEW s \in Ids
    PROVE  /\ guesses[s] \in Nat /\ restarts \in Nat /\ now \in Nat
           /\ pending[s].expires \in Nat /\ OtpTtl \in Nat /\ Window \in Nat \ {0}
  <1>1. pending[s] \in Pending
    BY DEF IInv, TypeOK
  <1>2. pending[s].expires \in Nat
    BY <1>1, RegistrationAssumption DEF Pending
  <1> QED
    BY <1>2, RegistrationAssumption DEF IInv, TypeOK, Time

\* An OTP that is tried while the row lives is within the budget of the windows of that life.
LEMMA GuessFits ==
    ASSUME IInv, IInv', NEW s \in Ids, NEW r \in Requests, NEW k \in Keys, NEW right \in BOOLEAN,
           Rationed(s), Verify(r, k, s, right)
    PROVE  Rationed(s)'
  <1>1. /\ Admit(k) /\ UNCHANGED <<pending, now, restarts>>
        /\ guesses'[s] = IF Compares(pending[s]) THEN guesses[s] + 1 ELSE guesses[s]
    BY DEF Verify, IInv, TypeOK
  <1>2. /\ guesses[s] \in Nat /\ restarts \in Nat /\ now \in Nat
        /\ pending[s].expires \in Nat /\ OtpTtl \in Nat /\ Window \in Nat \ {0}
    BY NumbersType
  <1>3. ASSUME NEW t \in (now - Window)..(now - 1)
        PROVE  /\ Cardinality(Later(admitted, t)) \in Nat
               /\ Cardinality(Later(admitted', t)) = Cardinality(Later(admitted, t)) + 1
               /\ Cardinality(Later(admitted', t)) <= Budget
    <2>1. t \in Int /\ t < now
      BY <1>2
    <2>2. Cardinality(Later(admitted', t)) <= Budget
      BY WithinBudget DEF IInv, TypeOK, LimiterKeeps
    <2> QED
      BY <1>1, <2>1, <2>2, AdmissionCounts DEF IInv
  <1>4. ASSUME pending[s].live, NEW t \in (now - Window)..(now - 1), NEW n \in Nat,
               t < pending[s].expires - OtpTtl + n * Window
        PROVE  guesses'[s] <= Cardinality(Later(admitted', t)) + Budget * (n + restarts)
    <2>1. guesses[s] <= Cardinality(Later(admitted, t)) + Budget * (n + restarts)
      BY <1>4 DEF Rationed
    <2>2. Budget * (n + restarts) \in Nat
      BY <1>2, BudgetGrows
    <2> QED
      BY <1>1, <1>2, <1>3, <2>1, <2>2
  <1>5. guesses'[s] <= GuessBound(restarts)
    <2>1. CASE Compares(pending[s])
      <3> DEFINE n == OtpTtl \div Window
      <3>1. /\ pending[s].live /\ now <= pending[s].expires
            /\ pending[s].expires <= now + OtpTtl
        BY <2>1 DEF Compares, Rationed
      <3>2. /\ n \in Nat /\ OtpTtl - Window < n * Window
            /\ GuessBound(restarts) = Budget * ((n + 1) + restarts)
        BY <1>2, LifeInWindows
      <3> HIDE DEF n
      <3>3. n * Window \in Nat /\ Budget * ((n + 1) + restarts) = Budget * (n + restarts) + Budget
            /\ Budget * (n + restarts) \in Nat
        BY <1>2, <3>2, BudgetGrows
      <3>4. now - Window \in (now - Window)..(now - 1)
        BY <1>2
      <3>5. now - Window < pending[s].expires - OtpTtl + n * Window
        BY <1>2, <3>1, <3>2, <3>3
      <3>6. guesses'[s] <= Cardinality(Later(admitted', now - Window)) + Budget * (n + restarts)
        BY <1>4, <3>1, <3>2, <3>4, <3>5
      <3> QED
        BY <1>1, <1>2, <1>3, <3>2, <3>3, <3>4, <3>6, BudgetType
    <2>2. CASE ~Compares(pending[s])
      BY <1>1, <2>2 DEF Rationed
    <2> QED
      BY <2>1, <2>2
  <1>6. pending[s].live => pending[s].expires <= now + OtpTtl
    BY DEF Rationed
  <1> QED
    BY <1>1, <1>4, <1>5, <1>6 DEF Rationed

\* A request that tries no OTP of s leaves its ration no smaller.
LEMMA OthersFit ==
    ASSUME IInv, NEW s \in Ids, NEW k \in Keys, Rationed(s), Admit(k),
           UNCHANGED <<pending, now, restarts>>, guesses'[s] = guesses[s]
    PROVE  Rationed(s)'
  <1>1. /\ guesses[s] \in Nat /\ restarts \in Nat /\ now \in Nat
        /\ pending[s].expires \in Nat /\ OtpTtl \in Nat /\ Window \in Nat \ {0}
    BY NumbersType
  <1>2. ASSUME pending[s].live, NEW t \in (now - Window)..(now - 1), NEW n \in Nat,
               t < pending[s].expires - OtpTtl + n * Window
        PROVE  guesses'[s] <= Cardinality(Later(admitted', t)) + Budget * (n + restarts)
    <2>1. guesses[s] <= Cardinality(Later(admitted, t)) + Budget * (n + restarts)
      BY <1>2 DEF Rationed
    <2>2. Budget * (n + restarts) \in Nat
      BY <1>1, BudgetGrows
    <2>3. t \in Int /\ t < now
      BY <1>1
    <2>4. /\ Cardinality(Later(admitted, t)) \in Nat
          /\ Cardinality(Later(admitted', t)) = Cardinality(Later(admitted, t)) + 1
      BY <2>3, AdmissionCounts DEF IInv
    <2> QED
      BY <1>1, <2>1, <2>2, <2>4
  <1> QED
    BY <1>2 DEF Rationed

\* A window that has passed is paid for by the next one.
LEMMA TickFits ==
    ASSUME IInv, NEW s \in Ids, Rationed(s), Tick
    PROVE  Rationed(s)'
  <1>1. /\ guesses[s] \in Nat /\ restarts \in Nat /\ now \in Nat
        /\ pending[s].expires \in Nat /\ OtpTtl \in Nat /\ Window \in Nat \ {0}
    BY NumbersType
  <1>2. /\ now' = now + 1 /\ UNCHANGED <<pending, restarts, guesses>>
        /\ admitted' = [k \in Keys |-> {e \in admitted[k] : e[1] > now + 1 - Window}]
    BY DEF Tick
  <1>3. ASSUME NEW t \in (now' - Window)..(now' - 1)
        PROVE  Later(admitted', t) = Later(admitted, t)
    <2>1. ASSUME NEW e \in Stamp, e[1] > t PROVE e[1] > now + 1 - Window
      BY <1>1, <1>2, <2>1 DEF Stamp, Time
    <2>2. ASSUME NEW x
          PROVE  x \in Later(admitted', t) <=> x \in Later(admitted, t)
      BY <1>2, <2>1 DEF Later
    <2> QED
      BY <2>2
  <1>4. ASSUME pending[s].live, NEW t \in (now' - Window)..(now' - 1), NEW n \in Nat,
               t < pending[s].expires - OtpTtl + n * Window
        PROVE  guesses[s] <= Cardinality(Later(admitted', t)) + Budget * (n + restarts)
    <2>1. CASE t \in (now - Window)..(now - 1)
      BY <1>3, <1>4, <2>1 DEF Rationed
    <2>2. CASE t = now
      <3>1. n # 0
        BY <1>1, <1>4, <2>2 DEF Rationed
      <3>2. PICK m \in Nat : n = m + 1
        <4>1. n - 1 \in Nat /\ n = (n - 1) + 1
          BY <3>1
        <4> QED
          BY <4>1
      <3>3. /\ m * Window \in Nat /\ n * Window = m * Window + Window
            /\ Budget * (m + restarts) \in Nat
            /\ Budget * (n + restarts) = Budget * (m + restarts) + Budget
        BY <1>1, <3>2, BudgetGrows
      <3>4. /\ now - Window \in (now - Window)..(now - 1)
            /\ now - Window < pending[s].expires - OtpTtl + m * Window
        BY <1>1, <1>4, <2>2, <3>3
      <3>5. guesses[s] <= Cardinality(Later(admitted, now - Window)) + Budget * (m + restarts)
        BY <1>4, <3>4 DEF Rationed
      <3>6. Cardinality(Later(admitted, now - Window)) \in Nat /\ Cardinality(Later(admitted, now - Window)) <= Budget
        BY LaterType
      <3>7. Cardinality(Later(admitted', t)) \in Nat
        BY <1>3, <1>4, LaterType
      <3> QED
        BY <1>1, <3>3, <3>5, <3>6, <3>7, BudgetType
    <2> QED
      BY <1>1, <1>2, <2>1, <2>2
  <1>5. pending[s].live => pending[s].expires <= now' + OtpTtl
    BY <1>1, <1>2 DEF Rationed
  <1> QED
    BY <1>2, <1>4, <1>5 DEF Rationed

\* The limiter forgets; the ration of the next run of the server pays for it.
LEMMA RestartFits ==
    ASSUME IInv, IInv', NEW s \in Ids, Rationed(s), Restart
    PROVE  Rationed(s)'
  <1>1. /\ guesses[s] \in Nat /\ restarts \in Nat /\ now \in Nat
        /\ pending[s].expires \in Nat /\ OtpTtl \in Nat /\ Window \in Nat \ {0}
    BY NumbersType
  <1>2. restarts' = restarts + 1 /\ UNCHANGED <<pending, now, guesses>>
    BY DEF Restart
  <1>3. ASSUME pending[s].live, NEW t \in (now - Window)..(now - 1), NEW n \in Nat,
               t < pending[s].expires - OtpTtl + n * Window
        PROVE  guesses[s] <= Cardinality(Later(admitted', t)) + Budget * (n + restarts')
    <2>1. guesses[s] <= Cardinality(Later(admitted, t)) + Budget * (n + restarts)
      BY <1>3 DEF Rationed
    <2>2. Cardinality(Later(admitted, t)) \in Nat /\ Cardinality(Later(admitted, t)) <= Budget
      BY LaterType
    <2>3. /\ Budget * (n + restarts) \in Nat
          /\ Budget * (n + restarts') = Budget * (n + restarts) + Budget
      BY <1>1, <1>2, BudgetGrows
    <2>4. Cardinality(Later(admitted', t)) \in Nat
      BY WithinBudget DEF IInv, TypeOK, LimiterKeeps
    <2> QED
      BY <1>1, <2>1, <2>2, <2>3, <2>4, BudgetType
  <1>4. guesses[s] <= GuessBound(restarts')
    <2> DEFINE n == OtpTtl \div Window + 1
    <2>1. n \in Nat /\ GuessBound(restarts) = Budget * (n + restarts)
      BY <1>1, LifeInWindows
    <2>2. GuessBound(restarts') = Budget * (n + restarts')
      BY <1>1, <1>2, LifeInWindows
    <2> HIDE DEF n
    <2>3. /\ Budget * (n + restarts) \in Nat
          /\ Budget * (n + restarts') = Budget * (n + restarts) + Budget
      BY <1>1, <1>2, <2>1, BudgetGrows
    <2> QED
      BY <1>1, <2>1, <2>2, <2>3, BudgetType DEF Rationed
  <1> QED
    BY <1>2, <1>3, <1>4 DEF Rationed

\* A new OTP starts its ration anew; every other end of a request leaves the row or deletes it.
LEMMA FinishFits ==
    ASSUME IInv, IInv', NEW s \in Ids, NEW r \in Requests, Rationed(s), req[r].at <= now, Finish(r)
    PROVE  Rationed(s)'
  <1> DEFINE q == req[r]
  <1>1. /\ q.sbi \in Ids /\ q.at \in Nat /\ pending \in [Ids -> Pending] /\ guesses \in [Ids -> Nat]
        /\ restarts \in Nat /\ now \in Nat /\ OtpTtl \in Nat
    BY RegistrationAssumption DEF IInv, TypeOK, Named, Finish, Request, Time
  <1>2. UNCHANGED <<now, admitted, restarts>>
    BY DEF Finish
  <1>3. CASE s = q.sbi /\ q.todo = "issue" /\ ~Raises(q)
    <2>1. pending'[s].expires = q.at + OtpTtl /\ guesses'[s] = 0
      BY <1>1, <1>3 DEF Finish, EndSession, RowWritten
    <2>2. ASSUME NEW n \in Nat, NEW t
          PROVE  0 <= Cardinality(Later(admitted, t)) + Budget * (n + restarts)
      <3>1. Cardinality(Later(admitted, t)) \in Nat /\ Budget * (n + restarts) \in Nat
        BY <1>1, LaterType, BudgetGrows
      <3> QED
        BY <3>1
    <2>3. 0 <= GuessBound(restarts)
      <3>1. OtpTtl \div Window + 1 \in Nat /\ GuessBound(restarts) = Budget * ((OtpTtl \div Window + 1) + restarts)
        BY <1>1, LifeInWindows
      <3> QED
        BY <1>1, <3>1, BudgetGrows
    <2>4. q.at + OtpTtl <= now + OtpTtl
      BY <1>1
    <2> QED
      BY <1>2, <2>1, <2>2, <2>3, <2>4 DEF Rationed
  <1>4. CASE ~(s = q.sbi /\ q.todo = "issue" /\ ~Raises(q))
    <2>1. guesses'[s] = guesses[s]
      BY <1>1, <1>4 DEF Finish
    <2>2. pending'[s].live => pending'[s] = pending[s]
      BY <1>1, <1>4 DEF Finish, EndSession, RowWritten, Raises, NoPending
    <2> QED
      BY <1>2, <2>1, <2>2 DEF Rationed
  <1> QED
    BY <1>3, <1>4

LEMMA RequestsArePast ==
    ASSUME IInv, IInv', Next, \A r \in Requests : req[r].at <= now
    PROVE  \A r \in Requests : (req[r].at <= now)'
  <1>1. /\ req \in [Requests -> Request] /\ now \in Nat /\ Idle.at = 0
        /\ \A r \in Requests : req[r].at \in Nat
    BY DEF IInv, TypeOK, Request, Time, Idle
  <1>2. ASSUME NEW r \in Requests, NEW todo, NEW b, NEW s, NEW u, NEW row,
               Suspend(r, todo, b, s, u, row), now' = now
        PROVE  \A p \in Requests : (req[p].at <= now)'
    <2> SUFFICES ASSUME NEW p \in Requests PROVE req'[p].at <= now
      BY <1>2
    <2>1. req'[p].at \in {req[p].at, 0, now}
      BY <1>1, <1>2 DEF Suspend
    <2> QED
      BY <1>1, <2>1
  <1>3. ASSUME NEW r \in Requests, Finish(r)
        PROVE  \A p \in Requests : (req[p].at <= now)'
    <2> SUFFICES ASSUME NEW p \in Requests PROVE req'[p].at <= now
      BY <1>3 DEF Finish
    <2>1. req'[p].at \in {req[p].at, 0}
      BY <1>1, <1>3 DEF Finish, Forget
    <2> QED
      BY <1>1, <2>1
  <1>4. ASSUME Restart \/ Tick
        PROVE  \A p \in Requests : (req[p].at <= now)'
    BY <1>1, <1>4 DEF Restart, Tick
  <1> QED
    BY <1>2, <1>3, <1>4 DEF Next, RefuseBusy, Login, Verify, Complete, Deregister, SuspendBoard

THEOREM RationInvariance == Spec => []GInv
  <1>1. Init => GInv
    <2> SUFFICES ASSUME Init PROVE GInv
      OBVIOUS
    <2>1. \A r \in Requests : req[r].at <= now
      BY DEF Init, Idle
    <2>2. 0 <= GuessBound(0)
      <3>1. OtpTtl \div Window + 1 \in Nat /\ GuessBound(0) = Budget * ((OtpTtl \div Window + 1) + 0)
        BY LifeInWindows
      <3> QED
        BY <3>1, BudgetGrows
    <2> QED
      BY <2>1, <2>2 DEF Init, GInv, Rationed, NoPending
  <1>2. IInv /\ IInv' /\ GInv /\ [Next]_vars => GInv'
    <2> SUFFICES ASSUME IInv, IInv', GInv, [Next]_vars PROVE GInv'
      OBVIOUS
    <2>0. CASE UNCHANGED vars
      BY <2>0 DEF vars, GInv, Rationed
    <2>1. CASE Next
      <3>1. \A r \in Requests : (req[r].at <= now)'
        BY <2>1, RequestsArePast DEF GInv
      <3>2. ASSUME NEW s \in Ids
            PROVE  Rationed(s)'
        <4>0. Rationed(s) /\ \A r \in Requests : req[r].at <= now
          BY DEF GInv
        <4>1. ASSUME NEW r \in Requests, NEW k \in Keys, NEW b \in Boards, NEW u \in Ids, Login(r, k, b, u)
              PROVE  Rationed(s)'
          BY <4>0, <4>1, OthersFit DEF Login
        <4>2. ASSUME NEW r \in Requests, NEW k \in Keys, NEW u \in Ids, NEW right \in BOOLEAN,
                     Verify(r, k, u, right)
              PROVE  Rationed(s)'
          <5>1. CASE u = s
            BY <4>0, <4>2, <5>1, GuessFits
          <5>2. CASE u # s
            <6>1. /\ Admit(k) /\ UNCHANGED <<pending, now, restarts>>
                  /\ guesses' = [guesses EXCEPT ![u] = IF Compares(pending[u]) THEN @ + 1 ELSE @]
              BY <4>2 DEF Verify
            <6>2. guesses'[s] = guesses[s]
              BY <5>2, <6>1 DEF IInv, TypeOK
            <6> QED
              BY <4>0, <6>1, <6>2, OthersFit
          <5> QED
            BY <5>1, <5>2
        <4>3. ASSUME NEW r \in Requests, NEW k \in Keys, NEW u \in Ids, NEW t \in tokens,
                     Complete(r, k, t, u)
              PROVE  Rationed(s)'
          BY <4>0, <4>3, OthersFit DEF Complete
        <4>4. ASSUME NEW r \in Requests, Finish(r)
              PROVE  Rationed(s)'
          BY <4>0, <4>4, FinishFits
        <4>5. CASE Tick
          BY <4>0, <4>5, TickFits
        <4>6. CASE Restart
          BY <4>0, <4>6, RestartFits
        <4>7. CASE UNCHANGED <<pending, now, restarts, admitted, guesses>>
          BY <4>0, <4>7 DEF Rationed
        <4> QED
          BY <2>1, <4>1, <4>2, <4>3, <4>4, <4>5, <4>6, <4>7
             DEF Next, RefuseBusy, Deregister, SuspendBoard
      <3> QED
        BY <3>1, <3>2 DEF GInv
    <2> QED
      BY <2>0, <2>1
  <1> QED
    BY <1>1, <1>2, Invariance, PTL DEF Spec

(* Whatever logins, restarts and windows come in between, no more OTPs are   *)
(* compared with one that was issued than the limiter lets in while it       *)
(* lives.                                                                    *)
THEOREM GuessesStayBounded == Spec => []GuessesBounded
  <1>1. GInv => GuessesBounded
    BY DEF GInv, Rationed, GuessesBounded
  <1> QED
    BY <1>1, RationInvariance, PTL

----------------------------------------------------------------------------
(* The abstract registration.                                              *)

\* What an enrolment shows of a state.
EnrolmentState == <<users, verifiedAt, Asked, now>>

\* A request that remembers anything but an activation asks for nothing.
LEMMA AskedSame ==
    ASSUME req \in [Requests -> Request], NEW r \in Requests, NEW todo, NEW b, NEW s, NEW u, NEW row,
           Suspend(r, todo, b, s, u, row), todo # "activate"
    PROVE  Asked' = Asked
  <1>1. /\ \A p \in Requests : p # r => req'[p] = req[p]
        /\ req[r].todo = "none" /\ req'[r].todo \in {"none", todo}
    BY DEF Suspend, Idle
  <1>2. \A p \in Requests, c \in Boards :
          req'[p].todo = "activate" /\ req'[p].board = c <=> req[p].todo = "activate" /\ req[p].board = c
    BY <1>1
  <1> QED
    BY <1>2 DEF Asked

LEMMA CompleteIsAsk ==
    ASSUME IInv, NEW r \in Requests, NEW k \in Keys, NEW s \in Ids, NEW t \in tokens,
           Complete(r, k, t, s)
    PROVE  (\E b \in Boards : E!Ask(b)) \/ UNCHANGED EnrolmentState
  <1>0. req \in [Requests -> Request]
    BY DEF IInv, TypeOK
  <1>1. UNCHANGED <<users, verifiedAt, now>>
    BY DEF Complete
  <1>2. ASSUME NEW b \in Boards, Completes(t, s, b), Suspend(r, "activate", b, s, FALSE, pending[s])
        PROVE  E!Ask(b)
    <2>1. /\ users[b].status = "pending" /\ users[b].sbi = s /\ t.sbi = s /\ t.exp > now
      BY <1>2 DEF Completes, TokenValid
    <2>2. verifiedAt[s] # -1 /\ now < verifiedAt[s] + TokenTtl
      <3>1. verifiedAt[s] # Never /\ t.exp <= verifiedAt[s] + TokenTtl
        BY <2>1 DEF IInv, Earned
      <3>2. t.exp \in Int /\ now \in Int /\ verifiedAt[s] \in Int /\ TokenTtl \in Int
        BY RegistrationAssumption DEF IInv, TypeOK, Token, Time, Never
      <3> QED
        BY <2>1, <3>1, <3>2 DEF Never
    <2>3. /\ \A p \in Requests : p # r => req'[p] = req[p]
          /\ req[r].todo = "none" /\ req'[r].todo = "activate" /\ req'[r].board = b
      BY <1>0, <1>2 DEF Suspend
    <2>4. ASSUME NEW c \in Boards
          PROVE  (\E p \in Requests : req'[p].todo = "activate" /\ req'[p].board = c)
                   <=> (\E p \in Requests : req[p].todo = "activate" /\ req[p].board = c) \/ c = b
      BY <2>3
    <2>5. Asked' = Asked \cup {b}
      BY <2>4 DEF Asked
    <2> QED
      BY <1>1, <2>1, <2>2, <2>5 DEF E!Ask, E!Fresh
  <1>3. CASE Suspend(r, "none", Nil, s, FALSE, pending[s])
    BY <1>0, <1>1, <1>3, AskedSame DEF EnrolmentState
  <1> QED
    BY <1>2, <1>3 DEF Complete

\* Each end of a request is one step of the enrolment, or none.
LEMMA FinishIsStep ==
    ASSUME IInv, NEW r \in Requests, req[r].at <= now, Finish(r)
    PROVE  \/ \E b \in Boards, s \in Ids : E!Claim(b, s)
           \/ \E s \in Ids, at \in 0..now : E!Prove(s, at)
           \/ \E b \in Boards : E!Activate(b) \/ E!Overrun(b)
           \/ UNCHANGED EnrolmentState
  <1> DEFINE q == req[r]
  <1>1. /\ q \in Request /\ q.todo # "none" /\ q.sbi \in Ids
        /\ q.todo \in {"issue", "activate"} => q.board \in Boards
        /\ users \in [Boards -> User] /\ req \in [Requests -> Request]
        /\ q.at \in 0..now
    BY RegistrationAssumption DEF IInv, TypeOK, Named, Finish, Request, Time
  <1>2. /\ users' = IF Raises(q) THEN users ELSE UsersWritten(q)
        /\ verifiedAt' = IF q.todo = "accept"
                         THEN [verifiedAt EXCEPT ![q.sbi] = IF q.at > @ THEN q.at ELSE @]
                         ELSE verifiedAt
        /\ req' = [p \in Requests |-> IF p = r THEN Idle ELSE Forget(q, req[p])]
        /\ now' = now
    BY DEF Finish, EndSession
  <1>3. /\ req'[r].todo = "none"
        /\ \A p \in Requests : p # r => req'[p].todo = req[p].todo /\ req'[p].board = req[p].board
    BY <1>1, <1>2 DEF Forget, Idle, Request
  <1>4. q.todo # "activate" => Asked' = Asked
    BY <1>3 DEF Asked
  <1>5. CASE q.todo = "activate"
    <2>1. users' = [users EXCEPT ![q.board].status = "active"] /\ verifiedAt' = verifiedAt
      BY <1>2, <1>5 DEF Raises, Conflict, UsersWritten
    <2>2. q.board \in Asked
      BY <1>1, <1>5 DEF Asked
    <2>3. Asked' \in {Asked, Asked \ {q.board}}
      <3>1. ASSUME NEW c \in Boards, c # q.board
            PROVE  c \in Asked' <=> c \in Asked
        BY <1>3, <3>1 DEF Asked
      <3>2. Asked' \subseteq Boards /\ Asked \subseteq Boards
        BY DEF Asked
      <3> QED
        BY <1>1, <2>2, <3>1, <3>2
    <2>4. E!Granted(q.board)
      BY <1>2, <2>1, <2>2, <2>3 DEF E!Granted
    <2>5. users[q.board].status \in {"pending", "active", "suspended"}
      <3>1. users[q.board].sbi = q.sbi /\ q.sbi # Nil
        BY <1>1, <1>5, RegistrationAssumption DEF IInv, Earned
      <3>2. users[q.board] \in User /\ users[q.board].status # "none"
        BY <1>1, <1>5, <3>1 DEF IInv, Named
      <3> QED
        BY <3>2 DEF User
    <2>6. E!Activate(q.board) \/ E!Overrun(q.board)
      BY <2>4, <2>5 DEF E!Activate, E!Overrun
    <2>7. q.board \in Boards
      BY <1>1, <1>5
    <2> HIDE DEF q
    <2> QED
      BY <2>6, <2>7
  <1>6. CASE q.todo = "accept"
    <2>1. users' = users
      BY <1>2, <1>6 DEF Raises, Conflict, UsersWritten
    <2>2. E!Prove(q.sbi, q.at)
      BY <1>2, <1>4, <1>6, <2>1 DEF E!Prove
    <2> QED
      BY <1>1, <2>2
  <1>7. CASE q.todo = "issue" /\ q.newUser /\ ~Raises(q)
    <2>1. /\ users[q.board].status = "none" /\ \A c \in Boards : users[c].sbi # q.sbi
          /\ users' = [users EXCEPT ![q.board] = [status |-> "pending", sbi |-> q.sbi]]
      BY <1>2, <1>7 DEF Raises, Conflict, UsersWritten
    <2>2. E!Claim(q.board, q.sbi)
      BY <1>2, <1>4, <1>7, <2>1 DEF E!Claim
    <2> QED
      BY <1>1, <1>7, <2>2
  <1>8. CASE q.todo \notin {"activate", "accept"} /\ ~(q.todo = "issue" /\ q.newUser /\ ~Raises(q))
    <2>1. users' = users /\ verifiedAt' = verifiedAt
      BY <1>2, <1>8 DEF UsersWritten
    <2> QED
      BY <1>2, <1>4, <1>8, <2>1 DEF EnrolmentState
  <1> QED
    BY <1>5, <1>6, <1>7, <1>8

LEMMA StepIsEnrolment ==
    ASSUME IInv, \A r \in Requests : req[r].at <= now, [Next]_vars
    PROVE  [E!ENext]_EnrolmentState
  <1>0. req \in [Requests -> Request] /\ users \in [Boards -> User]
    BY DEF IInv, TypeOK
  <1>1. ASSUME NEW r \in Requests, NEW k \in Keys, NEW b \in Boards, NEW s \in Ids, Login(r, k, b, s)
        PROVE  UNCHANGED EnrolmentState
    <2>1. LoginTodo(users[b], pending[s]) # "activate"
      BY DEF LoginTodo
    <2> QED
      BY <1>0, <1>1, <2>1, AskedSame DEF Login, EnrolmentState
  <1>2. ASSUME NEW r \in Requests, NEW k \in Keys, NEW s \in Ids, NEW right \in BOOLEAN, Verify(r, k, s, right)
        PROVE  UNCHANGED EnrolmentState
    <2>1. VerifyTodo(pending[s], right) # "activate"
      BY DEF VerifyTodo
    <2> QED
      BY <1>0, <1>2, <2>1, AskedSame DEF Verify, EnrolmentState
  <1>3. ASSUME NEW r \in Requests, NEW k \in Keys, NEW s \in Ids, NEW t \in tokens, Complete(r, k, t, s)
        PROVE  [E!ENext]_EnrolmentState
    BY <1>3, CompleteIsAsk DEF E!ENext
  <1>4. ASSUME NEW r \in Requests, Finish(r)
        PROVE  [E!ENext]_EnrolmentState
    BY <1>4, FinishIsStep DEF E!ENext
  <1>5. ASSUME NEW s \in Ids, Deregister(s)
        PROVE  E!Revoke(s)
    BY <1>5 DEF Deregister, E!Revoke, Asked
  <1>6. ASSUME NEW b \in Boards, SuspendBoard(b)
        PROVE  E!Suspended(b)
    BY <1>6 DEF SuspendBoard, E!Suspended, Asked
  <1>7. CASE Restart
    <2>1. Asked' = {}
      BY <1>7 DEF Restart, Asked, Idle
    <2> QED
      BY <1>7, <2>1 DEF Restart, E!ENext, E!Abandon
  <1>8. CASE Tick
    BY <1>8 DEF Tick, E!ENext, E!Pass, Asked
  <1>9. CASE UNCHANGED <<users, verifiedAt, req, now>>
    BY <1>9 DEF EnrolmentState, Asked
  <1>10. (\E s \in Ids : E!Revoke(s)) \/ (\E b \in Boards : E!Suspended(b)) => E!ENext
    BY DEF E!ENext
  <1> QED
    BY <1>1, <1>2, <1>3, <1>4, <1>5, <1>6, <1>7, <1>8, <1>9, <1>10 DEF Next, vars, RefuseBusy

(* Handlers that check before they suspend and write after, OTP rows, tokens *)
(* and database sessions implement the abstract registration: identities are *)
(* claimed once, and a board is activated only by what it asked for within   *)
(* the life of a token of its own identity.                                  *)
THEOREM ImplementsEnrolment == Spec => IsEnrolment
  <1>1. Init => E!EInit
    BY DEF Init, E!EInit, NoUser, Idle, Asked, Never
  <1>2. IInv /\ GInv /\ [Next]_vars => [E!ENext]_EnrolmentState
    BY StepIsEnrolment DEF GInv
  <1> QED
    BY <1>1, <1>2, Invariance, RationInvariance, PTL DEF Spec, IsEnrolment, E!ESpec, EnrolmentState
=============================================================================
