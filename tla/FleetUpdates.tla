---------------------------- MODULE FleetUpdates ----------------------------
(***************************************************************************)
(* The update endpoints of one board on top of its command channel: the    *)
(* pushes and rollbacks of the administrators, the reports and heartbeats  *)
(* of the board, and the release manifests.  A transaction reads its row,  *)
(* awaits, and writes at its commit the columns it changed since it read   *)
(* them.  An update command is sent in the middle of its transaction.      *)
(***************************************************************************)
EXTENDS BoardCommands

CONSTANTS
    Pushes,     \* commands of admin_push_update
    Rollbacks,  \* commands of admin_rollback_board
    Reports,    \* reports of the board
    Uploads,    \* release manifests of ci_upload
    FleetWide,  \* release manifests of admin_rollback_all
    Versions

Updates == Pushes \cup Rollbacks
Manifests == Uploads \cup FleetWide
Txns == Updates \cup Reports \cup Manifests

ASSUME FleetAssumption ==
    /\ Updates \subseteq Commands
    /\ Pushes \cap Rollbacks = {} /\ Uploads \cap FleetWide = {}
    /\ Reports \cap (Updates \cup Manifests) = {} /\ Updates \cap Manifests = {}
    /\ Nil \notin Versions

VARIABLES
    row,        \* board_versions of the board
    txn,        \* transactions of the endpoints
    active,     \* release manifests with is_active
    older,      \* of each release manifest with a created_at, those not created after it
    committed   \* release manifests in the table

fleetVars == <<row, txn, active, older, committed>>

\* What a board may report, in the words of the schema of its report.
Outcomes == {"completed", "failed", "rolled_back"}

Row == [target : Versions \cup {Nil},
        status : {"none", "idle", "downloading", "rolling_back"} \cup Outcomes]
NoRow == [target |-> Nil, status |-> "none"]

\* snap is the row as it was read, goal the row the endpoint wants.
Txn == [pc : {"new", "read", "flushed", "done"}, snap : Row, goal : Row, seen : SUBSET Manifests]
NewTxn == [pc |-> "new", snap |-> NoRow, goal |-> NoRow, seen |-> {}]
Ended == [NewTxn EXCEPT !.pc = "done"]

FTypeOK ==
    /\ TypeOK
    /\ row \in Row
    /\ txn \in [Txns -> Txn]
    /\ active \subseteq Manifests
    /\ older \in [Manifests -> SUBSET Manifests]
    /\ committed \subseteq Manifests

FInit ==
    /\ Init
    /\ row = NoRow
    /\ txn = [t \in Txns |-> NewTxn]
    /\ active = {} /\ committed = {}
    /\ older = [u \in Manifests |-> {}]

----------------------------------------------------------------------------
(* The row of the board.                                                   *)

\* An UPDATE sets the columns whose value differs from the one that was read.
Merge(snap, goal) ==
    [target |-> IF goal.target = snap.target THEN row.target ELSE goal.target,
     status |-> IF goal.status = snap.status THEN row.status ELSE goal.status]

\* Without a row an INSERT, which the unique board_id refuses when one was inserted meanwhile.
Write(t) ==
    LET snap == txn[t].snap  goal == txn[t].goal
    IN row' = IF snap = NoRow /\ row # NoRow THEN row ELSE Merge(snap, goal)

Begin(t, goal) == txn' = [txn EXCEPT ![t] = [@ EXCEPT !.pc = "read", !.snap = row, !.goal = goal]]

\* Mutant: the status has the word that the event of the rollback gets.
PushGoal_Triggered(c, v) ==
    IF c \in Pushes THEN [target |-> v, status |-> "downloading"]
    ELSE IF row = NoRow THEN NoRow
    ELSE [target |-> v, status |-> "triggered"]

\* A push inserts the row it does not find; a rollback changes the one it finds.
PushGoal(c, v) ==
    IF c \in Pushes THEN [target |-> v, status |-> "downloading"]
    ELSE IF row = NoRow THEN NoRow
    ELSE [target |-> v, status |-> "rolling_back"]

PushRead(c, v) ==
    /\ txn[c].pc = "new"
    /\ Begin(c, PushGoal(c, v))
    /\ UNCHANGED <<row, active, older, committed>>

\* The request ends, and with it its transaction, after the command was sent or queued.
PushCommit(c) ==
    /\ txn[c].pc = "read"
    /\ cmd[c].pc = "done"
    /\ Write(c)
    /\ txn' = [txn EXCEPT ![c] = Ended]
    /\ UNCHANGED <<active, older, committed>>

\* Only a completed update loses its target.
ReportGoal(status) ==
    [target |-> IF status = "completed" THEN Nil ELSE row.target, status |-> status]

ReportRead(r, status) ==
    /\ txn[r].pc = "new"
    /\ Begin(r, ReportGoal(status))
    /\ UNCHANGED <<row, active, older, committed>>

ReportCommit(r) ==
    /\ txn[r].pc = "read"
    /\ Write(r)
    /\ txn' = [txn EXCEPT ![r] = Ended]
    /\ UNCHANGED <<active, older, committed>>

\* A heartbeat writes its own columns, and inserts the row when there is none.
Heartbeat ==
    /\ row = NoRow
    /\ row' = [target |-> Nil, status |-> "idle"]
    /\ UNCHANGED <<txn, active, older, committed>>

----------------------------------------------------------------------------
(* The release manifests.                                                  *)

UploadRead(u) ==
    /\ txn[u].pc = "new"
    /\ txn' = [txn EXCEPT ![u].pc = "read", ![u].seen = active]
    /\ UNCHANGED <<row, active, older, committed>>

\* created_at is computed when the manifest is flushed.
Stamp(u) == older' = [older EXCEPT ![u] = {u} \cup {x \in Manifests : older[x] # {}}]

\* Mutant: the new manifest is added before the active ones are queried.
Deactivated_Added(u) == txn[u].seen \cup {u}

\* The manifests that lose is_active.
Deactivated(u) == txn[u].seen

Publish(u) ==
    /\ active' = (active \cup {u}) \ Deactivated(u)
    /\ committed' = committed \cup {u}
    /\ txn' = [txn EXCEPT ![u] = Ended]

UploadCommit(u) ==
    /\ txn[u].pc = "read"
    /\ Stamp(u)
    /\ Publish(u)
    /\ UNCHANGED row

\* The query of the boards flushes the manifest.
FleetRead(u, v) ==
    /\ txn[u].pc = "read"
    /\ Stamp(u)
    /\ txn' = [txn EXCEPT ![u].pc = "flushed", ![u].snap = row,
                          ![u].goal = IF row = NoRow THEN NoRow
                                      ELSE [target |-> v, status |-> "rolling_back"]]
    /\ UNCHANGED <<row, active, committed>>

FleetCommit(u) ==
    /\ txn[u].pc = "flushed"
    /\ Write(u)
    /\ Publish(u)
    /\ UNCHANGED older

----------------------------------------------------------------------------

\* The transactions in progress are rolled back; a manifest that was flushed is not committed.
FRestart ==
    /\ Restart
    /\ txn' = [t \in Txns |-> IF txn[t].pc = "new" THEN txn[t] ELSE Ended]
    /\ UNCHANGED <<row, active, older, committed>>

FSend(c) ==
    /\ c \in Updates => txn[c].pc = "read"
    /\ Send(c)
    /\ UNCHANGED fleetVars

Channel ==
    \/ \E w \in Sockets : \/ Ticket(w) \/ Refuse(w) \/ Connect(w) \/ Serve(w)
                          \/ Disconnect(w) \/ Die(w)
    \/ \E c \in Commands : Sent(c) \/ SendFails(c)

Table ==
    \/ \E c \in Updates : PushCommit(c) \/ \E v \in Versions : PushRead(c, v)
    \/ \E r \in Reports : \/ ReportCommit(r)
                          \/ \E s \in Outcomes : ReportRead(r, s)
    \/ Heartbeat
    \/ \E u \in Manifests : UploadRead(u)
    \/ \E u \in Uploads : UploadCommit(u)
    \/ \E u \in FleetWide : FleetCommit(u) \/ \E v \in Versions : FleetRead(u, v)

FNext ==
    \/ Channel /\ UNCHANGED fleetVars
    \/ \E c \in Commands : FSend(c)
    \/ Table /\ UNCHANGED vars
    \/ FRestart

FSpec == FInit /\ [][FNext]_<<vars, fleetVars>>

----------------------------------------------------------------------------

(* What the boards are offered, the newest active manifest, is the newest    *)
(* that was committed: overlapping uploads and fleet rollbacks, which each    *)
(* deactivate what they saw, never take the newest one out of service or      *)
(* leave a board an older one.                                               *)
NewestIsActive ==
    \A u \in committed : \E x \in active : u \in older[x]

(* The two columns of the row agree: a completed update has no target and    *)
(* one that is under way has one.  The code does not keep this: a report     *)
(* that read the row before a push writes its status, and no target, beside  *)
(* the target of the push (FleetUpdates_Torn.cfg).                           *)
ColumnsAgree ==
    /\ row.status = "completed" => row.target = Nil
    /\ row.status \in {"downloading", "rolling_back"} => row.target # Nil
=============================================================================
