--------------------------- MODULE BoardCommands ---------------------------
(***************************************************************************)
(* The command channel from the administrators to one board: the ticket,   *)
(* the WebSocket endpoint of the board, BoardConnectionManager and the     *)
(* endpoints that send through it.  Boards do not share any of this state. *)
(*                                                                         *)
(* Every await is the end of a step.  A socket is used for one connection; *)
(* its client may die at any time, and the server finds out when a send    *)
(* raises or its receive ends.  What is sent to a dead client either       *)
(* raises or is lost in silence.  The order of the commands in the queue   *)
(* is left out.                                                            *)
(***************************************************************************)
EXTENDS Integers, FiniteSets

CONSTANTS
    Sockets,        \* connections of the board, one after the other or overlapping
    Commands,       \* commands the administrators send
    Nil,
    MaxRestarts     \* bound: restarts of the server

ASSUME CommandsAssumption ==
    /\ Nil \notin Sockets
    /\ MaxRestarts \in Nat

VARIABLES
    conn,       \* _connections.get(board_id)
    pending,    \* _pending[board_id]
    sock,       \* WebSocket handlers of the board and their clients
    cmd,        \* requests of the administrators
    delivered,  \* how often a client of the board received each command
    restarts    \* restarts of the server so far

vars == <<conn, pending, sock, cmd, delivered, restarts>>

Socket == [pc : {"none", "ticketed", "flushing", "open", "ended"}, alive : BOOLEAN,
           flush : SUBSET Commands]
Unused == [pc |-> "none", alive |-> TRUE, flush |-> {}]

Command == [pc : {"new", "sending", "done"}, via : Sockets \cup {Nil},
            reply : {"none", "sent", "queued"}]
NewCommand == [pc |-> "new", via |-> Nil, reply |-> "none"]

TypeOK ==
    /\ conn \in Sockets \cup {Nil}
    /\ pending \subseteq Commands
    /\ sock \in [Sockets -> Socket]
    /\ cmd \in [Commands -> Command]
    /\ delivered \in [Commands -> Nat]
    /\ restarts \in 0..MaxRestarts

Init ==
    /\ conn = Nil
    /\ pending = {}
    /\ sock = [w \in Sockets |-> Unused]
    /\ cmd = [c \in Commands |-> NewCommand]
    /\ delivered = [c \in Commands |-> 0]
    /\ restarts = 0

----------------------------------------------------------------------------
(* The board's connections.                                                *)

Ticket(w) ==
    /\ sock[w].pc = "none"
    /\ sock' = [sock EXCEPT ![w].pc = "ticketed"]
    /\ UNCHANGED <<conn, pending, cmd, delivered, restarts>>

\* The ticket has expired, or the handshake fails.
Refuse(w) ==
    /\ sock[w].pc = "ticketed"
    /\ sock' = [sock EXCEPT ![w].pc = "ended", ![w].alive = FALSE]
    /\ UNCHANGED <<conn, pending, cmd, delivered, restarts>>

\* Mutant: the queue is read and kept.
Connect_Keep(w) ==
    /\ sock[w].pc = "ticketed"
    /\ sock' = [sock EXCEPT ![w].pc = "flushing", ![w].flush = pending]
    /\ conn' = w
    /\ UNCHANGED <<pending, cmd, delivered, restarts>>

\* connect, after its accept: the queue is emptied before its commands are sent.
Connect(w) ==
    /\ sock[w].pc = "ticketed"
    /\ sock' = [sock EXCEPT ![w].pc = "flushing", ![w].flush = pending]
    /\ conn' = w
    /\ pending' = {}
    /\ UNCHANGED <<cmd, delivered, restarts>>

\* What is sent to a dead client is lost, unless the send raises.
Transmit(w, c) ==
    delivered' = IF sock[w].alive THEN [delivered EXCEPT ![c] = @ + 1] ELSE delivered

\* One queued command; connect passes over an exception of send_json.
Flush(w, c) ==
    /\ sock[w].pc = "flushing"
    /\ c \in sock[w].flush
    /\ sock' = [sock EXCEPT ![w].flush = @ \ {c}]
    /\ Transmit(w, c)
    /\ UNCHANGED <<conn, pending, cmd, restarts>>

Flushed(w) ==
    /\ sock[w].pc = "flushing"
    /\ sock[w].flush = {}
    /\ sock' = [sock EXCEPT ![w].pc = "open"]
    /\ UNCHANGED <<conn, pending, cmd, delivered, restarts>>

\* Mutant: the connection of a board that went away is kept.
ConnAfter_Kept(w) == conn

\* disconnect removes the connection of the board, whichever it is.
ConnAfter(w) == Nil

Disconnect(w) ==
    /\ sock[w].pc = "open"
    /\ sock' = [sock EXCEPT ![w].pc = "ended", ![w].alive = FALSE]
    /\ conn' = ConnAfter(w)
    /\ UNCHANGED <<pending, cmd, delivered, restarts>>

\* The board loses power or its network.
Die(w) ==
    /\ sock[w].pc \in {"flushing", "open"}
    /\ sock[w].alive
    /\ sock' = [sock EXCEPT ![w].alive = FALSE]
    /\ UNCHANGED <<conn, pending, cmd, delivered, restarts>>

----------------------------------------------------------------------------
(* send_command and queue_command, as the endpoints call them.             *)

QueueIt(c) ==
    /\ pending' = pending \cup {c}
    /\ cmd' = [cmd EXCEPT ![c] = [pc |-> "done", via |-> Nil, reply |-> "queued"]]

Send(c) ==
    /\ cmd[c].pc = "new"
    /\ IF conn = Nil THEN QueueIt(c)
       ELSE /\ cmd' = [cmd EXCEPT ![c] = [pc |-> "sending", via |-> conn, reply |-> "none"]]
            /\ UNCHANGED pending
    /\ UNCHANGED <<conn, sock, delivered, restarts>>

\* send_json returns.
Sent(c) ==
    /\ cmd[c].pc = "sending"
    /\ cmd' = [cmd EXCEPT ![c] = [pc |-> "done", via |-> Nil, reply |-> "sent"]]
    /\ Transmit(cmd[c].via, c)
    /\ UNCHANGED <<conn, pending, sock, restarts>>

\* send_json raises.
SendFails(c) ==
    /\ cmd[c].pc = "sending"
    /\ ~sock[cmd[c].via].alive
    /\ conn' = Nil
    /\ QueueIt(c)
    /\ UNCHANGED <<sock, delivered, restarts>>

\* The server process is replaced: tickets, connections and queues are in its memory.
Restart ==
    /\ restarts < MaxRestarts
    /\ restarts' = restarts + 1
    /\ conn' = Nil
    /\ pending' = {}
    /\ sock' = [w \in Sockets |->
                  IF sock[w].pc = "none" THEN sock[w]
                  ELSE [pc |-> "ended", alive |-> FALSE, flush |-> {}]]
    /\ cmd' = [c \in Commands |->
                 IF cmd[c].pc = "sending" THEN [cmd[c] EXCEPT !.pc = "done", !.via = Nil]
                 ELSE cmd[c]]
    /\ UNCHANGED delivered

Serve(w) == (\E c \in Commands : Flush(w, c)) \/ Flushed(w)

Next ==
    \/ \E w \in Sockets : \/ Ticket(w) \/ Refuse(w) \/ Connect(w) \/ Serve(w)
                          \/ Disconnect(w) \/ Die(w)
    \/ \E c \in Commands : Send(c) \/ Sent(c) \/ SendFails(c)
    \/ Restart

Spec == Init /\ [][Next]_vars

\* A send to a dead peer raises, a receive ends within five minutes, and asyncio runs what is
\* ready: no handler of a connection stands still.
FairSpec ==
    /\ Spec
    /\ \A w \in Sockets : WF_vars(Serve(w)) /\ WF_vars(~sock[w].alive /\ Disconnect(w))

----------------------------------------------------------------------------

\* The channel as a mailbox.
Held(c) ==
    \/ cmd[c].pc = "sending"
    \/ c \in pending
    \/ \E w \in Sockets : c \in sock[w].flush

StatusOf(c) ==
    IF delivered[c] > 1 THEN "repeated"
    ELSE IF delivered[c] = 1 THEN "delivered"
    ELSE IF cmd[c].pc = "new" THEN "new"
    ELSE IF Held(c) THEN "accepted" ELSE "lost"

Faulty == restarts > 0 \/ \E w \in Sockets : ~sock[w].alive

M == INSTANCE Mailbox WITH status <- [c \in Commands |-> StatusOf(c)], faulty <- Faulty

(* Through queueing, flushing, failed sends and connections that replace     *)
(* each other, the channel is a mailbox: nothing is delivered twice, and a   *)
(* command that was accepted and is not on its way any more was delivered,   *)
(* unless a connection died or the server restarted.                         *)
IsMailbox == M!MSpec

(* main.py:1537-1539: "If the board is offline, the notification is queued   *)
(* and delivered on reconnection"; the server itself does not restart.       *)
QueuedIsDelivered ==
    \A c \in Commands : cmd[c].reply = "queued" /\ restarts = 0 => Held(c) \/ delivered[c] > 0

(* A connection whose client died does not stay registered: the commands     *)
(* sent meanwhile go to the queue again.                                     *)
DeadUnregistered ==
    \A w \in Sockets : conn = w /\ ~sock[w].alive ~> conn # w
=============================================================================
