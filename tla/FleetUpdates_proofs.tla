------------------------ MODULE FleetUpdates_proofs ------------------------
(***************************************************************************)
(* Proofs about the command channel of a board (BoardCommands) and about   *)
(* the update endpoints on top of it (FleetUpdates).                       *)
(***************************************************************************)
EXTENDS FleetUpdates, TLAPS

----------------------------------------------------------------------------
(* The command channel.                                                    *)

(* The initial state of the channel has its type.                            *)
LEMMA ChannelInit == Init => TypeOK
  BY CommandsAssumption DEF Init, TypeOK, Socket, Unused, Command, NewCommand

(* A handler with another state, client or flush is a handler.               *)
LEMMA SocketWith ==
  ASSUME NEW s \in Socket, NEW p \in {"none", "ticketed", "flushing", "open", "ended"},
         NEW a \in BOOLEAN, NEW f \in SUBSET Commands
  PROVE  /\ [s EXCEPT !.pc = p] \in Socket
         /\ [s EXCEPT !.alive = a] \in Socket
         /\ [s EXCEPT !.flush = f] \in Socket
         /\ [s EXCEPT !.pc = p, !.alive = a] \in Socket
         /\ [s EXCEPT !.pc = p, !.flush = f] \in Socket
  BY DEF Socket

(* Every step of a connection keeps the type.                                *)
LEMMA ConnectionType ==
  ASSUME TypeOK, NEW w \in Sockets,
         Ticket(w) \/ Refuse(w) \/ Connect(w) \/ Flushed(w) \/ Disconnect(w) \/ Die(w)
  PROVE  TypeOK'
<1>0. /\ sock \in [Sockets -> Socket] /\ sock[w] \in Socket
      /\ conn \in Sockets \cup {Nil} /\ pending \in SUBSET Commands
  BY DEF TypeOK
<1>1. CASE Ticket(w)
  <2>1. [sock[w] EXCEPT !.pc = "ticketed"] \in Socket
    BY <1>0, SocketWith
  <2>2. sock' \in [Sockets -> Socket]
    BY <1>0, <1>1, <2>1 DEF Ticket
  <2> QED
    BY <1>1, <2>2 DEF Ticket, TypeOK
<1>2. CASE Refuse(w)
  <2>1. [sock[w] EXCEPT !.pc = "ended", !.alive = FALSE] \in Socket
    BY <1>0, SocketWith
  <2>2. sock' \in [Sockets -> Socket]
    BY <1>0, <1>2, <2>1 DEF Refuse
  <2> QED
    BY <1>2, <2>2 DEF Refuse, TypeOK
<1>3. CASE Connect(w)
  <2>1. [sock[w] EXCEPT !.pc = "flushing", !.flush = pending] \in Socket
    BY <1>0, SocketWith
  <2>2. sock' \in [Sockets -> Socket]
    BY <1>0, <1>3, <2>1 DEF Connect
  <2> QED
    BY <1>3, <2>2 DEF Connect, TypeOK
<1>4. CASE Flushed(w)
  <2>1. [sock[w] EXCEPT !.pc = "open"] \in Socket
    BY <1>0, SocketWith
  <2>2. sock' \in [Sockets -> Socket]
    BY <1>0, <1>4, <2>1 DEF Flushed
  <2> QED
    BY <1>4, <2>2 DEF Flushed, TypeOK
<1>5. CASE Disconnect(w)
  <2>1. [sock[w] EXCEPT !.pc = "ended", !.alive = FALSE] \in Socket
    BY <1>0, SocketWith
  <2>2. sock' \in [Sockets -> Socket]
    BY <1>0, <1>5, <2>1 DEF Disconnect
  <2> QED
    BY <1>5, <2>2 DEF Disconnect, ConnAfter, TypeOK
<1>6. CASE Die(w)
  <2>1. [sock[w] EXCEPT !.alive = FALSE] \in Socket
    BY <1>0, SocketWith
  <2>2. sock' \in [Sockets -> Socket]
    BY <1>0, <1>6, <2>1 DEF Die
  <2> QED
    BY <1>6, <2>2 DEF Die, TypeOK
<1> QED
  BY <1>1, <1>2, <1>3, <1>4, <1>5, <1>6

(* Every step of the channel keeps the type.                                 *)
LEMMA ChannelType == TypeOK /\ [Next]_vars => TypeOK'
<1> SUFFICES ASSUME TypeOK, [Next]_vars PROVE TypeOK'
  OBVIOUS
<1>1. ASSUME NEW w \in Sockets,
             Ticket(w) \/ Refuse(w) \/ Connect(w) \/ Flushed(w) \/ Disconnect(w) \/ Die(w)
      PROVE  TypeOK'
  BY <1>1, ConnectionType
<1> USE CommandsAssumption DEF TypeOK, Socket, Command
<1>4. ASSUME NEW w \in Sockets, NEW c \in Commands, Flush(w, c) PROVE TypeOK'
  <2>1. sock' \in [Sockets -> Socket]
    BY <1>4 DEF Flush
  <2>2. delivered' \in [Commands -> Nat]
    BY <1>4 DEF Flush, Transmit
  <2> QED
    BY <1>4, <2>1, <2>2 DEF Flush
<1>8. ASSUME NEW c \in Commands, Send(c) PROVE TypeOK'
  <2>1. cmd' \in [Commands -> Command]
    BY <1>8 DEF Send, QueueIt
  <2> QED
    BY <1>8, <2>1 DEF Send, QueueIt
<1>9. ASSUME NEW c \in Commands, Sent(c) PROVE TypeOK'
  BY <1>9 DEF Sent, Transmit
<1>10. ASSUME NEW c \in Commands, SendFails(c) PROVE TypeOK'
  BY <1>10 DEF SendFails, QueueIt
<1>11. CASE Restart
  <2>1. sock' \in [Sockets -> Socket]
    BY <1>11 DEF Restart
  <2>2. cmd' \in [Commands -> Command]
    BY <1>11 DEF Restart
  <2>3. restarts' = restarts + 1 /\ restarts < MaxRestarts
    BY <1>11 DEF Restart
  <2>4. restarts' \in 0..MaxRestarts
    BY <2>3
  <2> QED
    BY <1>11, <2>1, <2>2, <2>4 DEF Restart
<1>12. CASE UNCHANGED vars
  BY <1>12 DEF vars
<1> QED
  BY <1>1, <1>4, <1>8, <1>9, <1>10, <1>11, <1>12 DEF Next, Serve

(* Every reachable state of the channel has its type.                        *)
THEOREM ChannelTypeCorrect == Spec => []TypeOK
  BY ChannelInit, ChannelType, PTL DEF Spec

\* A command that is on its way is in one place, and was not delivered yet.
OnePlace ==
    /\ \A c \in pending : cmd[c].pc = "done"
    /\ \A w \in Sockets : \A c \in sock[w].flush : cmd[c].pc = "done" /\ c \notin pending
    /\ \A v, w \in Sockets : v # w => sock[v].flush \cap sock[w].flush = {}
    /\ \A c \in Commands : Held(c) \/ cmd[c].pc = "new" => delivered[c] = 0
    /\ \A w \in Sockets : sock[w].flush # {} => sock[w].pc = "flushing"
    /\ \A c \in Commands : cmd[c].pc = "sending" => cmd[c].via \in Sockets

(* At the start nothing is on its way.                                       *)
LEMMA OnePlaceInit == Init => OnePlace
  BY DEF Init, OnePlace, Held, Unused, NewCommand

(* No step puts a command in a second place, or keeps one that it delivers.  *)
LEMMA OnePlaceStep == TypeOK /\ OnePlace /\ [Next]_vars => OnePlace'
<1> SUFFICES ASSUME TypeOK, OnePlace, [Next]_vars PROVE OnePlace'
  OBVIOUS
<1> USE CommandsAssumption DEF TypeOK, Socket, Command, OnePlace, Held
<1>1. ASSUME NEW w \in Sockets, Ticket(w) PROVE OnePlace'
  BY <1>1 DEF Ticket
<1>2. ASSUME NEW w \in Sockets, Refuse(w) PROVE OnePlace'
  BY <1>2 DEF Refuse
<1>3. ASSUME NEW w \in Sockets, Connect(w) PROVE OnePlace'
  BY <1>3 DEF Connect
<1>4. ASSUME NEW w \in Sockets, NEW c \in Commands, Flush(w, c) PROVE OnePlace'
  BY <1>4 DEF Flush, Transmit
<1>5. ASSUME NEW w \in Sockets, Flushed(w) PROVE OnePlace'
  BY <1>5 DEF Flushed
<1>6. ASSUME NEW w \in Sockets, Disconnect(w) PROVE OnePlace'
  BY <1>6 DEF Disconnect, ConnAfter
<1>7. ASSUME NEW w \in Sockets, Die(w) PROVE OnePlace'
  BY <1>7 DEF Die
<1>8. ASSUME NEW c \in Commands, Send(c) PROVE OnePlace'
  BY <1>8 DEF Send, QueueIt
<1>9. ASSUME NEW c \in Commands, Sent(c) PROVE OnePlace'
  BY <1>9 DEF Sent, Transmit
<1>10. ASSUME NEW c \in Commands, SendFails(c) PROVE OnePlace'
  BY <1>10 DEF SendFails, QueueIt
<1>11. CASE Restart
  BY <1>11 DEF Restart
<1>12. CASE UNCHANGED vars
  BY <1>12 DEF vars
<1> QED
  BY <1>1, <1>2, <1>3, <1>4, <1>5, <1>6, <1>7, <1>8, <1>9, <1>10, <1>11, <1>12 DEF Next, Serve

----------------------------------------------------------------------------
(* The channel is a mailbox.                                               *)

\* What a mailbox sees of a step: the status of one command, and faults.
Moves(c, from, to) ==
    /\ StatusOf(c) = from /\ StatusOf(c)' = to
    /\ \A x \in Commands \ {c} : StatusOf(x)' = StatusOf(x)

Kept == \A x \in Commands : StatusOf(x)' = StatusOf(x)

(* A step that changes no status is a stutter of the mailbox, or a fault of  *)
(* it that loses nothing.                                                    *)
LEMMA KeptIsMailbox ==
  ASSUME Kept, Faulty => Faulty'
  PROVE  [M!MNext]_<<[c \in Commands |-> StatusOf(c)], Faulty>>
<1> DEFINE st == [c \in Commands |-> StatusOf(c)]
<1>1. st' = st
  BY DEF Kept
<1>2. CASE Faulty' = Faulty
  BY <1>1, <1>2
<1>3. CASE Faulty' # Faulty
  <2>1. Faulty' = TRUE
    BY <1>3 DEF Faulty
  <2>2. PICK S \in SUBSET Commands : S = {}
    OBVIOUS
  <2>3. st' = [c \in Commands |-> IF c \in S THEN "lost" ELSE st[c]]
    BY <1>1, <2>2
  <2>4. \A c \in S : st[c] = "accepted"
    BY <2>2
  <2>5. M!Fault
    BY <2>1, <2>3, <2>4 DEF M!Fault
  <2> QED
    BY <2>5 DEF M!MNext
<1> QED
  BY <1>2, <1>3

(* Accepting a command is a step of the mailbox.                             *)
LEMMA AcceptIsMailbox ==
  ASSUME NEW c \in Commands, Moves(c, "new", "accepted"), Faulty' = Faulty
  PROVE  M!MNext
<1> DEFINE st == [x \in Commands |-> StatusOf(x)]
<1>1. st' = [st EXCEPT ![c] = "accepted"]
  BY DEF Moves
<1>2. st[c] = "new"
  BY DEF Moves
<1> QED
  BY <1>1, <1>2 DEF M!MNext, M!Accept

(* Delivering a command is a step of the mailbox.                            *)
LEMMA DeliverIsMailbox ==
  ASSUME NEW c \in Commands, Moves(c, "accepted", "delivered"), Faulty' = Faulty
  PROVE  M!MNext
<1> DEFINE st == [x \in Commands |-> StatusOf(x)]
<1>1. st' = [st EXCEPT ![c] = "delivered"]
  BY DEF Moves
<1>2. st[c] = "accepted"
  BY DEF Moves
<1> QED
  BY <1>1, <1>2 DEF M!MNext, M!Deliver

(* Losing one command after a fault is a step of the mailbox.                *)
LEMMA LossIsMailbox ==
  ASSUME NEW c \in Commands, Moves(c, "accepted", "lost"), Faulty' = TRUE
  PROVE  M!MNext
<1> DEFINE st == [x \in Commands |-> StatusOf(x)]
<1>1. st' = [x \in Commands |-> IF x \in {c} THEN "lost" ELSE st[x]]
  BY DEF Moves
<1>2. \A x \in {c} : st[x] = "accepted"
  BY DEF Moves
<1> QED
  BY <1>1, <1>2 DEF M!MNext, M!Fault

(* The status of a command is a function of its request, of its deliveries   *)
(* and of whether it is on its way.                                          *)
LEMMA StatusFrame ==
  ASSUME NEW x \in Commands, delivered'[x] = delivered[x],
         (cmd'[x].pc = "new") <=> (cmd[x].pc = "new"), Held(x)' <=> Held(x)
  PROVE  StatusOf(x)' = StatusOf(x)
  BY DEF StatusOf

(* Every step of the channel is a step of the mailbox.                       *)
LEMMA StepIsMailbox ==
  TypeOK /\ OnePlace /\ [Next]_vars => [M!MNext]_<<[c \in Commands |-> StatusOf(c)], Faulty>>
<1> SUFFICES ASSUME TypeOK, OnePlace, [Next]_vars
             PROVE  [M!MNext]_<<[c \in Commands |-> StatusOf(c)], Faulty>>
  OBVIOUS
<1> DEFINE Goal == [M!MNext]_<<[c \in Commands |-> StatusOf(c)], Faulty>>
<1> USE CommandsAssumption DEF TypeOK, Socket, Command
<1>1. ASSUME NEW w \in Sockets, Ticket(w) PROVE Goal
  <2>1. Kept
    BY <1>1, StatusFrame DEF Ticket, Held, Kept
  <2>2. Faulty => Faulty'
    BY <1>1 DEF Ticket, Faulty
  <2> QED
    BY <2>1, <2>2, KeptIsMailbox
<1>2. ASSUME NEW w \in Sockets, Refuse(w) PROVE Goal
  <2>1. Kept
    BY <1>2, StatusFrame DEF Refuse, Held, Kept
  <2>2. Faulty => Faulty'
    BY <1>2 DEF Refuse, Faulty
  <2> QED
    BY <2>1, <2>2, KeptIsMailbox
<1>3. ASSUME NEW w \in Sockets, Connect(w) PROVE Goal
  <2>0. /\ sock'[w].flush = pending /\ pending' = {} /\ UNCHANGED cmd
        /\ \A v \in Sockets \ {w} : sock'[v] = sock[v]
    BY <1>3 DEF Connect
  <2>t. sock[w].flush = {}
    BY <1>3 DEF Connect, OnePlace
  <2>1. \A x \in Commands : Held(x)' <=> Held(x)
    <3> SUFFICES ASSUME NEW x \in Commands PROVE Held(x)' <=> Held(x)
      OBVIOUS
    <3>1. (\E v \in Sockets : x \in sock'[v].flush)
            <=> x \in pending \/ \E v \in Sockets : x \in sock[v].flush
      BY <2>0, <2>t
    <3> QED
      BY <2>0, <3>1 DEF Held
  <2>2. Kept
    BY <1>3, <2>1, StatusFrame DEF Connect, Kept
  <2>3. Faulty => Faulty'
    BY <1>3 DEF Connect, Faulty
  <2> QED
    BY <2>2, <2>3, KeptIsMailbox
<1>4. ASSUME NEW w \in Sockets, NEW c \in Commands, Flush(w, c) PROVE Goal
  <2>1. Held(c) /\ delivered[c] = 0 /\ cmd[c].pc = "done"
    BY <1>4 DEF Flush, Held, OnePlace
  <2>2. ~Held(c)' /\ cmd'[c].pc = "done"
    BY <1>4 DEF Flush, Held, OnePlace
  <2>3. \A x \in Commands \ {c} : StatusOf(x)' = StatusOf(x)
    <3> SUFFICES ASSUME NEW x \in Commands \ {c} PROVE StatusOf(x)' = StatusOf(x)
      OBVIOUS
    <3>1. Held(x)' <=> Held(x)
      BY <1>4 DEF Flush, Held
    <3>2. delivered'[x] = delivered[x]
      BY <1>4 DEF Flush, Transmit
    <3> QED
      BY <1>4, <3>1, <3>2, StatusFrame DEF Flush
  <2>4. Faulty' <=> Faulty
    BY <1>4 DEF Flush, Faulty
  <2>5. CASE sock[w].alive
    <3>1. delivered'[c] = 1
      BY <1>4, <2>1, <2>5 DEF Flush, Transmit
    <3>2. Moves(c, "accepted", "delivered")
      BY <2>1, <2>2, <2>3, <3>1 DEF Moves, StatusOf
    <3> QED
      BY <2>4, <3>2, DeliverIsMailbox DEF Faulty
  <2>6. CASE ~sock[w].alive
    <3>1. delivered'[c] = 0
      BY <1>4, <2>1, <2>6 DEF Flush, Transmit
    <3>2. Moves(c, "accepted", "lost")
      BY <2>1, <2>2, <2>3, <3>1 DEF Moves, StatusOf
    <3>3. Faulty' = TRUE
      BY <2>4, <2>6 DEF Faulty
    <3> QED
      BY <3>2, <3>3, LossIsMailbox
  <2> QED
    BY <2>5, <2>6
<1>5. ASSUME NEW w \in Sockets, Flushed(w) PROVE Goal
  <2>1. Kept
    BY <1>5, StatusFrame DEF Flushed, Held, Kept
  <2>2. Faulty => Faulty'
    BY <1>5 DEF Flushed, Faulty
  <2> QED
    BY <2>1, <2>2, KeptIsMailbox
<1>6. ASSUME NEW w \in Sockets, Disconnect(w) PROVE Goal
  <2>1. Kept
    BY <1>6, StatusFrame DEF Disconnect, Held, Kept
  <2>2. Faulty => Faulty'
    BY <1>6 DEF Disconnect, Faulty
  <2> QED
    BY <2>1, <2>2, KeptIsMailbox
<1>7. ASSUME NEW w \in Sockets, Die(w) PROVE Goal
  <2>1. Kept
    BY <1>7, StatusFrame DEF Die, Held, Kept
  <2>2. Faulty => Faulty'
    BY <1>7 DEF Die, Faulty
  <2> QED
    BY <2>1, <2>2, KeptIsMailbox
<1>8. ASSUME NEW c \in Commands, Send(c) PROVE Goal
  <2>1. delivered[c] = 0 /\ cmd[c].pc = "new"
    BY <1>8 DEF Send, OnePlace
  <2>2. Held(c)' /\ cmd'[c].pc # "new" /\ delivered' = delivered
    BY <1>8 DEF Send, QueueIt, Held
  <2>3. \A x \in Commands \ {c} : StatusOf(x)' = StatusOf(x)
    <3> SUFFICES ASSUME NEW x \in Commands \ {c} PROVE StatusOf(x)' = StatusOf(x)
      OBVIOUS
    <3>1. cmd'[x] = cmd[x]
      BY <1>8 DEF Send, QueueIt
    <3>2. Held(x)' <=> Held(x)
      BY <1>8, <3>1 DEF Send, QueueIt, Held
    <3> QED
      BY <2>2, <3>1, <3>2, StatusFrame
  <2>4. Moves(c, "new", "accepted")
    BY <2>1, <2>2, <2>3 DEF Moves, StatusOf
  <2>5. Faulty' = Faulty
    BY <1>8 DEF Send, Faulty
  <2> QED
    BY <2>4, <2>5, AcceptIsMailbox
<1>9. ASSUME NEW c \in Commands, Sent(c) PROVE Goal
  <2>1. Held(c) /\ delivered[c] = 0 /\ cmd[c].pc = "sending"
    BY <1>9 DEF Sent, Held, OnePlace
  <2>2. ~Held(c)' /\ cmd'[c].pc = "done"
    BY <1>9 DEF Sent, Held, OnePlace
  <2>3. \A x \in Commands \ {c} : StatusOf(x)' = StatusOf(x)
    <3> SUFFICES ASSUME NEW x \in Commands \ {c} PROVE StatusOf(x)' = StatusOf(x)
      OBVIOUS
    <3>1. cmd'[x] = cmd[x] /\ delivered'[x] = delivered[x]
      BY <1>9 DEF Sent, Transmit
    <3>2. Held(x)' <=> Held(x)
      BY <1>9, <3>1 DEF Sent, Held
    <3> QED
      BY <3>1, <3>2, StatusFrame
  <2>4. Faulty' = Faulty
    BY <1>9 DEF Sent, Faulty
  <2>5. CASE delivered'[c] = 1
    <3>1. Moves(c, "accepted", "delivered")
      BY <2>1, <2>2, <2>3, <2>5 DEF Moves, StatusOf
    <3> QED
      BY <2>4, <3>1, DeliverIsMailbox
  <2>6. CASE delivered' = delivered /\ ~sock[cmd[c].via].alive
    <3>1. Moves(c, "accepted", "lost")
      BY <2>1, <2>2, <2>3, <2>6 DEF Moves, StatusOf
    <3>2. cmd[c].via \in Sockets
      BY <2>1 DEF OnePlace
    <3>3. Faulty' = TRUE
      BY <2>4, <2>6, <3>2 DEF Faulty
    <3> QED
      BY <3>1, <3>3, LossIsMailbox
  <2> QED
    BY <1>9, <2>1, <2>5, <2>6 DEF Sent, Transmit
<1>10. ASSUME NEW c \in Commands, SendFails(c) PROVE Goal
  <2>1. \A x \in Commands : /\ Held(x)' <=> Held(x)
                            /\ (cmd'[x].pc = "new") <=> (cmd[x].pc = "new")
    BY <1>10 DEF SendFails, QueueIt, Held
  <2>2. Kept
    BY <1>10, <2>1, StatusFrame DEF SendFails, Kept
  <2>3. Faulty => Faulty'
    BY <1>10 DEF SendFails, Faulty
  <2> QED
    BY <2>2, <2>3, KeptIsMailbox
<1>11. CASE Restart
  <2> DEFINE st == [c \in Commands |-> StatusOf(c)]
             S == {c \in Commands : st[c] = "accepted"}
  <2>1. \A x \in Commands : /\ ~Held(x)'
                            /\ delivered'[x] = delivered[x]
                            /\ (cmd'[x].pc = "new") <=> (cmd[x].pc = "new")
    BY <1>11 DEF Restart, Held, OnePlace
  <2>2. \A x \in Commands : StatusOf(x)' = IF x \in S THEN "lost" ELSE StatusOf(x)
    BY <2>1 DEF StatusOf
  <2>3. st' = [x \in Commands |-> IF x \in S THEN "lost" ELSE st[x]]
    BY <2>2
  <2>4. restarts' = restarts + 1
    BY <1>11 DEF Restart
  <2>5. Faulty' = TRUE
    BY <2>4 DEF Faulty
  <2> QED
    BY <2>3, <2>5 DEF M!MNext, M!Fault
<1>12. CASE UNCHANGED vars
  <2>1. Kept
    BY <1>12, StatusFrame DEF vars, Held, Kept
  <2>2. Faulty => Faulty'
    BY <1>12 DEF vars, Faulty
  <2> QED
    BY <2>1, <2>2, KeptIsMailbox
<1> QED
  BY <1>1, <1>2, <1>3, <1>4, <1>5, <1>6, <1>7, <1>8, <1>9, <1>10, <1>11, <1>12 DEF Next, Serve

(* The initial state of the channel is the one of the mailbox.               *)
LEMMA InitIsMailbox == Init => M!MInit
  BY DEF Init, M!MInit, StatusOf, Faulty, Unused, NewCommand

(* The channel implements the mailbox: at most one delivery of each command, *)
(* and no loss without a fault.                                              *)
THEOREM ImplementsMailbox == Spec => IsMailbox
<1>1. Init => TypeOK /\ OnePlace /\ M!MInit
  BY ChannelInit, OnePlaceInit, InitIsMailbox
<1>2. TypeOK /\ OnePlace /\ [Next]_vars => TypeOK' /\ OnePlace'
  BY ChannelType, OnePlaceStep
<1> QED
  BY <1>1, <1>2, StepIsMailbox, PTL DEF Spec, IsMailbox, M!MSpec

----------------------------------------------------------------------------
(* The update endpoints.                                                   *)

(* A step of the endpoints is a step of the channel or leaves it alone.      *)
LEMMA ChannelOfFleet == [FNext]_<<vars, fleetVars>> => [Next]_vars
<1> SUFFICES ASSUME [FNext]_<<vars, fleetVars>> PROVE [Next]_vars
  OBVIOUS
<1>1. CASE Channel
  BY <1>1 DEF Channel, Next
<1>2. ASSUME NEW c \in Commands, FSend(c) PROVE [Next]_vars
  BY <1>2 DEF FSend, Next
<1>3. CASE FRestart
  BY <1>3 DEF FRestart, Next
<1>4. CASE UNCHANGED vars
  BY <1>4
<1> QED
  BY <1>1, <1>2, <1>3, <1>4 DEF FNext

(* The endpoints use the channel as it is meant: what holds of the channel   *)
(* alone holds below them.                                                   *)
THEOREM FleetUsesChannel == FSpec => Spec
  BY ChannelOfFleet, PTL DEF FSpec, FInit, Spec

(* A row that two rows merge into is a row.                                  *)
LEMMA MergeType ==
  ASSUME row \in Row, NEW snap \in Row, NEW goal \in Row
  PROVE  Merge(snap, goal) \in Row
  BY DEF Merge, Row

(* A commit keeps the type of the row.                                       *)
LEMMA WriteType ==
  ASSUME FTypeOK, NEW t \in Txns, Write(t)
  PROVE  row' \in Row
<1>1. txn[t].snap \in Row /\ txn[t].goal \in Row /\ row \in Row
  BY DEF FTypeOK, Txn
<1>2. Merge(txn[t].snap, txn[t].goal) \in Row
  BY <1>1, MergeType
<1> QED
  BY <1>1, <1>2 DEF Write, FTypeOK

(* A transaction that begins keeps its type.                                 *)
LEMMA BeginType ==
  ASSUME FTypeOK, NEW t \in Txns, NEW goal \in Row, Begin(t, goal)
  PROVE  txn' \in [Txns -> Txn]
<1>1. [txn[t] EXCEPT !.pc = "read", !.snap = row, !.goal = goal] \in Txn
  BY DEF FTypeOK, Txn
<1> QED
  BY <1>1 DEF Begin, FTypeOK

(* The goals of the endpoints are rows.                                      *)
LEMMA GoalType ==
  ASSUME row \in Row, NEW v \in Versions, NEW c, NEW s \in Outcomes
  PROVE  PushGoal(c, v) \in Row /\ ReportGoal(s) \in Row /\ NoRow \in Row
  BY DEF PushGoal, ReportGoal, Row, NoRow, Outcomes

(* The record of a transaction that ended has the type of one.               *)
LEMMA EndedType == Ended \in Txn /\ NewTxn \in Txn
<1>1. NoRow \in Row
  BY DEF NoRow, Row, Outcomes
<1> QED
  BY <1>1 DEF Ended, NewTxn, Txn

(* The initial state of the endpoints has its type.                          *)
LEMMA FleetInit == FInit => FTypeOK
<1> SUFFICES ASSUME FInit PROVE FTypeOK
  OBVIOUS
<1>1. TypeOK
  BY ChannelInit DEF FInit
<1>2. row \in Row
  BY DEF FInit, NoRow, Row, Outcomes
<1>3. txn \in [Txns -> Txn]
  BY EndedType DEF FInit
<1> QED
  BY <1>1, <1>2, <1>3 DEF FInit, FTypeOK

\* The type of what the endpoints keep.
FleetType ==
    /\ row \in Row
    /\ txn \in [Txns -> Txn]
    /\ active \subseteq Manifests
    /\ older \in [Manifests -> SUBSET Manifests]
    /\ committed \subseteq Manifests

(* A step of a transaction keeps the type.                                   *)
LEMMA TableType == FTypeOK /\ Table => FleetType'
<1> SUFFICES ASSUME FTypeOK, Table PROVE FleetType'
  OBVIOUS
<1> USE DEF FTypeOK, FleetType
<1>1. ASSUME NEW c \in Updates, PushCommit(c) PROVE FleetType'
  <2>1. c \in Txns
    BY DEF Txns
  <2>2. row' \in Row
    BY <1>1, <2>1, WriteType DEF PushCommit
  <2> QED
    BY <1>1, <2>1, <2>2, EndedType DEF PushCommit
<1>2. ASSUME NEW c \in Updates, NEW v \in Versions, PushRead(c, v) PROVE FleetType'
  <2>1. c \in Txns
    BY DEF Txns
  <2>2. PushGoal(c, v) \in Row
    BY GoalType DEF Outcomes
  <2>3. txn' \in [Txns -> Txn]
    BY <1>2, <2>1, <2>2, BeginType DEF PushRead
  <2> QED
    BY <1>2, <2>3 DEF PushRead
<1>3. ASSUME NEW r \in Reports, ReportCommit(r) PROVE FleetType'
  <2>1. r \in Txns
    BY DEF Txns
  <2>2. row' \in Row
    BY <1>3, <2>1, WriteType DEF ReportCommit
  <2> QED
    BY <1>3, <2>1, <2>2, EndedType DEF ReportCommit
<1>4. ASSUME NEW r \in Reports, NEW s \in Outcomes, ReportRead(r, s)
      PROVE  FleetType'
  <2>1. r \in Txns
    BY DEF Txns
  <2>2. ReportGoal(s) \in Row
    BY DEF ReportGoal, Row, FTypeOK
  <2>3. txn' \in [Txns -> Txn]
    BY <1>4, <2>1, <2>2, BeginType DEF ReportRead
  <2> QED
    BY <1>4, <2>3 DEF ReportRead
<1>5. CASE Heartbeat
  BY <1>5 DEF Heartbeat, Row, Outcomes
<1>6. ASSUME NEW u \in Manifests, UploadRead(u) PROVE FleetType'
  <2>1. u \in Txns
    BY DEF Txns
  <2>2. [txn[u] EXCEPT !.pc = "read", !.seen = active] \in Txn
    BY <2>1 DEF Txn
  <2>3. txn' \in [Txns -> Txn]
    BY <1>6, <2>1, <2>2 DEF UploadRead
  <2> QED
    BY <1>6, <2>3 DEF UploadRead
<1>7. ASSUME NEW u \in Uploads, UploadCommit(u) PROVE FleetType'
  BY <1>7, EndedType DEF UploadCommit, Stamp, Publish, Txns, Manifests
<1>8. ASSUME NEW u \in FleetWide, FleetCommit(u) PROVE FleetType'
  <2>1. u \in Txns /\ u \in Manifests
    BY DEF Txns, Manifests
  <2>2. row' \in Row
    BY <1>8, <2>1, WriteType DEF FleetCommit
  <2> QED
    BY <1>8, <2>1, <2>2, EndedType DEF FleetCommit, Publish
<1>9. ASSUME NEW u \in FleetWide, NEW v \in Versions, FleetRead(u, v) PROVE FleetType'
  <2>1. u \in Txns /\ u \in Manifests
    BY DEF Txns, Manifests
  <2> DEFINE g == IF row = NoRow THEN NoRow ELSE [target |-> v, status |-> "rolling_back"]
  <2>2. g \in Row
    BY DEF NoRow, Row, Outcomes
  <2> HIDE DEF g
  <2>3. [txn[u] EXCEPT !.pc = "flushed", !.snap = row, !.goal = g] \in Txn
    BY <2>1, <2>2 DEF Txn
  <2>4. txn' = [txn EXCEPT ![u] = [txn[u] EXCEPT !.pc = "flushed", !.snap = row, !.goal = g]]
    BY <1>9, <2>1 DEF FleetRead, g
  <2>5. txn' \in [Txns -> Txn]
    BY <2>1, <2>3, <2>4
  <2>6. older' \in [Manifests -> SUBSET Manifests]
    BY <1>9, <2>1 DEF FleetRead, Stamp
  <2> QED
    BY <1>9, <2>5, <2>6 DEF FleetRead
<1> QED
  BY <1>1, <1>2, <1>3, <1>4, <1>5, <1>6, <1>7, <1>8, <1>9 DEF Table

(* Every step of the endpoints keeps the type.                               *)
LEMMA FleetStep == FTypeOK /\ [FNext]_<<vars, fleetVars>> => FTypeOK'
<1> SUFFICES ASSUME FTypeOK, [FNext]_<<vars, fleetVars>> PROVE FTypeOK'
  OBVIOUS
<1>1. TypeOK'
  BY ChannelOfFleet, ChannelType DEF FTypeOK
<1>2. CASE UNCHANGED fleetVars
  BY <1>1, <1>2 DEF fleetVars, FTypeOK
<1>3. CASE Table
  BY <1>1, <1>3, TableType DEF FleetType, FTypeOK
<1>4. CASE FRestart
  BY <1>1, <1>4, EndedType DEF FRestart, FTypeOK
<1> QED
  BY <1>2, <1>3, <1>4 DEF FNext, FSend

(* Every reachable state of the endpoints has its type.                      *)
THEOREM FleetTypeCorrect == FSpec => []FTypeOK
  BY FleetInit, FleetStep, PTL DEF FSpec

\* Every manifest that was seen, or is committed, has its place in the order of creation.
InOrder ==
    /\ active \subseteq committed
    /\ \A u \in committed : u \in older[u] /\ txn[u].pc = "done"
    /\ \A a, b \in Manifests : a \in older[b] =>
         a \in older[a] /\ b \in older[b] /\ older[a] \subseteq older[b]
    /\ \A u \in Manifests : txn[u].pc \in {"new", "read"} => older[u] = {}
    /\ \A u \in Manifests : txn[u].seen \subseteq committed
    /\ \A u \in Manifests : txn[u].pc = "flushed" => txn[u].seen \cup {u} \subseteq older[u]
    /\ NewestIsActive

(* A manifest that is stamped is younger than all the others.                *)
LEMMA StampKeepsOrder ==
  ASSUME FTypeOK, InOrder, NEW u \in Manifests, txn[u].pc = "read", Stamp(u)
  PROVE  /\ \A a, b \in Manifests : a \in older'[b] =>
              a \in older'[a] /\ b \in older'[b] /\ older'[a] \subseteq older'[b]
         /\ \A x \in Manifests \ {u} : older'[x] = older[x]
         /\ older[u] = {} /\ u \in older'[u] /\ committed \subseteq older'[u]
<1>1. older \in [Manifests -> SUBSET Manifests] /\ committed \subseteq Manifests
  BY DEF FTypeOK
<1>2. /\ older'[u] = {u} \cup {x \in Manifests : older[x] # {}}
      /\ \A x \in Manifests \ {u} : older'[x] = older[x]
  BY <1>1 DEF Stamp
<1>3. older[u] = {}
  BY DEF InOrder
<1>4. committed \subseteq older'[u]
  BY <1>1, <1>2 DEF InOrder
<1>5. ASSUME NEW a \in Manifests, NEW b \in Manifests, a \in older'[b]
      PROVE  a \in older'[a] /\ b \in older'[b] /\ older'[a] \subseteq older'[b]
  <2>1. CASE a = u
    <3>1. b = u
      BY <1>2, <1>3, <1>5, <2>1 DEF InOrder
    <3> QED
      BY <1>2, <2>1, <3>1
  <2>2. CASE a # u /\ b = u
    <3>1. older[a] # {} /\ older'[a] = older[a]
      BY <1>2, <1>5, <2>2
    <3>2. PICK y \in Manifests : y \in older[a]
      BY <1>1, <3>1
    <3>3. \A z \in older[a] : z \in Manifests /\ older[z] # {}
      BY <1>1 DEF InOrder
    <3>4. older'[a] \subseteq older'[b]
      BY <1>2, <2>2, <3>1, <3>3
    <3>5. a \in older[a]
      BY <3>2 DEF InOrder
    <3> QED
      BY <1>2, <2>2, <3>1, <3>4, <3>5
  <2>3. CASE a # u /\ b # u
    BY <1>2, <1>5, <2>3 DEF InOrder
  <2> QED
    BY <2>1, <2>2, <2>3
<1> QED
  BY <1>2, <1>3, <1>4, <1>5

(* Publishing a manifest that is younger than all it saw keeps the newest    *)
(* manifest active.                                                          *)
LEMMA PublishKeepsNewest ==
  ASSUME FTypeOK, InOrder, NEW u \in Manifests, u \notin committed, Publish(u),
         \A x \in Manifests \ {u} : older'[x] = older[x],
         \A a \in Manifests : a \in older'[u] => older'[a] \subseteq older'[u],
         txn[u].seen \cup {u} \subseteq older'[u]
  PROVE  NewestIsActive' /\ active' \subseteq committed'
<1>1. /\ active' = (active \cup {u}) \ txn[u].seen /\ committed' = committed \cup {u}
      /\ active \subseteq committed /\ committed \subseteq Manifests
      /\ u \notin txn[u].seen
  BY DEF Publish, Deactivated, InOrder, FTypeOK
<1>2. ASSUME NEW x \in committed PROVE \E y \in active' : x \in older'[y]
  <2>1. PICK y \in active : x \in older[y]
    BY DEF InOrder, NewestIsActive
  <2>2. y \in Manifests /\ y # u /\ older'[y] = older[y]
    BY <1>1, <2>1
  <2>3. CASE y \in txn[u].seen
    <3>1. x \in older'[u]
      BY <2>1, <2>2, <2>3
    <3> QED
      BY <1>1, <3>1
  <2>4. CASE y \notin txn[u].seen
    BY <1>1, <2>1, <2>2, <2>4
  <2> QED
    BY <2>3, <2>4
<1>3. \E y \in active' : u \in older'[y]
  BY <1>1
<1> QED
  BY <1>1, <1>2, <1>3 DEF NewestIsActive

\* The parts of InOrder that relate each manifest to its transaction.
Placed(u) ==
    /\ u \in committed => u \in older[u] /\ txn[u].pc = "done"
    /\ txn[u].pc \in {"new", "read"} => older[u] = {}
    /\ txn[u].seen \subseteq committed
    /\ txn[u].pc = "flushed" => txn[u].seen \cup {u} \subseteq older[u]

(* The order from its parts, after a step.                                   *)
LEMMA InOrderParts ==
  ASSUME committed' \subseteq Manifests, active' \subseteq committed', NewestIsActive',
         \A u \in Manifests : Placed(u)',
         \A a, b \in Manifests : a \in older'[b] =>
           a \in older'[a] /\ b \in older'[b] /\ older'[a] \subseteq older'[b]
  PROVE  InOrder'
<1>1. \A u \in committed' : u \in older'[u] /\ txn'[u].pc = "done"
  BY DEF Placed
<1>2. \A u \in Manifests : /\ txn'[u].pc \in {"new", "read"} => older'[u] = {}
                           /\ txn'[u].seen \subseteq committed'
                           /\ txn'[u].pc = "flushed" => txn'[u].seen \cup {u} \subseteq older'[u]
  BY DEF Placed
<1> QED
  BY <1>1, <1>2 DEF InOrder

(* A step that leaves the manifests alone, or ends transactions, keeps the   *)
(* order.                                                                    *)
LEMMA OthersKeepOrder ==
  ASSUME InOrder, committed \subseteq Manifests, UNCHANGED <<active, older, committed>>,
         \A u \in Manifests : txn'[u] = txn[u] \/ txn'[u] = Ended
  PROVE  InOrder'
<1>1. Ended.seen = {} /\ Ended.pc = "done"
  BY DEF Ended, NewTxn
<1>2. \A u \in Manifests : Placed(u)'
  <2> SUFFICES ASSUME NEW u \in Manifests PROVE Placed(u)'
    OBVIOUS
  <2>1. Placed(u)
    BY DEF InOrder, Placed
  <2> QED
    BY <1>1, <2>1 DEF Placed
<1>3. NewestIsActive' /\ active' \subseteq committed'
  BY DEF InOrder, NewestIsActive
<1>4. \A a, b \in Manifests : a \in older'[b] =>
        a \in older'[a] /\ b \in older'[b] /\ older'[a] \subseteq older'[b]
  BY DEF InOrder
<1> QED
  BY <1>2, <1>3, <1>4, InOrderParts

(* A step of a transaction keeps the order.                                  *)
LEMMA TableKeepsOrder == FTypeOK /\ InOrder /\ Table => InOrder'
<1> SUFFICES ASSUME FTypeOK, InOrder, Table PROVE InOrder'
  OBVIOUS
<1>0. /\ txn \in [Txns -> Txn] /\ Manifests \subseteq Txns /\ Ended.seen = {} /\ Ended.pc = "done"
      /\ committed \subseteq Manifests /\ committed' \subseteq Manifests
  BY TableType DEF FTypeOK, FleetType, Txns, Ended, NewTxn
<1>1. ASSUME NEW t \in Txns, txn' = [txn EXCEPT ![t] = Ended], UNCHANGED <<active, older, committed>>
      PROVE  InOrder'
  BY <1>0, <1>1, OthersKeepOrder
<1>2. ASSUME NEW t \in Updates \cup Reports, NEW g, Begin(t, g), UNCHANGED <<active, older, committed>>
      PROVE  InOrder'
  <2>1. \A u \in Manifests : txn'[u] = txn[u]
    BY <1>0, <1>2, FleetAssumption DEF Begin
  <2> QED
    BY <1>0, <1>2, <2>1, OthersKeepOrder
<1>3. CASE Heartbeat
  BY <1>0, <1>3, OthersKeepOrder DEF Heartbeat
<1>4. ASSUME NEW u \in Manifests, UploadRead(u) PROVE InOrder'
  <2>1. /\ txn'[u].pc = "read" /\ txn'[u].seen = active
        /\ \A x \in Manifests \ {u} : txn'[x] = txn[x]
    BY <1>0, <1>4 DEF UploadRead, Txn
  <2>2. UNCHANGED <<active, older, committed>> /\ txn[u].pc = "new"
    BY <1>4 DEF UploadRead
  <2>3. \A x \in Manifests : Placed(x)'
    BY <2>1, <2>2 DEF Placed, InOrder
  <2>4. NewestIsActive' /\ active' \subseteq committed'
    BY <2>2 DEF InOrder, NewestIsActive
  <2>5. \A a, b \in Manifests : a \in older'[b] =>
          a \in older'[a] /\ b \in older'[b] /\ older'[a] \subseteq older'[b]
    BY <2>2 DEF InOrder
  <2> QED
    BY <1>0, <2>3, <2>4, <2>5, InOrderParts
<1>5. ASSUME NEW u \in Uploads, UploadCommit(u) PROVE InOrder'
  <2>1. u \in Manifests /\ txn[u].pc = "read" /\ Stamp(u) /\ Publish(u)
    BY <1>5 DEF UploadCommit, Manifests
  <2>2. u \notin committed /\ txn[u].seen \subseteq committed
    BY <2>1 DEF InOrder
  <2>3. /\ \A a, b \in Manifests : a \in older'[b] =>
             a \in older'[a] /\ b \in older'[b] /\ older'[a] \subseteq older'[b]
        /\ \A x \in Manifests \ {u} : older'[x] = older[x]
        /\ u \in older'[u] /\ committed \subseteq older'[u]
    BY <2>1, StampKeepsOrder
  <2>4. NewestIsActive' /\ active' \subseteq committed'
    BY <2>1, <2>2, <2>3, PublishKeepsNewest
  <2>5. /\ committed' = committed \cup {u} /\ txn'[u] = Ended
        /\ \A x \in Manifests \ {u} : txn'[x] = txn[x]
    BY <1>0, <2>1 DEF Publish
  <2>6. \A x \in Manifests : Placed(x)'
    <3> SUFFICES ASSUME NEW x \in Manifests PROVE Placed(x)'
      OBVIOUS
    <3>1. CASE x = u
      BY <1>0, <2>3, <2>5, <3>1 DEF Placed
    <3>2. CASE x # u
      BY <2>3, <2>5, <3>2 DEF Placed, InOrder
    <3> QED
      BY <3>1, <3>2
  <2> QED
    BY <1>0, <2>3, <2>4, <2>6, InOrderParts
<1>6. ASSUME NEW u \in FleetWide, FleetCommit(u) PROVE InOrder'
  <2>1. u \in Manifests /\ txn[u].pc = "flushed" /\ older' = older /\ Publish(u)
    BY <1>6 DEF FleetCommit, Manifests
  <2>2. u \notin committed /\ txn[u].seen \cup {u} \subseteq older[u]
    BY <2>1 DEF InOrder
  <2>3. \A a \in Manifests : a \in older'[u] => older'[a] \subseteq older'[u]
    BY <2>1 DEF InOrder
  <2>4. NewestIsActive' /\ active' \subseteq committed'
    BY <2>1, <2>2, <2>3, PublishKeepsNewest
  <2>5. /\ committed' = committed \cup {u} /\ txn'[u] = Ended
        /\ \A x \in Manifests \ {u} : txn'[x] = txn[x]
    BY <1>0, <2>1 DEF Publish
  <2> QED
    BY <1>0, <2>1, <2>2, <2>4, <2>5 DEF InOrder
<1>7. ASSUME NEW u \in FleetWide, NEW v \in Versions, FleetRead(u, v) PROVE InOrder'
  <2>1. u \in Manifests /\ txn[u].pc = "read" /\ Stamp(u) /\ UNCHANGED <<active, committed>>
    BY <1>7 DEF FleetRead, Manifests
  <2>2. /\ \A a, b \in Manifests : a \in older'[b] =>
             a \in older'[a] /\ b \in older'[b] /\ older'[a] \subseteq older'[b]
        /\ \A x \in Manifests \ {u} : older'[x] = older[x]
        /\ older[u] = {} /\ u \in older'[u] /\ committed \subseteq older'[u]
    BY <2>1, StampKeepsOrder
  <2>3. /\ txn'[u].pc = "flushed" /\ txn'[u].seen = txn[u].seen
        /\ \A x \in Manifests \ {u} : txn'[x] = txn[x]
    BY <1>0, <1>7, <2>1 DEF FleetRead, Txn
  <2>4. u \notin committed /\ txn[u].seen \subseteq committed
    BY <2>1 DEF InOrder
  <2>5. \A x \in Manifests : Placed(x)'
    BY <2>1, <2>2, <2>3, <2>4 DEF Placed, InOrder
  <2>6. NewestIsActive'
    BY <1>0, <2>1, <2>2, <2>4 DEF InOrder, NewestIsActive
  <2>7. active' \subseteq committed'
    BY <2>1 DEF InOrder
  <2> QED
    BY <1>0, <2>2, <2>5, <2>6, <2>7, InOrderParts
<1>8. ASSUME NEW c \in Updates, PushCommit(c) PROVE InOrder'
  BY <1>1, <1>8 DEF PushCommit, Txns
<1>9. ASSUME NEW r \in Reports, ReportCommit(r) PROVE InOrder'
  BY <1>1, <1>9 DEF ReportCommit, Txns
<1>10. ASSUME NEW c \in Updates, NEW v \in Versions, PushRead(c, v) PROVE InOrder'
  BY <1>2, <1>10 DEF PushRead
<1>11. ASSUME NEW r \in Reports, NEW s \in Outcomes, ReportRead(r, s)
       PROVE  InOrder'
  BY <1>2, <1>11 DEF ReportRead
<1> QED
  BY <1>3, <1>4, <1>5, <1>6, <1>7, <1>8, <1>9, <1>10, <1>11 DEF Table

(* Every step of the endpoints keeps the order.                              *)
LEMMA OrderStep == FTypeOK /\ InOrder /\ [FNext]_<<vars, fleetVars>> => InOrder'
<1> SUFFICES ASSUME FTypeOK, InOrder, [FNext]_<<vars, fleetVars>> PROVE InOrder'
  OBVIOUS
<1>1. CASE UNCHANGED fleetVars
  BY <1>1, OthersKeepOrder DEF fleetVars, FTypeOK
<1>2. CASE FRestart
  <2>1. \A u \in Manifests : txn'[u] = txn[u] \/ txn'[u] = Ended
    BY <1>2 DEF FRestart, Txns
  <2> QED
    BY <1>2, <2>1, OthersKeepOrder DEF FRestart, FTypeOK
<1> QED
  BY <1>1, <1>2, TableKeepsOrder DEF FNext, FSend

(* The newest manifest that was committed is the one the boards are offered. *)
THEOREM NewestStaysActive == FSpec => []NewestIsActive
<1>1. FInit => InOrder
  BY DEF FInit, InOrder, NewestIsActive, NewTxn, Manifests, Txns
<1>2. InOrder => NewestIsActive
  BY DEF InOrder
<1> QED
  BY <1>1, <1>2, FleetTypeCorrect, OrderStep, PTL DEF FSpec
=============================================================================
