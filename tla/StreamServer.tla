---------------------------- MODULE StreamServer ----------------------------
(***************************************************************************)
(* The serial bridge, StreamServerComponent (stream_server.cpp): every     *)
(* chunk read from the UART goes to every connected TCP client, and what   *)
(* the clients send goes to the UART.                                      *)
(*                                                                         *)
(* loop() runs cleanup(), read() and write() one after the other in the    *)
(* main task.  The callbacks of the TCP library (a new client, data, a     *)
(* lost connection) run in one task of its own, between any two steps of   *)
(* loop().  A step is one operation on a vector: an element looked at and  *)
(* moved in cleanup(), its resize(), a push_back(), a write to one client. *)
(* Only disconnect_over()'s pass over the list is one step as a whole.     *)
(***************************************************************************)
EXTENDS Integers, Sequences, FiniteSets

CONSTANTS
  Conns,          \* TCP connections
  Limits,         \* values of the option max_clients
  MaxListed,      \* clients_ never gets longer than this (bound)
  MaxAvailable,   \* chunks waiting in the UART (bound)
  MaxArrived      \* bytes received from clients in a behaviour (bound)

ASSUME StreamServerAssumption ==
  /\ IsFiniteSet(Conns)
  /\ Limits \subseteq Int
  /\ MaxListed \in Nat /\ MaxAvailable \in Nat /\ MaxArrived \in Nat

VARIABLES
  max_clients_,  \* the option, set once
  clients_,      \* the list: each client's connection and its disconnected flag
  send_buf_,     \* a chunk is waiting in send_buf_
  send_client_,  \* how many clients of the list have it
  recv_buf_,     \* bytes received from clients
  available,     \* chunks waiting in the UART
  accepting,     \* onClient is between its push_back and discard_clients
  pc,            \* what loop() does next
  count, i,      \* cleanup()'s locals: clients kept so far, clients looked at
  len,           \* write()'s local: bytes just written to the UART
  \* history, not in the code
  copies,        \* per connection: times the chunk in send_buf_ was sent to it,
                 \* 0 when that is empty
  arrived, uart  \* number of bytes received from clients, and those written to the UART

lists == <<clients_, send_buf_, send_client_>>
toUart == <<recv_buf_, len, arrived, uart>>
at == <<pc, count, i>>
vars == <<max_clients_, lists, toUart, available, accepting, at, copies>>

Listed == {clients_[p].conn : p \in DOMAIN clients_}
Connected(list) == {p \in DOMAIN list : ~list[p].disconnected}
ConnectedConns == {clients_[p].conn : p \in Connected(clients_)}

-----------------------------------------------------------------------------
(* TCP callbacks.                                                          *)

\* disconnect_over on the list from the front, or from the back: the first n
\* connected clients stay.
KeepFirst(list, n) ==
  [p \in DOMAIN list |->
    [list[p] EXCEPT !.disconnected =
       @ \/ Cardinality({j \in Connected(list) : j < p}) >= n]]
\* (Mutant of KeepLast: one client too many.)
KeepLastAndOne(list, n) ==
  [p \in DOMAIN list |->
    [list[p] EXCEPT !.disconnected =
       @ \/ Cardinality({j \in Connected(list) : j > p}) > n]]
KeepLast(list, n) ==
  [p \in DOMAIN list |->
    [list[p] EXCEPT !.disconnected =
       @ \/ Cardinality({j \in Connected(list) : j > p}) >= n]]

\* discard_clients
Discard(list) ==
  IF max_clients_ > 0 THEN KeepFirst(list, max_clients_)
  ELSE IF max_clients_ < 0 THEN KeepLast(list, -max_clients_)
  ELSE list

\* onClient: the new client joins the end of the list, ...
OnClient(c) ==
  /\ ~accepting /\ c \notin Listed /\ Len(clients_) < MaxListed
  /\ clients_' = Append(clients_, [conn |-> c, disconnected |-> FALSE])
  /\ copies' = [copies EXCEPT ![c] = 0]
  /\ accepting' = TRUE
  /\ UNCHANGED <<max_clients_, send_buf_, send_client_, toUart, available, at>>

\* ... and then the limit is applied.
DiscardClients ==
  /\ accepting
  /\ clients_' = Discard(clients_)
  /\ accepting' = FALSE
  /\ UNCHANGED <<max_clients_, send_buf_, send_client_, toUart, available, at, copies>>

\* onError, onDisconnect, onTimeout
OnDisconnect(c) ==
  /\ ~accepting
  /\ \E p \in Connected(clients_) :
       /\ clients_[p].conn = c
       /\ clients_' = [clients_ EXCEPT ![p].disconnected = TRUE]
  /\ UNCHANGED <<max_clients_, send_buf_, send_client_, toUart, available, accepting, at, copies>>

\* onData; a client keeps its callback until it is deleted.  The bytes are
\* numbered as they come.
OnData(c) ==
  /\ ~accepting /\ c \in Listed /\ arrived < MaxArrived
  /\ recv_buf_' = Append(recv_buf_, arrived + 1)
  /\ arrived' = arrived + 1
  /\ UNCHANGED <<max_clients_, lists, len, uart, available, accepting, at, copies>>

\* The device on the serial line sends.
UartReceives ==
  /\ available < MaxAvailable
  /\ available' = available + 1
  /\ UNCHANGED <<max_clients_, lists, toUart, accepting, at, copies>>

-----------------------------------------------------------------------------
(* loop()                                                                  *)

\* cleanup's first loop looks for a disconnected client ...
FindLost ==
  /\ pc = "cleanup"
  /\ IF count < Len(clients_) /\ ~clients_[count + 1].disconnected
     THEN count' = count + 1 /\ UNCHANGED <<pc, i>>
     ELSE i' = count /\ pc' = "move" /\ UNCHANGED count
  /\ UNCHANGED <<max_clients_, lists, toUart, available, accepting, copies>>

\* ... and the second goes on behind it.  A connected client moves up,
MoveKept ==
  /\ pc = "move" /\ i < Len(clients_) /\ ~clients_[i + 1].disconnected
  /\ clients_' = [clients_ EXCEPT ![count + 1] = clients_[i + 1], ![i + 1] = clients_[count + 1]]
  /\ count' = count + 1 /\ i' = i + 1
  /\ UNCHANGED <<max_clients_, send_buf_, send_client_, toUart, available, accepting, pc, copies>>

\* and for a disconnected one before send_client_ that is moved back.
\* (Mutants: it moves back for every disconnected client, or starts over.)
ShiftAlways  == send_client_ - 1
ShiftToStart == 0
Shift == IF send_client_ > i THEN send_client_ - 1 ELSE send_client_

MoveLost ==
  /\ pc = "move" /\ i < Len(clients_) /\ clients_[i + 1].disconnected
  /\ send_client_' = Shift
  /\ i' = i + 1
  /\ UNCHANGED <<max_clients_, clients_, send_buf_, toUart, available, accepting, pc, count, copies>>

MovedAll ==
  /\ pc = "move" /\ i >= Len(clients_)
  /\ pc' = "resize"
  /\ UNCHANGED <<max_clients_, lists, toUart, available, accepting, count, i, copies>>

\* What is behind the kept clients goes, also one that was pushed back just now.
\* (Mutant: the disconnected clients stay.)
KeepAll ==
  /\ pc = "resize" /\ pc' = "flush" /\ count' = 0 /\ i' = 0
  /\ UNCHANGED <<max_clients_, lists, toUart, available, accepting, copies>>
Resize ==
  /\ pc = "resize"
  /\ clients_' = SubSeq(clients_, 1, count)
  /\ pc' = "flush" /\ count' = 0 /\ i' = 0
  /\ UNCHANGED <<max_clients_, send_buf_, send_client_, toUart, available, accepting, copies>>

\* flush's loop has a client to write to.
Flushing == pc = "flush" /\ send_buf_ /\ send_client_ < Len(clients_)
Current == clients_[send_client_ + 1]

\* The client's TCP buffer takes the chunk, or the part of it that fits: the
\* code does not tell them apart.
Send ==
  /\ Flushing
  /\ copies' = [copies EXCEPT ![Current.conn] = @ + 1]
  /\ send_client_' = send_client_ + 1
  /\ UNCHANGED <<max_clients_, clients_, send_buf_, toUart, available, accepting, at>>

\* It takes nothing: read() gives up until the next loop().
Overflow ==
  /\ Flushing
  /\ pc' = "write"
  /\ UNCHANGED <<max_clients_, lists, toUart, available, accepting, count, i, copies>>

\* flush is through the list.
Flushed ==
  /\ pc = "flush" /\ send_buf_ /\ send_client_ >= Len(clients_)
  /\ send_buf_' = FALSE /\ send_client_' = 0
  /\ copies' = [c \in Conns |-> 0]
  /\ UNCHANGED <<max_clients_, clients_, toUart, available, accepting, at>>

\* read: with nothing left to send, the next chunk is read ...
ReadChunk ==
  /\ pc = "flush" /\ ~send_buf_ /\ available > 0
  /\ available' = available - 1
  /\ send_buf_' = TRUE /\ send_client_' = 0
  /\ UNCHANGED <<max_clients_, clients_, toUart, accepting, at, copies>>

\* ... unless read_array() fails: the bytes send_buf_ was resized to are sent all
\* the same, from the next loop() on.
ReadFails ==
  /\ pc = "flush" /\ ~send_buf_ /\ available > 0
  /\ send_buf_' = TRUE
  /\ pc' = "write"
  /\ UNCHANGED <<max_clients_, clients_, send_client_, toUart, available, accepting, count, i, copies>>

\* ... or there is none.
ReadNothing ==
  /\ pc = "flush" /\ ~send_buf_ /\ available = 0
  /\ pc' = "write"
  /\ UNCHANGED <<max_clients_, lists, toUart, available, accepting, count, i, copies>>

\* write: the received bytes go to the UART ...
WriteArray ==
  /\ pc = "write" /\ recv_buf_ # <<>>
  /\ len' = Len(recv_buf_)
  /\ uart' = uart \o recv_buf_
  /\ pc' = "erase"
  /\ UNCHANGED <<max_clients_, lists, recv_buf_, arrived, available, accepting, count, i, copies>>

\* (Mutant: everything is erased.)
EraseAll ==
  /\ pc = "erase" /\ pc' = "write"
  /\ recv_buf_' = <<>> /\ len' = 0
  /\ UNCHANGED <<max_clients_, lists, arrived, uart, available, accepting, count, i, copies>>

\* ... and only those are erased.
Erase ==
  /\ pc = "erase"
  /\ recv_buf_' = SubSeq(recv_buf_, len + 1, Len(recv_buf_))
  /\ len' = 0
  /\ pc' = "write"
  /\ UNCHANGED <<max_clients_, lists, arrived, uart, available, accepting, count, i, copies>>

EndLoop ==
  /\ pc = "write" /\ recv_buf_ = <<>>
  /\ pc' = "cleanup"
  /\ UNCHANGED <<max_clients_, lists, toUart, available, accepting, count, i, copies>>

-----------------------------------------------------------------------------
Init ==
  /\ max_clients_ \in Limits
  /\ clients_ = <<>> /\ send_buf_ = FALSE /\ send_client_ = 0
  /\ recv_buf_ = <<>> /\ len = 0 /\ arrived = 0 /\ uart = <<>>
  /\ available = 0 /\ pc = "cleanup" /\ count = 0 /\ i = 0 /\ accepting = FALSE
  /\ copies = [c \in Conns |-> 0]

Cleanup == FindLost \/ MoveKept \/ MoveLost \/ MovedAll \/ Resize
Loop == Cleanup \/ Send \/ Overflow \/ Flushed \/ ReadChunk \/ ReadFails \/ ReadNothing
        \/ WriteArray \/ Erase \/ EndLoop
Callback == DiscardClients \/ \E c \in Conns : OnClient(c) \/ OnDisconnect(c) \/ OnData(c)

Next == Loop \/ Callback \/ UartReceives

Spec == Init /\ [][Next]_vars

\* Both tasks keep running.  A client that stops reading does not fill its
\* buffer for ever: it reads on, or the TCP library reports its timeout.
Fairness ==
  /\ WF_vars(Loop) /\ WF_vars(DiscardClients)
  /\ \A c \in Conns :
       SF_vars((Send /\ Current = [conn |-> c, disconnected |-> FALSE]) \/ OnDisconnect(c))

FairSpec == Spec /\ Fairness

-----------------------------------------------------------------------------
(* Properties.                                                             *)

\* Every variable has its type.
TypeOK ==
  /\ max_clients_ \in Limits
  /\ clients_ \in Seq([conn : Conns, disconnected : BOOLEAN])
  /\ Len(clients_) <= MaxListed
  /\ send_buf_ \in BOOLEAN /\ send_client_ \in 0..MaxListed
  /\ recv_buf_ \in Seq(1..MaxArrived) /\ arrived \in 0..MaxArrived /\ uart \in Seq(1..MaxArrived)
  /\ len \in 0..MaxArrived /\ available \in 0..MaxAvailable
  /\ pc \in {"cleanup", "move", "resize", "flush", "write", "erase"}
  /\ {count, i} \subseteq 0..MaxListed /\ accepting \in BOOLEAN
  /\ copies \in [Conns -> 0..1]

\* "find first disconnected, and then rewrite rest to keep order to keep
\* send_client_ be correct" (stream_server.cpp:90): behind cleanup() the clients before
\* send_client_ have the chunk in send_buf_, the others do not yet.
SendClientCorrect ==
  send_buf_ /\ pc = "flush" => \A p \in Connected(clients_) :
    copies[clients_[p].conn] = IF p <= send_client_ THEN 1 ELSE 0

\* No client gets a chunk twice, however the list shrinks and grows and
\* however often flush() has to start again.
SentOnce == \A c \in Conns : copies[c] <= 1

\* The bytes from the clients reach the UART once, all of them and in the order
\* they came, though they keep coming between write_array and erase.
UartInOrder ==
  uart \o (IF pc = "erase" THEN SubSeq(recv_buf_, len + 1, Len(recv_buf_)) ELSE recv_buf_)
    = [k \in 1..arrived |-> k]

\* No more clients are connected than max_clients allows, but for a new one that
\* discard_clients has not come to yet, whatever cleanup() moves meanwhile.
Limit == IF max_clients_ > 0 THEN max_clients_ ELSE -max_clients_
WithinMaxClients ==
  max_clients_ # 0 =>
    Cardinality(ConnectedConns) <= Limit + (IF accepting THEN 1 ELSE 0)

\* Once no more clients connect, no chunk waits for ever, so the UART is read
\* on: a lost client does not hold the others back.  While clients connect and
\* are lost between cleanup() and flush() again and again, it can wait.
NoNewClient == Listed' \subseteq Listed
ChunkSent == <>[][NoNewClient]_vars => (send_buf_ ~> ~send_buf_)

=============================================================================
