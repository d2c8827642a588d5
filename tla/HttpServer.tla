----------------------------- MODULE HttpServer -----------------------------
(***************************************************************************)
(* The HTTP server under the camera web server                             *)
(* (esp32_camera_web_server3/idf): one task that waits in select(), takes  *)
(* one control message, serves every readable session and accepts one      *)
(* connection, in this order.  When the table of sessions is full it does  *)
(* not close the least recently used one at once: it sends itself a        *)
(* control message, a datagram over the loopback interface, with a pointer *)
(* to the slot, and closes what it finds there when the message arrives.   *)
(*                                                                         *)
(* A request is its arrival and its end; the parser, the responses and the *)
(* handler's own work (see CameraWebServer) are a choice of outcomes.      *)
(***************************************************************************)
EXTENDS Naturals, Sequences, FiniteSetsExt, Functions

CONSTANTS
  MaxConns,          \* TCP connections that the peers open (bound)
  max_open_sockets,
  lru_purge_enable,
  backlog_conn,
  MaxMessages,       \* datagrams that the control socket keeps
  Prompt,            \* a datagram arrives before the next select()
  MaxRequests,       \* requests of all peers (bound)
  Bodies             \* peers may end a connection inside a request's body

ASSUME HttpServerAssumption ==
  /\ max_open_sockets \in Nat \ {0}
  /\ {MaxConns, backlog_conn, MaxMessages, MaxRequests} \subseteq Nat
  /\ {lru_purge_enable, Prompt, Bodies} \subseteq BOOLEAN

VARIABLES
  peer,      \* each connection: its stage, unread requests and end
  asked,     \* number of requests the peers have sent
  backlog,   \* connections that listen_fd has for accept()
  sd,        \* hd_sd: each slot's fd, lru_counter and pending data
  counter,   \* the static lru_counter
  transit,   \* control messages on their way
  mailbox,   \* and in the control socket
  pc,        \* where the task is
  ready,     \* the descriptors that select() found
  fd,        \* httpd_server's fd
  remaining, \* ra->remaining_len # 0: a body that has to be read
  main       \* the task that stops the server

net  == <<peer, backlog, asked>>
ctl  == <<transit, mailbox>>
loop == <<pc, ready, fd, remaining>>
vars == <<net, sd, counter, ctl, loop, main>>

\* A connection is its number, in the order they are opened, and its socket's
\* descriptor; None is the code's -1.
Conns == 1..MaxConns
None  == 0
Slots == 1..max_open_sockets
Work(s)  == [kind |-> "work", slot |-> s]
Shutdown == [kind |-> "shutdown", slot |-> 0]
Free     == [fd |-> None, lru |-> 0, pending |-> FALSE]
NoneReady == [ctrl |-> FALSE, listen |-> FALSE, fds |-> {}]

-----------------------------------------------------------------------------
(* The table of sessions, httpd_sess.c.                                    *)

httpd_is_sess_available == \E s \in Slots : sd[s].fd = None
Used == {s \in Slots : sd[s].fd # None}
SlotOf(c) == CHOOSE s \in Slots : sd[s].fd = c

\* The first session behind start_fd's, or the first one.
\* (Mutant: it starts one slot too far.)
IterateTooFar(start_fd) ==
  LET start  == IF start_fd = None THEN 1 ELSE SlotOf(start_fd) + 2
      behind == {s \in Used : s >= start}
  IN  IF behind = {} THEN None ELSE sd[Min(behind)].fd
httpd_sess_iterate(start_fd) ==
  LET start  == IF start_fd = None THEN 1 ELSE SlotOf(start_fd) + 1
      behind == {s \in Used : s >= start}
  IN  IF behind = {} THEN None ELSE sd[Min(behind)].fd

\* httpd_sess_delete returns the session before c's, where the loop goes on.
Before(c) ==
  LET before == {s \in Used : s < SlotOf(c)}
  IN  IF before = {} THEN None ELSE sd[Max(before)].fd

\* httpd_sess_delete and close() of session c.
\* (Mutant: the session is deleted, its socket is not closed.)
DeleteOnly(c) ==
  /\ sd' = [sd EXCEPT ![SlotOf(c)].fd = None]
  /\ peer' = peer
CloseSession(c) ==
  /\ sd' = [sd EXCEPT ![SlotOf(c)].fd = None]
  /\ peer' = [peer EXCEPT ![c].stage = "closed"]

\* httpd_sess_close_lru's choice: the first slot with the least counter.
\* (Mutant: the first slot.)
FirstSlot == 1
LruSlot == Min({s \in Slots : \A t \in Slots : sd[s].lru <= sd[t].lru})

\* httpd_sess_pending, and FD_ISSET of a session's descriptor.
Pending(c)  == sd[SlotOf(c)].pending
Readable(c) == peer[c].inbox > 0 \/ peer[c].ended

-----------------------------------------------------------------------------
(* The server's task, httpd_main.c.                                        *)

\* select() returns when a descriptor is readable; listen_fd is in the set
\* only when a new connection has a place.
\* (Mutant: lru_purge_enable is not looked at.)
ListenWithRoom == httpd_is_sess_available
Listening == lru_purge_enable \/ httpd_is_sess_available

Select ==
  LET found == [ctrl   |-> mailbox # <<>>,
                listen |-> Listening /\ backlog # <<>>,
                fds    |-> {sd[s].fd : s \in {t \in Used : Readable(sd[t].fd)}}]
  IN  /\ pc = "select" /\ (Prompt => transit = <<>>)
      /\ found.ctrl \/ found.listen \/ found.fds # {}
      /\ ready' = found /\ pc' = IF found.ctrl THEN "ctrl" ELSE "sessions"
      /\ UNCHANGED <<net, sd, counter, ctl, fd, remaining, main>>

\* select() fails: httpd_sess_delete_invalid drops the sessions whose socket is
\* not open any more, and the task waits anew.
SelectFails ==
  /\ pc = "select"
  /\ sd' = [s \in Slots |-> IF s \in Used /\ peer[sd[s].fd].stage # "open"
                            THEN [sd[s] EXCEPT !.fd = None] ELSE sd[s]]
  /\ UNCHANGED <<net, counter, ctl, loop, main>>

\* httpd_sess_close leaves a session alone that was not served since it was
\* made; a free slot has nothing to delete.
Purge(s) ==
  IF sd[s].lru = 0 \/ sd[s].fd = None THEN UNCHANGED <<peer, sd>>
  ELSE CloseSession(sd[s].fd)

\* httpd_process_ctrl_msg: at most one message.
\* (Mutant: the socket is emptied.)
TakeAll ==
  /\ pc = "ctrl"
  /\ mailbox' = <<>>
  /\ IF Head(mailbox).kind = "work"
     THEN pc' = "sessions" /\ Purge(Head(mailbox).slot)
     ELSE pc' = "exit" /\ UNCHANGED <<peer, sd>>
  /\ UNCHANGED <<backlog, asked, counter, transit, ready, fd, remaining, main>>
TakeMessage ==
  /\ pc = "ctrl"
  /\ mailbox' = Tail(mailbox)
  /\ IF Head(mailbox).kind = "work"
     THEN pc' = "sessions" /\ Purge(Head(mailbox).slot)
     ELSE pc' = "exit" /\ UNCHANGED <<peer, sd>>
  /\ UNCHANGED <<backlog, asked, counter, transit, ready, fd, remaining, main>>

\* recv() fails or has less than a message: the datagram is gone, and the round
\* goes on without it.  (Not the shutdown: see FairSpec.)
TakeFails ==
  /\ pc = "ctrl" /\ Head(mailbox).kind = "work"
  /\ mailbox' = Tail(mailbox) /\ pc' = "sessions"
  /\ UNCHANGED <<net, sd, counter, transit, ready, fd, remaining, main>>

\* The loop over the sessions: the next one, which is processed when it is
\* readable or has pending data.
NextSession ==
  LET next == httpd_sess_iterate(fd)
  IN  /\ pc = "sessions" /\ next # None
      /\ fd' = next
      /\ pc' = IF next \in ready.fds \/ Pending(next) THEN "request" ELSE "sessions"
      /\ UNCHANGED <<net, sd, counter, ctl, ready, remaining, main>>

\* Behind the last session, and after accept(), the next select() is made of
\* the sessions there are then.
Again(next) == pc' = next /\ fd' = None /\ ready' = IF next = "select" THEN NoneReady ELSE ready
LastSession ==
  /\ pc = "sessions" /\ httpd_sess_iterate(fd) = None
  /\ Again(IF ready.listen THEN "accept" ELSE "select")
  /\ UNCHANGED <<net, sd, counter, ctl, remaining, main>>

\* What recv() has: data the session kept, or else the socket's.  The parser
\* pauses behind a request and pushes the rest of what it read back.
HasRequest == Pending(fd) \/ peer[fd].inbox > 0
Unread(behind) ==
  IF Pending(fd) THEN 0 ELSE IF behind THEN 2 ELSE 1

\* The headers announce a body, of which something is left to be read when the
\* handler returns.
Announced ==
  /\ remaining' \in BOOLEAN
  /\ remaining' /\ peer[fd].ended => Bodies

\* httpd_req_new: the request is parsed and its handler succeeds.
Parse ==
  /\ pc = "request" /\ HasRequest
  /\ \E behind \in BOOLEAN :
       /\ behind => ~Pending(fd)
       /\ Unread(behind) <= peer[fd].inbox
       /\ peer' = [peer EXCEPT ![fd].inbox = @ - Unread(behind)]
       /\ sd' = [sd EXCEPT ![SlotOf(fd)].pending = behind]
  /\ Announced
  /\ pc' = "leftover"
  /\ UNCHANGED <<backlog, asked, counter, ctl, ready, fd, main>>

\* httpd_sess_process returned ESP_FAIL: the loop goes on behind the session
\* before the closed one.
\* (Mutant: it goes on with the closed session.)
GoOnWithClosed ==
  /\ CloseSession(fd) /\ pc' = "leftover" /\ fd' = fd
  /\ UNCHANGED <<backlog, asked, counter, ctl, ready, main>>
DropSession ==
  /\ CloseSession(fd) /\ pc' = "sessions" /\ fd' = Before(fd)
  /\ UNCHANGED <<backlog, asked, counter, ctl, ready, main>>

\* recv() found the end of the stream or an error, ...
Hangup ==
  /\ pc = "request" /\ ~HasRequest
  /\ DropSession /\ remaining' = FALSE

\* ... the request does not come in whole before the timeout, it is refused, or
\* its handler fails.
Refuse ==
  /\ pc = "request" /\ HasRequest
  /\ DropSession /\ remaining' = FALSE

\* httpd_req_delete has read the body, and the session counts as used.
Served ==
  /\ pc = "leftover" /\ ~remaining
  /\ sd' = [sd EXCEPT ![SlotOf(fd)].lru = counter]
  /\ counter' = counter + 1 /\ pc' = "sessions"
  /\ UNCHANGED <<net, ctl, ready, fd, remaining, main>>

\* recv() fails while the body is read, at its timeout or on a lost connection.
\* At the end of the stream it returns 0 and the loop goes on: not a step.
BodyFails ==
  /\ pc = "leftover" /\ remaining /\ ~peer[fd].ended
  /\ DropSession /\ remaining' = FALSE

\* httpd_accept_conn, with a place for the connection ...
httpd_sess_new(s, c) == sd' = [sd EXCEPT ![s] = [Free EXCEPT !.fd = c]]

Accept ==
  /\ pc = "accept" /\ httpd_is_sess_available
  /\ httpd_sess_new(Min(Slots \ Used), Head(backlog))
  /\ peer' = [peer EXCEPT ![Head(backlog)].stage = "open"]
  /\ backlog' = Tail(backlog) /\ Again("select")
  /\ UNCHANGED <<asked, counter, ctl, remaining, main>>

\* ... and without: httpd_queue_work sends the message.
CloseLru ==
  /\ pc = "accept" /\ ~httpd_is_sess_available
  /\ transit' = Append(transit, Work(LruSlot))
  /\ Again("select")
  /\ UNCHANGED <<net, sd, counter, mailbox, remaining, main>>

\* accept() fails, or sendto() for the message: listen_fd stays readable, and all
\* begins again at select().
AcceptFails ==
  /\ pc = "accept"
  /\ Again("select")
  /\ UNCHANGED <<net, sd, counter, ctl, remaining, main>>

\* httpd_thread's end: every session, the sockets and then the status.
Exit ==
  /\ pc = "exit"
  /\ sd' = [s \in Slots |-> [sd[s] EXCEPT !.fd = None]]
  /\ peer' = [c \in Conns |-> IF peer[c].stage \in {"waiting", "open"}
                              THEN [peer[c] EXCEPT !.stage = "closed"] ELSE peer[c]]
  /\ backlog' = <<>> /\ transit' = <<>> /\ mailbox' = <<>>
  /\ pc' = "stopped"
  /\ UNCHANGED <<asked, counter, ready, fd, remaining, main>>

-----------------------------------------------------------------------------
(* The peers, the loopback interface and the task that stops the server.   *)

Connect(c) ==
  /\ peer[c].stage = "away" /\ \A d \in 1..(c - 1) : peer[d].stage # "away"
  /\ pc \notin {"exit", "stopped"}
  /\ Len(backlog) < backlog_conn
  /\ peer' = [peer EXCEPT ![c].stage = "waiting"]
  /\ backlog' = Append(backlog, c)
  /\ UNCHANGED <<asked, sd, counter, ctl, loop, main>>

Ask(c) ==
  /\ peer[c].stage \in {"waiting", "open"} /\ ~peer[c].ended /\ asked < MaxRequests
  /\ peer' = [peer EXCEPT ![c].inbox = @ + 1]
  /\ asked' = asked + 1
  /\ UNCHANGED <<backlog, sd, counter, ctl, loop, main>>

\* The peer ends its side of the connection.  (A connection that is lost makes
\* recv() fail, which Refuse and BodyFails allow.)
Leave(c) ==
  /\ peer[c].stage \in {"waiting", "open"} /\ ~peer[c].ended
  /\ (remaining /\ fd = c) => Bodies
  /\ peer' = [peer EXCEPT ![c].ended = TRUE]
  /\ UNCHANGED <<backlog, asked, sd, counter, ctl, loop, main>>

SendBody ==
  /\ pc = "leftover" /\ remaining /\ ~peer[fd].ended
  /\ remaining' = FALSE
  /\ UNCHANGED <<net, sd, counter, ctl, pc, ready, fd, main>>

\* A datagram arrives, and is dropped when the control socket has no room.
Arrive ==
  /\ transit # <<>>
  /\ transit' = Tail(transit)
  /\ mailbox' = IF Len(mailbox) < MaxMessages THEN Append(mailbox, Head(transit)) ELSE mailbox
  /\ UNCHANGED <<net, sd, counter, loop, main>>

\* httpd_stop: the message, the wait for THREAD_STOPPED and httpd_delete.
Stop ==
  /\ main = "running"
  /\ transit' = Append(transit, Shutdown) /\ main' = "stopping"
  /\ UNCHANGED <<net, sd, counter, mailbox, loop>>

Delete ==
  /\ main = "stopping" /\ pc = "stopped"
  /\ main' = "down"
  /\ UNCHANGED <<net, sd, counter, ctl, loop>>

-----------------------------------------------------------------------------
Init ==
  /\ peer = [c \in Conns |-> [stage |-> "away", inbox |-> 0, ended |-> FALSE]]
  /\ backlog = <<>> /\ asked = 0 /\ sd = [s \in Slots |-> Free] /\ counter = 0
  /\ transit = <<>> /\ mailbox = <<>>
  /\ pc = "select" /\ fd = None /\ remaining = FALSE
  /\ ready = NoneReady
  /\ main = "running"

Server == Select \/ SelectFails \/ TakeMessage \/ TakeFails \/ NextSession \/ LastSession
          \/ Parse \/ Hangup \/ Refuse \/ Served \/ BodyFails \/ Accept \/ CloseLru \/ AcceptFails \/ Exit
Peers == SendBody \/ \E c \in Conns : Connect(c) \/ Ask(c) \/ Leave(c)

Next == Server \/ Peers \/ Arrive \/ Stop \/ Delete

Spec == Init /\ [][Next]_vars

\* The task and the stack under it are scheduled, recv() and send() end at their
\* timeouts, and a handler at IMAGE_REQUEST_TIMEOUT.  (A stream's handler ends
\* when sending fails or running_ is cleared: no fairness makes its viewer go.)
\* Neither accept() nor sendto() nor the recv() of a control message fails for
\* ever.  (The shutdown is sent and received once, and nobody repeats it.)
FairSpec ==
  /\ Spec /\ WF_vars(Server) /\ WF_vars(Arrive) /\ WF_vars(Delete)
  /\ SF_vars(Accept \/ CloseLru) /\ SF_vars(TakeMessage)

-----------------------------------------------------------------------------
(* Properties.                                                             *)

\* Every variable has its type, and the server works on a session it has.
TypeOK ==
  /\ peer \in [Conns -> [stage : {"away", "waiting", "open", "closed"}, inbox : 0..MaxRequests,
                         ended : BOOLEAN]]
  /\ IsInjective(backlog) /\ Range(backlog) = {c \in Conns : peer[c].stage = "waiting"}
  /\ sd \in [Slots -> [fd : Conns \cup {None}, lru : Nat, pending : BOOLEAN]]
  /\ asked \in 0..MaxRequests /\ counter \in Nat /\ remaining \in BOOLEAN /\ fd \in Conns \cup {None}
  /\ pc \in {"select", "ctrl", "sessions", "request", "leftover", "accept", "exit", "stopped"}
  /\ ready \in [ctrl : BOOLEAN, listen : BOOLEAN, fds : SUBSET Conns]
  /\ main \in {"running", "stopping", "down"}
  /\ pc \in {"request", "leftover"} => \E s \in Used : sd[s].fd = fd

\* The table and the sockets agree: each accepted connection has one session
\* until its socket is closed, whichever of the four ways of closing it takes.
OneSessionEach ==
  /\ \A s, t \in Used : sd[s].fd = sd[t].fd => s = t
  /\ {sd[s].fd : s \in Used} = {c \in Conns : peer[c].stage = "open"}

\* What a control message closes is still what httpd_accept_conn meant: the
\* least recently used session of a full table.
PurgesLru ==
  [][\A s \in Used : pc = "ctrl" /\ sd'[s].fd = None
       => Used = Slots /\ \A t \in Slots : sd[s].lru <= sd[t].lru]_vars

\* The inductive invariant of the theorems in HttpServerProofs: besides types and
\* table, a descriptor that select() found has something to give, and no session
\* has more unread requests than were sent.
Messages == {Work(s) : s \in Slots} \cup {Shutdown}
Queues ==
  /\ backlog \in Seq(Conns) /\ transit \in Seq(Messages) /\ mailbox \in Seq(Messages)
  /\ pc = "ctrl" => mailbox # <<>>
  /\ pc = "accept" => ready.listen
  /\ ready.listen /\ pc # "stopped" => backlog # <<>>
  /\ \A c \in Conns : peer[c].inbox <= asked
IndInv == TypeOK /\ OneSessionEach /\ Queues

\* And where datagrams arrive promptly: at most one message asks for a purge, and
\* from its sending to its execution the full table does not change.
Purges(queue) == {i \in DOMAIN queue : queue[i].kind = "work"}
IsLru(s) == Used = Slots /\ \A t \in Slots : sd[s].lru <= sd[t].lru
PurgeInv ==
  /\ \A i \in Purges(transit) :
       pc = "select" /\ Purges(mailbox) = {} /\ IsLru(transit[i].slot)
  /\ \A i \in Purges(mailbox) :
       pc \in {"select", "ctrl", "exit"} /\ (pc # "exit" => IsLru(mailbox[i].slot))
  /\ \A i, j \in Purges(transit) : i = j
  /\ \A i, j \in Purges(mailbox) : i = j

\* With every session used since it was made, the next connection is accepted.
\* (The first max_open_sockets connections find a free place.)
MakesRoom ==
  \A c \in (max_open_sockets + 1)..MaxConns :
    (backlog # <<>> /\ backlog[1] = c /\ Used = Slots /\ \A s \in Slots : sd[s].lru > 0)
      ~> (peer[c].stage # "waiting" \/ main # "running")

\* A request that has reached an open session is read, or the session closed,
\* however the other sessions, the purge and the loop's deletions interleave.
RequestsRead ==
  \A c \in Conns : (peer[c].stage = "open" /\ peer[c].inbox > 0)
                     ~> (peer[c].stage = "closed" \/ peer[c].inbox = 0)

\* httpd_stop ends, although its message stands behind the server's own.
StopEnds == (main = "stopping") ~> (main = "down")

\* "then the session having the earliest LRU counter is closed automatically":
\* a connection that waits is accepted in the end.
WaitersAccepted ==
  \A c \in Conns : (peer[c].stage = "waiting")
                     ~> (peer[c].stage # "waiting" \/ main # "running")

=============================================================================
