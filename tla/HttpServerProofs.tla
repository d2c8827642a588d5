-------------------------- MODULE HttpServerProofs --------------------------
(***************************************************************************)
(* Theorems about HttpServer for any number of connections, places in the  *)
(* table, requests and messages: types, the agreement of the table with    *)
(* the sockets, and the purge of the least recently used session.          *)
(***************************************************************************)
EXTENDS HttpServer, WellFoundedInduction, TLAPS

\* A set of numbers has a least one: well-foundedness stands in for induction.
LEMMA MinExists ==
  ASSUME NEW S \in SUBSET Nat, S # {}
  PROVE  Min(S) \in S /\ \A x \in S : Min(S) <= x
<1> DEFINE R == OpToRel(<, Nat)
<1>1. IsWellFoundedOn(R, Nat)
  BY NatLessThanWellFounded
<1> HIDE DEF R
<1>2. \E x \in S : \A y \in S : ~(<<y, x>> \in R)
  BY <1>1, WFMin
<1>3. PICK x \in S : \A y \in S : ~(<<y, x>> \in R)
  BY <1>2
<1>4. \A y \in S : x <= y
  <2> SUFFICES ASSUME NEW y \in S PROVE ~(y < x)
    OBVIOUS
  <2>1. <<y, x>> \notin R
    BY <1>3
  <2>2. y \in Nat /\ x \in Nat
    OBVIOUS
  <2> QED
    BY <2>1, <2>2 DEF R, OpToRel
<1> QED
  BY <1>4 DEF Min

\* A bounded set has a greatest one.
LEMMA MaxExists ==
  ASSUME NEW n \in Nat, NEW S \in SUBSET (0..n), S # {}
  PROVE  Max(S) \in S
<1> DEFINE T == {n - x : x \in S}
<1>0. \A x \in S : x \in Nat /\ x <= n
  OBVIOUS
<1>1. T \in SUBSET Nat
  <2> SUFFICES ASSUME NEW x \in S PROVE n - x \in Nat
    OBVIOUS
  <2> QED
    BY <1>0
<1>a. T # {}
  OBVIOUS
<1> HIDE DEF T
<1>2. Min(T) \in T /\ \A y \in T : Min(T) <= y
  BY <1>1, <1>a, MinExists
<1>3. PICK x \in S : Min(T) = n - x
  BY <1>2 DEF T
<1>4. \A y \in S : n - x <= n - y
  BY <1>2, <1>3 DEF T
<1>5. \A y \in S : x >= y
  BY <1>0, <1>4
<1> QED
  BY <1>5 DEF Max

\* The choice of a victim is a slot, and one with the least counter.
LEMMA VictimIsLru ==
  ASSUME TypeOK
  PROVE  LruSlot \in Slots /\ \A t \in Slots : sd[LruSlot].lru <= sd[t].lru
<1> USE HttpServerAssumption
<1> DEFINE L == {sd[s].lru : s \in Slots}
<1> DEFINE B == {s \in Slots : \A t \in Slots : sd[s].lru <= sd[t].lru}
<1>1. \A s \in Slots : sd[s].lru \in Nat
  BY DEF TypeOK
<1>2. 1 \in Slots
  BY DEF Slots
<1>3. L \in SUBSET Nat
  BY <1>1
<1>4. L # {}
  BY <1>2
<1>5. Min(L) \in L /\ \A x \in L : Min(L) <= x
  <2> HIDE DEF L
  <2> QED
    BY <1>3, <1>4, MinExists
<1>6. PICK s \in Slots : sd[s].lru = Min(L)
  BY <1>5
<1>7. \A t \in Slots : sd[s].lru <= sd[t].lru
  BY <1>5, <1>6
<1>8. B # {}
  BY <1>7
<1>9. B \in SUBSET Nat
  BY DEF Slots
<1>10. Min(B) \in B
  <2> HIDE DEF B
  <2> QED
    BY <1>8, <1>9, MinExists
<1> QED
  BY <1>10 DEF LruSlot

\* A free slot is found where there is one.
LEMMA FreeSlotFound ==
  ASSUME TypeOK, httpd_is_sess_available
  PROVE  Min(Slots \ Used) \in Slots /\ sd[Min(Slots \ Used)].fd = None
<1> DEFINE F == Slots \ Used
<1>1. F \in SUBSET Nat
  BY HttpServerAssumption DEF Slots
<1>2. F # {}
  BY DEF httpd_is_sess_available, Used
<1>3. Min(F) \in F
  <2> HIDE DEF F
  <2> QED
    BY <1>1, <1>2, MinExists
<1> QED
  BY <1>3 DEF Used

\* The walk over the table visits sessions, and nothing else.
LEMMA WalkVisitsSessions ==
  ASSUME TypeOK, NEW start, httpd_sess_iterate(start) # None
  PROVE  \E s \in Used : httpd_sess_iterate(start) = sd[s].fd
<1> DEFINE first  == IF start = None THEN 1 ELSE SlotOf(start) + 1
<1> DEFINE behind == {s \in Used : s >= first}
<1>1. behind \in SUBSET Nat
  BY HttpServerAssumption DEF Slots, Used
<1>2. httpd_sess_iterate(start) = IF behind = {} THEN None ELSE sd[Min(behind)].fd
  BY DEF httpd_sess_iterate
<1>3. behind \subseteq Used
  OBVIOUS
<1> HIDE DEF behind
<1>4. behind # {}
  BY <1>2
<1>5. Min(behind) \in behind
  BY <1>1, <1>4, MinExists
<1> QED
  BY <1>2, <1>3, <1>4, <1>5

\* So does the step back after a deletion.
LEMMA StepBackFindsSession ==
  ASSUME TypeOK, NEW c
  PROVE  Before(c) \in Conns \cup {None}
<1> DEFINE before == {s \in Used : s < SlotOf(c)}
<1>1. before \subseteq Slots
  BY DEF Used
<1>2. before \in SUBSET (0..max_open_sockets)
  BY <1>1, HttpServerAssumption DEF Slots
<1>3. Before(c) = IF before = {} THEN None ELSE sd[Max(before)].fd
  BY DEF Before
<1> HIDE DEF before
<1>4. CASE before = {}
  BY <1>3, <1>4
<1>5. CASE before # {}
  <2>1. Max(before) \in before
    BY <1>2, <1>5, MaxExists, HttpServerAssumption
  <2>2. sd[Max(before)].fd \in Conns \cup {None}
    BY <2>1, <1>1 DEF TypeOK
  <2> QED
    BY <1>3, <1>5, <2>2
<1> QED
  BY <1>4, <1>5

\* A descriptor leads to the one slot that holds it.
LEMMA SlotOfSession ==
  ASSUME OneSessionEach, NEW s \in Used
  PROVE  SlotOf(sd[s].fd) = s
<1>1. \A t \in Slots : sd[t].fd = sd[s].fd => t = s
  BY DEF OneSessionEach, Used
<1> QED
  BY <1>1 DEF SlotOf, Used

\* httpd_sess_delete and close() keep table and sockets in agreement.
LEMMA CloseKeepsTable ==
  ASSUME TypeOK, OneSessionEach, NEW s \in Used, CloseSession(sd[s].fd)
  PROVE  /\ sd' = [sd EXCEPT ![s].fd = None]
         /\ peer' = [peer EXCEPT ![sd[s].fd].stage = "closed"]
         /\ sd[s].fd \in Conns /\ peer[sd[s].fd].stage = "open"
         /\ sd' \in [Slots -> [fd : Conns \cup {None}, lru : Nat, pending : BOOLEAN]]
         /\ peer' \in [Conns -> [stage : {"away", "waiting", "open", "closed"},
                                 inbox : 0..MaxRequests, ended : BOOLEAN]]
         /\ {c \in Conns : peer'[c].stage = "waiting"} = {c \in Conns : peer[c].stage = "waiting"}
         /\ OneSessionEach'
         /\ \A c \in Conns : peer'[c].inbox = peer[c].inbox
<1> DEFINE c == sd[s].fd
<1>1. /\ sd' = [sd EXCEPT ![s].fd = None]
      /\ peer' = [peer EXCEPT ![c].stage = "closed"]
  BY SlotOfSession DEF CloseSession
<1>2. s \in Slots /\ c \in Conns /\ c # None /\ peer[c].stage = "open"
  BY DEF Used, OneSessionEach, TypeOK
<1>3. sd' \in [Slots -> [fd : Conns \cup {None}, lru : Nat, pending : BOOLEAN]]
  BY <1>1, <1>2 DEF TypeOK
<1>4. peer' \in [Conns -> [stage : {"away", "waiting", "open", "closed"},
                          inbox : 0..MaxRequests, ended : BOOLEAN]]
  BY <1>1, <1>2 DEF TypeOK
<1>5. \A d \in Conns : /\ peer'[d].inbox = peer[d].inbox
                       /\ peer'[d].stage = IF d = c THEN "closed" ELSE peer[d].stage
  BY <1>1, <1>2 DEF TypeOK
<1>6. {d \in Conns : peer'[d].stage = "waiting"} = {d \in Conns : peer[d].stage = "waiting"}
  BY <1>2, <1>5
<1>7. \A t \in Slots : sd'[t].fd = IF t = s THEN None ELSE sd[t].fd
  BY <1>1, <1>2 DEF TypeOK
<1>8. Used' = Used \ {s}
  BY <1>7 DEF Used
<1>9. \A t, u \in Used' : sd'[t].fd = sd'[u].fd => t = u
  BY <1>7, <1>8 DEF OneSessionEach, Used
<1>10. {sd'[t].fd : t \in Used'} = {sd[t].fd : t \in Used} \ {c}
  BY <1>7, <1>8 DEF OneSessionEach, Used
<1>11. {d \in Conns : peer'[d].stage = "open"} = {d \in Conns : peer[d].stage = "open"} \ {c}
  BY <1>5
<1>12. OneSessionEach'
  BY <1>9, <1>10, <1>11 DEF OneSessionEach
<1> HIDE DEF c
<1> QED
  BY <1>1, <1>2, <1>3, <1>4, <1>5, <1>6, <1>12 DEF c

\* The initial state has an empty table and empty queues.
LEMMA InitEstablishes == Init => IndInv
<1> SUFFICES ASSUME Init PROVE IndInv
  OBVIOUS
<1> USE HttpServerAssumption DEF Init
<1>1. /\ peer \in [Conns -> [stage : {"away", "waiting", "open", "closed"},
                            inbox : 0..MaxRequests, ended : BOOLEAN]]
      /\ sd \in [Slots -> [fd : Conns \cup {None}, lru : Nat, pending : BOOLEAN]]
      /\ ready \in [ctrl : BOOLEAN, listen : BOOLEAN, fds : SUBSET Conns]
  BY DEF Free, NoneReady
<1>2. IsInjective(backlog) /\ Range(backlog) = {c \in Conns : peer[c].stage = "waiting"}
  BY DEF IsInjective, Range
<1>a. asked \in 0..MaxRequests /\ counter \in Nat
  OBVIOUS
<1>3. TypeOK
  BY <1>1, <1>2, <1>a, Zenon DEF TypeOK, None
<1>4. OneSessionEach
  BY DEF OneSessionEach, Used, Free
<1>5. Queues
  BY DEF Queues, NoneReady
<1> QED
  BY <1>3, <1>4, <1>5 DEF IndInv

\* The walk of the task from select() over the sessions to accept() changes
\* neither the table nor a connection.
LEMMA WalkPreserves ==
  ASSUME IndInv, Select \/ NextSession \/ LastSession \/ CloseLru \/ AcceptFails
  PROVE  IndInv'
<1> USE HttpServerAssumption
<1>1. UNCHANGED <<peer, sd, backlog, asked, remaining, main, mailbox>>
  BY DEF Select, NextSession, LastSession, CloseLru, AcceptFails, net, ctl, loop
<1>2. OneSessionEach'
  BY <1>1 DEF IndInv, OneSessionEach, Used
<1>3. CASE Select
  <2>1. {sd[s].fd : s \in {t \in Used : Readable(sd[t].fd)}} \in SUBSET Conns
    BY DEF IndInv, TypeOK, Used
  <2>2. ready' \in [ctrl : BOOLEAN, listen : BOOLEAN, fds : SUBSET Conns]
    BY <1>3, <2>1, Zenon DEF Select, Listening, httpd_is_sess_available
  <2>3. TypeOK'
    BY <1>1, <1>3, <2>2 DEF Select, IndInv, TypeOK, Again
  <2>4. Queues'
    BY <1>1, <1>3 DEF Select, IndInv, Queues, ctl
  <2> QED
    BY <1>2, <2>3, <2>4 DEF IndInv
<1>4. CASE NextSession
  <2>1. \E s \in Used : fd' = sd[s].fd
    BY <1>4, WalkVisitsSessions DEF NextSession, IndInv
  <2>2. fd' \in Conns /\ \E s \in Used' : sd'[s].fd = fd'
    BY <1>1, <2>1 DEF IndInv, TypeOK, Used
  <2>3. TypeOK'
    BY <1>1, <1>4, <2>2 DEF NextSession, IndInv, TypeOK
  <2>4. Queues'
    BY <1>1, <1>4 DEF NextSession, IndInv, Queues, ctl
  <2> QED
    BY <1>2, <2>3, <2>4 DEF IndInv
<1>5. CASE LastSession
  <2>1. TypeOK'
    BY <1>1, <1>5 DEF LastSession, Again, NoneReady, IndInv, TypeOK
  <2>2. Queues'
    BY <1>1, <1>5 DEF LastSession, Again, NoneReady, IndInv, Queues, ctl
  <2> QED
    BY <1>2, <2>1, <2>2 DEF IndInv
<1>6. CASE CloseLru
  <2>1. TypeOK'
    BY <1>1, <1>6 DEF CloseLru, Again, NoneReady, IndInv, TypeOK
  <2>2. Work(LruSlot) \in Messages
    BY VictimIsLru DEF IndInv, Messages
  <2>3. transit' \in Seq(Messages)
    BY <1>6, <2>2 DEF CloseLru, IndInv, Queues
  <2>4. Queues'
    BY <1>1, <1>6, <2>3 DEF CloseLru, Again, NoneReady, IndInv, Queues
  <2> QED
    BY <1>2, <2>1, <2>4 DEF IndInv
<1>7. CASE AcceptFails
  <2>1. TypeOK'
    BY <1>1, <1>7 DEF AcceptFails, Again, NoneReady, IndInv, TypeOK
  <2>2. Queues'
    BY <1>1, <1>7 DEF AcceptFails, Again, NoneReady, IndInv, Queues, ctl
  <2> QED
    BY <1>2, <2>1, <2>2 DEF IndInv
<1> QED
  BY <1>3, <1>4, <1>5, <1>6, <1>7

\* A session that is closed takes its slot and its socket with it; the task goes on
\* behind the session before it.
LEMMA DropPreserves ==
  ASSUME IndInv, Hangup \/ Refuse \/ BodyFails
  PROVE  IndInv'
<1> USE HttpServerAssumption
<1>1. DropSession /\ pc \in {"request", "leftover"} /\ remaining' = FALSE
  BY DEF Hangup, Refuse, BodyFails
<1>2. PICK s \in Used : sd[s].fd = fd
  BY <1>1 DEF IndInv, TypeOK
<1>3. CloseSession(sd[s].fd)
  BY <1>1, <1>2 DEF DropSession
<1>4. /\ sd' \in [Slots -> [fd : Conns \cup {None}, lru : Nat, pending : BOOLEAN]]
      /\ peer' \in [Conns -> [stage : {"away", "waiting", "open", "closed"},
                              inbox : 0..MaxRequests, ended : BOOLEAN]]
      /\ {c \in Conns : peer'[c].stage = "waiting"} = {c \in Conns : peer[c].stage = "waiting"}
      /\ OneSessionEach'
      /\ \A c \in Conns : peer'[c].inbox = peer[c].inbox
  BY <1>3, CloseKeepsTable DEF IndInv
<1>5. fd' \in Conns \cup {None} /\ pc' = "sessions"
  BY <1>1, StepBackFindsSession DEF DropSession, IndInv
<1>6. UNCHANGED <<backlog, asked, counter, ready, main, transit, mailbox>>
  BY <1>1 DEF DropSession, ctl
<1>7. TypeOK'
  BY <1>1, <1>4, <1>5, <1>6 DEF IndInv, TypeOK
<1>8. Queues'
  BY <1>1, <1>4, <1>5, <1>6 DEF IndInv, Queues
<1> QED
  BY <1>4, <1>7, <1>8 DEF IndInv

\* Every session's socket is open: a failed select() finds none to delete.
LEMMA NoneInvalid ==
  ASSUME IndInv, SelectFails
  PROVE  UNCHANGED vars
<1>1. \A s \in Used : peer[sd[s].fd].stage = "open"
  BY DEF IndInv, OneSessionEach
<1>2. sd' = [s \in Slots |-> sd[s]]
  BY <1>1 DEF SelectFails
<1>3. sd' = sd
  BY <1>2 DEF IndInv, TypeOK
<1> QED
  BY <1>3 DEF SelectFails, vars

\* A control message closes the session its slot has, if any; one that is lost
\* closes none.
LEMMA TakePreserves ==
  ASSUME IndInv, TakeMessage \/ TakeFails
  PROVE  IndInv'
<1> USE HttpServerAssumption
<1>1. /\ UNCHANGED <<backlog, asked, counter, transit, ready, fd, remaining, main>>
      /\ pc = "ctrl" /\ pc' \in {"sessions", "exit"}
      /\ mailbox # <<>> /\ mailbox' = Tail(mailbox)
  BY DEF TakeMessage, TakeFails, net, IndInv, Queues
<1>2. /\ sd' \in [Slots -> [fd : Conns \cup {None}, lru : Nat, pending : BOOLEAN]]
      /\ peer' \in [Conns -> [stage : {"away", "waiting", "open", "closed"},
                              inbox : 0..MaxRequests, ended : BOOLEAN]]
      /\ {c \in Conns : peer'[c].stage = "waiting"} = {c \in Conns : peer[c].stage = "waiting"}
      /\ OneSessionEach'
      /\ \A c \in Conns : peer'[c].inbox = peer[c].inbox
  <2>1. CASE UNCHANGED <<peer, sd>>
    BY <2>1 DEF IndInv, TypeOK, OneSessionEach, Used
  <2>2. CASE ~UNCHANGED <<peer, sd>>
    <3>1. Head(mailbox).kind = "work" /\ Purge(Head(mailbox).slot)
      BY <2>2 DEF TakeMessage, TakeFails, net
    <3>2. Head(mailbox) \in Messages
      BY <1>1 DEF IndInv, Queues
    <3>3. Head(mailbox).slot \in Slots
      BY <3>1, <3>2 DEF Messages, Work, Shutdown
    <3>4. sd[Head(mailbox).slot].fd # None /\ CloseSession(sd[Head(mailbox).slot].fd)
      BY <2>2, <3>1 DEF Purge
    <3>5. Head(mailbox).slot \in Used
      BY <3>3, <3>4 DEF Used
    <3> QED
      BY <3>4, <3>5, CloseKeepsTable DEF IndInv
  <2> QED
    BY <2>1, <2>2
<1>3. TypeOK'
  BY <1>1, <1>2 DEF IndInv, TypeOK
<1>4. mailbox' \in Seq(Messages)
  BY <1>1 DEF IndInv, Queues
<1>5. Queues'
  BY <1>1, <1>2, <1>4 DEF IndInv, Queues
<1> QED
  BY <1>2, <1>3, <1>5 DEF IndInv

\* Requests are taken from a session that stays.
LEMMA ServePreserves ==
  ASSUME IndInv, Parse \/ Served
  PROVE  IndInv'
<1> USE HttpServerAssumption
<1>1. UNCHANGED <<backlog, asked, transit, mailbox, ready, fd, main>>
  BY DEF Parse, Served, net, ctl
<1>2. pc \in {"request", "leftover"} /\ pc' \in {"leftover", "sessions"}
  BY DEF Parse, Served
<1>3. PICK s \in Used : sd[s].fd = fd
  BY <1>2 DEF IndInv, TypeOK
<1>4. s \in Slots /\ fd \in Conns /\ SlotOf(fd) = s
  BY <1>3, SlotOfSession DEF IndInv, TypeOK, Used
<1>5. CASE Parse
  <2>1. PICK behind \in BOOLEAN :
          /\ Unread(behind) <= peer[fd].inbox
          /\ peer' = [peer EXCEPT ![fd].inbox = @ - Unread(behind)]
          /\ sd' = [sd EXCEPT ![SlotOf(fd)].pending = behind]
    BY <1>5 DEF Parse
  <2>2. Unread(behind) \in {0, 1, 2}
    BY DEF Unread
  <2>3. peer[fd].inbox \in 0..MaxRequests /\ peer[fd].inbox <= asked
    BY <1>4 DEF IndInv, TypeOK, Queues
  <2>4. peer[fd].inbox - Unread(behind) \in 0..MaxRequests
    BY <2>1, <2>2, <2>3
  <2>5. peer' \in [Conns -> [stage : {"away", "waiting", "open", "closed"},
                             inbox : 0..MaxRequests, ended : BOOLEAN]]
    BY <2>1, <2>4, ZenonT(40) DEF IndInv, TypeOK
  <2>6. sd' \in [Slots -> [fd : Conns \cup {None}, lru : Nat, pending : BOOLEAN]]
    <3> DEFINE Session == [fd : Conns \cup {None}, lru : Nat, pending : BOOLEAN]
    <3>1. sd \in [Slots -> Session] /\ sd[s] \in Session
      BY <1>4 DEF IndInv, TypeOK
    <3>2. [sd[s] EXCEPT !.pending = behind] \in Session
      BY <3>1, Zenon
    <3> HIDE DEF Session
    <3>3. sd' = [sd EXCEPT ![s] = [sd[s] EXCEPT !.pending = behind]]
      BY <1>4, <2>1, Zenon
    <3>4. sd' \in [Slots -> Session]
      BY <1>4, <3>1, <3>2, <3>3
    <3> QED
      BY <3>4 DEF Session
  <2>7. \A t \in Slots : sd'[t].fd = sd[t].fd
    BY <2>1 DEF IndInv, TypeOK
  <2>8. \A c \in Conns : peer'[c].stage = peer[c].stage
    BY <2>1 DEF IndInv, TypeOK
  <2>9. \A c \in Conns : peer'[c].inbox <= asked
    BY <2>1, <2>2, <2>3 DEF IndInv, TypeOK, Queues
  <2>10. Used' = Used
    BY <2>7 DEF Used
  <2>11. OneSessionEach'
    BY <2>7, <2>8, <2>10 DEF IndInv, OneSessionEach, Used
  <2>12. remaining' \in BOOLEAN /\ UNCHANGED counter
    BY <1>5 DEF Parse, Announced
  <2>13. TypeOK'
    BY <1>1, <1>2, <1>3, <2>5, <2>6, <2>7, <2>8, <2>10, <2>12 DEF IndInv, TypeOK, Used
  <2>14. Queues'
    BY <1>1, <1>2, <2>9 DEF IndInv, Queues
  <2> QED
    BY <2>11, <2>13, <2>14 DEF IndInv
<1>6. CASE Served
  <2>1. sd' = [sd EXCEPT ![SlotOf(fd)].lru = counter] /\ counter' = counter + 1
        /\ UNCHANGED <<peer, remaining>> /\ pc' = "sessions"
    BY <1>6 DEF Served, net
  <2>2. sd' \in [Slots -> [fd : Conns \cup {None}, lru : Nat, pending : BOOLEAN]]
    <3> DEFINE Session == [fd : Conns \cup {None}, lru : Nat, pending : BOOLEAN]
    <3>1. sd \in [Slots -> Session] /\ sd[s] \in Session /\ counter \in Nat
      BY <1>4 DEF IndInv, TypeOK
    <3>2. [sd[s] EXCEPT !.lru = counter] \in Session
      BY <3>1, Zenon
    <3> HIDE DEF Session
    <3>3. sd' = [sd EXCEPT ![s] = [sd[s] EXCEPT !.lru = counter]]
      BY <1>4, <2>1, Zenon
    <3>4. sd' \in [Slots -> Session]
      BY <1>4, <3>1, <3>2, <3>3
    <3> QED
      BY <3>4 DEF Session
  <2>3. \A t \in Slots : sd'[t].fd = sd[t].fd
    BY <2>1 DEF IndInv, TypeOK
  <2>4. Used' = Used
    BY <2>3 DEF Used
  <2>5. OneSessionEach'
    BY <2>1, <2>3, <2>4 DEF IndInv, OneSessionEach, Used
  <2>6. TypeOK'
    BY <1>1, <2>1, <2>2 DEF IndInv, TypeOK
  <2>7. Queues'
    BY <1>1, <1>2, <2>1 DEF IndInv, Queues
  <2> QED
    BY <2>5, <2>6, <2>7 DEF IndInv
<1> QED
  BY <1>5, <1>6

\* A new connection gets the free slot and leaves the backlog.
LEMMA AcceptPreserves ==
  ASSUME IndInv, Accept
  PROVE  IndInv'
<1> USE HttpServerAssumption
<1> DEFINE s == Min(Slots \ Used)
<1> DEFINE c == Head(backlog)
<1> DEFINE new == [Free EXCEPT !.fd = c]
<1>1. s \in Slots /\ sd[s].fd = None
  BY FreeSlotFound DEF IndInv, Accept
<1>2. backlog # <<>> /\ backlog \in Seq(Conns)
  BY DEF Accept, IndInv, Queues
<1>3. c \in Conns /\ c \in Range(backlog)
  BY <1>2 DEF Range
<1>4. peer[c].stage = "waiting"
  BY <1>3 DEF IndInv, TypeOK
<1>5. /\ sd' = [sd EXCEPT ![s] = new]
      /\ peer' = [peer EXCEPT ![c].stage = "open"]
      /\ backlog' = Tail(backlog) /\ pc' = "select" /\ fd' = None /\ ready' = NoneReady
      /\ UNCHANGED <<asked, counter, transit, mailbox, remaining, main>>
  <2>1. /\ sd' = [sd EXCEPT ![s] = new]
        /\ peer' = [peer EXCEPT ![c].stage = "open"]
    BY Zenon DEF Accept, httpd_sess_new
  <2>2. backlog' = Tail(backlog) /\ pc' = "select" /\ fd' = None /\ ready' = NoneReady
    BY DEF Accept, Again
  <2>3. UNCHANGED <<asked, counter, transit, mailbox, remaining, main>>
    BY DEF Accept, ctl
  <2> QED
    BY <2>1, <2>2, <2>3, Zenon
<1> HIDE DEF s, c
<1>6. c \in Nat /\ c # None
  BY <1>3 DEF Conns, None
<1>a. new \in [fd : Conns \cup {None}, lru : Nat, pending : BOOLEAN] /\ new.fd = c
  BY <1>3 DEF Free
<1> HIDE DEF new
<1>7. sd' \in [Slots -> [fd : Conns \cup {None}, lru : Nat, pending : BOOLEAN]]
  BY <1>1, <1>5, <1>a DEF IndInv, TypeOK
<1>8. peer' \in [Conns -> [stage : {"away", "waiting", "open", "closed"},
                          inbox : 0..MaxRequests, ended : BOOLEAN]]
  BY <1>3, <1>5, ZenonT(40) DEF IndInv, TypeOK
<1>9. \A d \in Conns : /\ peer'[d].inbox = peer[d].inbox
                       /\ peer'[d].stage = IF d = c THEN "open" ELSE peer[d].stage
  BY <1>3, <1>5 DEF IndInv, TypeOK
<1>10. \A t \in Slots : sd'[t].fd = IF t = s THEN c ELSE sd[t].fd
  BY <1>1, <1>5, <1>a DEF IndInv, TypeOK
<1>11. OneSessionEach'
  <2>1. Used' = Used \cup {s}
    BY <1>1, <1>6, <1>10 DEF Used
  <2>2. \A t \in Used : sd[t].fd # c
    BY <1>4 DEF IndInv, OneSessionEach
  <2>3. \A t, u \in Used' : sd'[t].fd = sd'[u].fd => t = u
    BY <1>10, <2>1, <2>2 DEF IndInv, OneSessionEach, Used
  <2>4. {sd'[t].fd : t \in Used'} = {sd[t].fd : t \in Used} \cup {c}
    BY <1>1, <1>10, <2>1 DEF Used
  <2>5. {d \in Conns : peer'[d].stage = "open"} = {d \in Conns : peer[d].stage = "open"} \cup {c}
    BY <1>3, <1>9
  <2> QED
    BY <2>3, <2>4, <2>5 DEF IndInv, OneSessionEach
<1>12. IsInjective(backlog') /\ Range(backlog') = {d \in Conns : peer'[d].stage = "waiting"}
  <2>1. IsInjective(backlog) /\ Range(backlog) = {d \in Conns : peer[d].stage = "waiting"}
    BY DEF IndInv, TypeOK
  <2>2. /\ Len(backlog) \in Nat \ {0} /\ DOMAIN backlog = 1..Len(backlog)
        /\ DOMAIN backlog' = 1..(Len(backlog) - 1)
        /\ \A i \in DOMAIN backlog' : backlog'[i] = backlog[i + 1]
        /\ c = backlog[1]
    BY <1>2, <1>5 DEF c
  <2>3. IsInjective(backlog')
    BY <2>1, <2>2 DEF IsInjective
  <2>4. Range(backlog') = Range(backlog) \ {c}
    <3>1. Range(backlog') \subseteq Range(backlog) \ {c}
      BY <2>1, <2>2 DEF IsInjective, Range
    <3>2. ASSUME NEW d \in Range(backlog) \ {c} PROVE d \in Range(backlog')
      <4>1. PICK i \in DOMAIN backlog : backlog[i] = d
        BY <3>2 DEF Range
      <4>2. i - 1 \in DOMAIN backlog' /\ backlog'[i - 1] = d
        BY <2>2, <3>2, <4>1
      <4> QED
        BY <4>2 DEF Range
    <3> QED
      BY <3>1, <3>2
  <2>5. {d \in Conns : peer'[d].stage = "waiting"} = {d \in Conns : peer[d].stage = "waiting"} \ {c}
    BY <1>9
  <2> QED
    BY <2>1, <2>3, <2>4, <2>5
<1>13. ready' \in [ctrl : BOOLEAN, listen : BOOLEAN, fds : SUBSET Conns] /\ ~ready'.listen
  BY <1>5 DEF NoneReady
<1>14. TypeOK'
  BY <1>5, <1>7, <1>8, <1>12, <1>13 DEF IndInv, TypeOK
<1>15. Queues'
  BY <1>2, <1>5, <1>9, <1>13 DEF IndInv, Queues
<1> QED
  BY <1>11, <1>14, <1>15 DEF IndInv

\* The end of the task closes all there is.
LEMMA ExitPreserves ==
  ASSUME IndInv, Exit
  PROVE  IndInv'
<1> USE HttpServerAssumption
<1>1. /\ sd' = [s \in Slots |-> [sd[s] EXCEPT !.fd = None]]
      /\ backlog' = <<>> /\ transit' = <<>> /\ mailbox' = <<>> /\ pc' = "stopped"
      /\ UNCHANGED <<asked, counter, ready, fd, remaining, main>>
  BY DEF Exit
<1>2. sd' \in [Slots -> [fd : Conns \cup {None}, lru : Nat, pending : BOOLEAN]]
  BY <1>1, ZenonT(40) DEF IndInv, TypeOK
<1>3. peer' \in [Conns -> [stage : {"away", "waiting", "open", "closed"},
                          inbox : 0..MaxRequests, ended : BOOLEAN]]
  <2> DEFINE Peer == [stage : {"away", "waiting", "open", "closed"},
                      inbox : 0..MaxRequests, ended : BOOLEAN]
  <2>1. \A c \in Conns : peer[c] \in Peer
    BY DEF IndInv, TypeOK
  <2>2. ASSUME NEW c \in Conns PROVE [peer[c] EXCEPT !.stage = "closed"] \in Peer
    BY <2>1
  <2> HIDE DEF Peer
  <2>3. peer' \in [Conns -> Peer]
    BY <2>1, <2>2 DEF Exit
  <2> QED
    BY <2>3 DEF Peer
<1>4. \A c \in Conns : peer'[c].inbox = peer[c].inbox /\ peer'[c].stage \notin {"waiting", "open"}
  BY DEF Exit, IndInv, TypeOK
<1>5. Used' = {}
  BY <1>1 DEF IndInv, TypeOK, Used
<1>6. OneSessionEach'
  BY <1>4, <1>5 DEF OneSessionEach
<1>7. IsInjective(backlog') /\ Range(backlog') = {c \in Conns : peer'[c].stage = "waiting"}
  BY <1>1, <1>4 DEF IsInjective, Range
<1>8. TypeOK'
  BY <1>1, <1>2, <1>3, <1>7 DEF IndInv, TypeOK
<1>9. \A c \in Conns : peer'[c].inbox <= asked'
  BY <1>1, <1>4 DEF IndInv, Queues
<1>10. Queues'
  BY <1>1, <1>9 DEF Queues
<1> QED
  BY <1>6, <1>8, <1>10 DEF IndInv

\* What the peers do reaches the backlog and the sockets, not the table.
LEMMA PeersPreserve ==
  ASSUME IndInv, Peers
  PROVE  IndInv'
<1> USE HttpServerAssumption
<1>1. CASE SendBody
  <2>1. UNCHANGED <<peer, backlog, asked, sd, counter, transit, mailbox, pc, ready, fd, main>>
        /\ remaining' = FALSE
    BY <1>1 DEF SendBody, net, ctl
  <2>2. TypeOK'
    BY <2>1 DEF IndInv, TypeOK, Used
  <2>3. OneSessionEach'
    BY <2>1 DEF IndInv, OneSessionEach, Used
  <2>4. Queues'
    BY <2>1 DEF IndInv, Queues
  <2> QED
    BY <2>2, <2>3, <2>4 DEF IndInv
<1>2. ASSUME NEW c \in Conns, Connect(c) PROVE IndInv'
  <2>1. /\ peer[c].stage = "away"
        /\ peer' = [peer EXCEPT ![c].stage = "waiting"] /\ backlog' = Append(backlog, c)
        /\ UNCHANGED <<asked, sd, counter, transit, mailbox, pc, ready, fd, remaining, main>>
    BY <1>2 DEF Connect, ctl, loop
  <2>2. peer' \in [Conns -> [stage : {"away", "waiting", "open", "closed"},
                            inbox : 0..MaxRequests, ended : BOOLEAN]]
    BY <2>1 DEF IndInv, TypeOK
  <2>3. \A d \in Conns : /\ peer'[d].inbox = peer[d].inbox
                         /\ peer'[d].stage = IF d = c THEN "waiting" ELSE peer[d].stage
    BY <2>1 DEF IndInv, TypeOK
  <2>4. backlog \in Seq(Conns) /\ IsInjective(backlog)
        /\ Range(backlog) = {d \in Conns : peer[d].stage = "waiting"}
    BY DEF IndInv, TypeOK, Queues
  <2>5. /\ Len(backlog) \in Nat /\ DOMAIN backlog = 1..Len(backlog)
        /\ DOMAIN backlog' = 1..(Len(backlog) + 1)
        /\ backlog' \in Seq(Conns) /\ backlog' # <<>>
        /\ \A i \in DOMAIN backlog' : backlog'[i] = IF i = Len(backlog) + 1 THEN c ELSE backlog[i]
    BY <2>1, <2>4
  <2>6. c \notin Range(backlog)
    BY <2>1, <2>4
  <2>7. IsInjective(backlog')
    BY <2>4, <2>5, <2>6 DEF IsInjective, Range
  <2>8. Range(backlog') = Range(backlog) \cup {c}
    <3>1. Range(backlog') \subseteq Range(backlog) \cup {c}
      BY <2>5 DEF Range
    <3>2. Range(backlog) \subseteq Range(backlog')
      BY <2>5 DEF Range
    <3>3. c \in Range(backlog')
      BY <2>5 DEF Range
    <3> QED
      BY <3>1, <3>2, <3>3
  <2>9. {d \in Conns : peer'[d].stage = "waiting"} = {d \in Conns : peer[d].stage = "waiting"} \cup {c}
    BY <2>3
  <2>10. TypeOK'
    BY <2>1, <2>2, <2>4, <2>7, <2>8, <2>9 DEF IndInv, TypeOK, Used
  <2>11. OneSessionEach'
    BY <2>1, <2>3 DEF IndInv, OneSessionEach, Used
  <2>12. Queues'
    BY <2>1, <2>3, <2>5 DEF IndInv, Queues
  <2> QED
    BY <2>10, <2>11, <2>12 DEF IndInv
<1>3. ASSUME NEW c \in Conns, Ask(c) PROVE IndInv'
  <2>1. /\ asked < MaxRequests /\ asked' = asked + 1
        /\ peer' = [peer EXCEPT ![c].inbox = @ + 1]
        /\ UNCHANGED <<backlog, sd, counter, transit, mailbox, pc, ready, fd, remaining, main>>
    BY <1>3 DEF Ask, ctl, loop
  <2>2. /\ asked \in 0..MaxRequests
        /\ \A d \in Conns : peer[d].inbox \in 0..MaxRequests /\ peer[d].inbox <= asked
    BY DEF IndInv, TypeOK, Queues
  <2>3. asked' \in 0..MaxRequests /\ peer[c].inbox + 1 \in 0..MaxRequests
    BY <2>1, <2>2
  <2>4. peer' \in [Conns -> [stage : {"away", "waiting", "open", "closed"},
                            inbox : 0..MaxRequests, ended : BOOLEAN]]
    BY <2>1, <2>3 DEF IndInv, TypeOK
  <2>5. \A d \in Conns : /\ peer'[d].stage = peer[d].stage
                         /\ peer'[d].inbox = IF d = c THEN peer[d].inbox + 1 ELSE peer[d].inbox
    BY <2>1 DEF IndInv, TypeOK
  <2>6. \A d \in Conns : peer'[d].inbox <= asked'
    BY <2>1, <2>2, <2>5
  <2>7. TypeOK'
    BY <2>1, <2>3, <2>4, <2>5 DEF IndInv, TypeOK, Used
  <2>8. OneSessionEach'
    BY <2>1, <2>5 DEF IndInv, OneSessionEach, Used
  <2>9. Queues'
    BY <2>1, <2>6 DEF IndInv, Queues
  <2> QED
    BY <2>7, <2>8, <2>9 DEF IndInv
<1>4. ASSUME NEW c \in Conns, Leave(c) PROVE IndInv'
  <2>1. /\ peer' = [peer EXCEPT ![c].ended = TRUE]
        /\ UNCHANGED <<backlog, asked, sd, counter, transit, mailbox, pc, ready, fd, remaining, main>>
    BY <1>4 DEF Leave, ctl, loop
  <2>2. peer' \in [Conns -> [stage : {"away", "waiting", "open", "closed"},
                            inbox : 0..MaxRequests, ended : BOOLEAN]]
    BY <2>1, ZenonT(40) DEF IndInv, TypeOK
  <2>3. \A d \in Conns : peer'[d].stage = peer[d].stage /\ peer'[d].inbox = peer[d].inbox
    BY <2>1 DEF IndInv, TypeOK
  <2>4. TypeOK'
    BY <2>1, <2>2, <2>3 DEF IndInv, TypeOK, Used
  <2>5. OneSessionEach'
    BY <2>1, <2>3 DEF IndInv, OneSessionEach, Used
  <2>6. Queues'
    BY <2>1, <2>3 DEF IndInv, Queues
  <2> QED
    BY <2>4, <2>5, <2>6 DEF IndInv
<1> QED
  BY <1>1, <1>2, <1>3, <1>4 DEF Peers

\* Datagrams and the two calls that stop the server change the queues alone.
LEMMA ControlPreserves ==
  ASSUME IndInv, Arrive \/ Stop \/ Delete
  PROVE  IndInv'
<1>1. UNCHANGED <<peer, backlog, asked, sd, counter, pc, ready, fd, remaining>>
  BY DEF Arrive, Stop, Delete, net, loop
<1>2. transit' \in Seq(Messages) /\ mailbox' \in Seq(Messages) /\ (mailbox # <<>> => mailbox' # <<>>)
  <2>1. transit \in Seq(Messages) /\ mailbox \in Seq(Messages)
    BY DEF IndInv, Queues
  <2>2. CASE Arrive
    <3>1. Head(transit) \in Messages /\ transit' \in Seq(Messages)
      BY <2>1, <2>2 DEF Arrive
    <3>2. mailbox' \in {mailbox, Append(mailbox, Head(transit))}
      BY <2>2 DEF Arrive
    <3> QED
      BY <2>1, <3>1, <3>2, SMTT(30)
  <2>3. CASE Stop
    BY <2>1, <2>3 DEF Stop, Messages
  <2>4. CASE Delete
    BY <2>1, <2>4 DEF Delete, ctl
  <2> QED
    BY <2>2, <2>3, <2>4
<1>3. main' \in {"running", "stopping", "down"}
  BY DEF Arrive, Stop, Delete, IndInv, TypeOK
<1>4. TypeOK'
  BY <1>1, <1>3 DEF IndInv, TypeOK, Used
<1>5. OneSessionEach'
  BY <1>1 DEF IndInv, OneSessionEach, Used
<1>6. Queues'
  BY <1>1, <1>2 DEF IndInv, Queues
<1> QED
  BY <1>4, <1>5, <1>6 DEF IndInv

\* Every step keeps the invariant.
LEMMA NextPreserves == IndInv /\ [Next]_vars => IndInv'
<1> SUFFICES ASSUME IndInv, [Next]_vars PROVE IndInv'
  OBVIOUS
<1>1. CASE UNCHANGED vars
  BY <1>1 DEF vars, net, ctl, loop, IndInv, TypeOK, OneSessionEach, Used, Queues
<1>2. CASE Next
  BY <1>1, <1>2, NoneInvalid, WalkPreserves, DropPreserves, TakePreserves, ServePreserves, AcceptPreserves,
     ExitPreserves, PeersPreserve, ControlPreserves DEF Next, Server
<1> QED
  BY <1>1, <1>2

\* The inductive invariant holds in every reachable state, for any number of
\* connections, places and requests, any backlog and any loss of datagrams.
THEOREM Invariance == Spec => []IndInv
<1>1. Init => IndInv
  BY InitEstablishes
<1>2. IndInv /\ [Next]_vars => IndInv'
  BY NextPreserves
<1> QED
  BY <1>1, <1>2, PTL DEF Spec

\* Every variable has its type, and the server works on a session it has.
THEOREM TypeCorrect == Spec => []TypeOK
<1>1. IndInv => TypeOK
  BY DEF IndInv
<1> QED
  BY <1>1, Invariance, PTL

\* The table and the sockets agree: an accepted connection has one session until
\* its socket is closed, by whichever of the ways of closing it.
THEOREM SessionsMatchSockets == Spec => []OneSessionEach
<1>1. IndInv => OneSessionEach
  BY DEF IndInv
<1> QED
  BY <1>1, Invariance, PTL

\* A message that asks for a purge is on its way only while the task waits for it.
LEMMA NoPurgeElsewhere ==
  ASSUME PurgeInv, pc \notin {"select", "ctrl", "exit"}
  PROVE  Purges(transit) = {} /\ Purges(mailbox) = {}
BY DEF PurgeInv

\* Each step keeps the second invariant: prompt datagrams are taken before
\* anything else is.
LEMMA NextKeepsPurge ==
  ASSUME Prompt, IndInv, PurgeInv, [Next]_vars
  PROVE  PurgeInv'
<1>1. ASSUME UNCHANGED <<transit, mailbox, sd, pc>> PROVE PurgeInv'
  BY <1>1 DEF PurgeInv, Purges, IsLru, Used
<1>2. ASSUME pc \notin {"select", "ctrl", "exit"}, UNCHANGED <<transit, mailbox>> PROVE PurgeInv'
  <2>1. Purges(transit)' = {} /\ Purges(mailbox)' = {}
    BY <1>2, NoPurgeElsewhere DEF Purges
  <2> QED
    BY <2>1 DEF PurgeInv
<1>3. transit \in Seq(Messages) /\ mailbox \in Seq(Messages)
  BY DEF IndInv, Queues
<1>4. CASE Select
  <2>1. transit = <<>> /\ UNCHANGED <<transit, mailbox, sd>> /\ pc = "select"
        /\ pc' = IF mailbox # <<>> THEN "ctrl" ELSE "sessions"
    BY <1>4 DEF Select, ctl
  <2>2. Purges(transit) = {} /\ Purges(mailbox)' = Purges(mailbox) /\ Purges(transit)' = {}
    BY <2>1 DEF Purges
  <2>3. mailbox = <<>> => Purges(mailbox) = {}
    BY DEF Purges
  <2>4. \A i \in Purges(mailbox) : IsLru(mailbox[i].slot)'
    BY <2>1 DEF PurgeInv, IsLru, Used
  <2>5. \A i \in Purges(mailbox)' :
          pc' \in {"select", "ctrl", "exit"} /\ (pc' # "exit" => IsLru(mailbox[i].slot)')
    BY <2>1, <2>2, <2>3, <2>4
  <2> QED
    BY <2>1, <2>2, <2>5 DEF PurgeInv
<1>5. CASE TakeMessage
  <2>1. /\ pc = "ctrl" /\ mailbox # <<>> /\ mailbox' = Tail(mailbox) /\ transit' = transit
        /\ Head(mailbox).kind # "work" => pc' = "exit"
    BY <1>5 DEF TakeMessage, IndInv, Queues
  <2>2. Purges(transit)' = {}
    BY <2>1 DEF PurgeInv, Purges
  <2>3. /\ DOMAIN mailbox' = 1..(Len(mailbox) - 1) /\ DOMAIN mailbox = 1..Len(mailbox)
        /\ Len(mailbox) \in Nat \ {0}
        /\ \A i \in DOMAIN mailbox' : mailbox'[i] = mailbox[i + 1]
        /\ Head(mailbox) = mailbox[1]
    BY <1>3, <2>1
  <2>4. \A i \in Purges(mailbox)' : i + 1 \in Purges(mailbox) /\ i \in Nat \ {0}
    BY <2>3 DEF Purges
  <2>5. CASE Head(mailbox).kind = "work"
    <3>1. 1 \in Purges(mailbox)
      BY <2>3, <2>5 DEF Purges
    <3>2. \A i \in Purges(mailbox) : i = 1
      BY <3>1 DEF PurgeInv
    <3>3. ASSUME NEW i \in Purges(mailbox)' PROVE FALSE
      BY <2>4, <3>2, <3>3
    <3>4. Purges(mailbox)' = {}
      BY <3>3
    <3> QED
      BY <2>2, <3>4 DEF PurgeInv
  <2>6. CASE Head(mailbox).kind # "work"
    <3>1. pc' = "exit"
      BY <2>1, <2>6
    <3>2. ASSUME NEW i \in Purges(mailbox)', NEW j \in Purges(mailbox)' PROVE i = j
      <4>1. i + 1 = j + 1
        BY <2>4, <3>2 DEF PurgeInv
      <4> QED
        BY <2>4, <4>1
    <3> QED
      BY <2>2, <3>1, <3>2 DEF PurgeInv
  <2> QED
    BY <2>5, <2>6
<1>14. ASSUME TakeFails PROVE Purges(mailbox)' = {}
  <2>1. pc = "ctrl" /\ mailbox # <<>> /\ mailbox' = Tail(mailbox) /\ Head(mailbox).kind = "work"
    BY <1>14 DEF TakeFails, IndInv, Queues
  <2>2. /\ DOMAIN mailbox' = 1..(Len(mailbox) - 1) /\ DOMAIN mailbox = 1..Len(mailbox)
        /\ Len(mailbox) \in Nat \ {0}
        /\ \A i \in DOMAIN mailbox' : mailbox'[i] = mailbox[i + 1]
        /\ Head(mailbox) = mailbox[1]
    BY <1>3, <2>1
  <2>3. \A i \in Purges(mailbox)' : i + 1 \in Purges(mailbox) /\ i \in Nat \ {0}
    BY <2>2 DEF Purges
  <2>4. 1 \in Purges(mailbox)
    BY <2>1, <2>2 DEF Purges
  <2>5. \A i \in Purges(mailbox) : i = 1
    BY <2>4 DEF PurgeInv
  <2>6. ASSUME NEW i \in Purges(mailbox)' PROVE FALSE
    BY <2>3, <2>5, <2>6
  <2> QED
    BY <2>6
<1>15. CASE TakeFails
  <2>1. Purges(transit)' = {}
    BY <1>15 DEF TakeFails, PurgeInv, Purges
  <2> QED
    BY <1>14, <1>15, <2>1 DEF PurgeInv
<1>16. CASE SelectFails
  BY <1>1, <1>16, NoneInvalid DEF vars, ctl, loop
<1>6. CASE NextSession \/ LastSession \/ AcceptFails \/ Parse \/ Served
  BY <1>2, <1>6 DEF NextSession, LastSession, AcceptFails, Parse, Served, ctl
<1>7. CASE Hangup \/ Refuse \/ BodyFails
  BY <1>2, <1>7 DEF Hangup, Refuse, BodyFails, DropSession, ctl
<1>8. CASE Accept
  BY <1>2, <1>8 DEF Accept, ctl
<1>9. CASE CloseLru
  <2>1. /\ pc = "accept" /\ Used = Slots /\ pc' = "select"
        /\ transit' = Append(transit, Work(LruSlot)) /\ UNCHANGED <<mailbox, sd>>
    BY <1>9 DEF CloseLru, Again, httpd_is_sess_available, Used
  <2>2. Purges(transit) = {} /\ Purges(mailbox) = {}
    BY <2>1, NoPurgeElsewhere
  <2>3. /\ DOMAIN transit = 1..Len(transit) /\ Len(transit) \in Nat
        /\ DOMAIN transit' = 1..(Len(transit) + 1)
        /\ \A i \in DOMAIN transit : transit'[i] = transit[i]
        /\ transit'[Len(transit) + 1] = Work(LruSlot)
    BY <1>3, <2>1, VictimIsLru DEF IndInv, Messages
  <2>4. \A i \in Purges(transit)' : i = Len(transit) + 1
    BY <2>2, <2>3 DEF Purges
  <2>5. \A i \in Purges(transit)' : transit'[i].slot = LruSlot
    BY <2>3, <2>4 DEF Work
  <2>6. IsLru(LruSlot) /\ IsLru(LruSlot)'
    BY <2>1, VictimIsLru DEF IndInv, IsLru, Used, LruSlot
  <2>7. Purges(mailbox)' = {}
    BY <2>1, <2>2 DEF Purges
  <2>8. Used' = Slots /\ \A t \in Slots : sd'[LruSlot].lru <= sd'[t].lru
    BY <2>1, VictimIsLru DEF IndInv, Used
  <2>9. \A i \in Purges(transit)' : IsLru(transit[i].slot)'
    BY <2>5, <2>8 DEF IsLru
  <2> QED
    BY <2>1, <2>4, <2>7, <2>9 DEF PurgeInv
<1>10. CASE Exit
  <2>1. Purges(transit)' = {} /\ Purges(mailbox)' = {}
    BY <1>10 DEF Exit, Purges
  <2> QED
    BY <2>1 DEF PurgeInv
<1>11. CASE Peers \/ Delete \/ UNCHANGED vars
  BY <1>1, <1>11 DEF Peers, SendBody, Connect, Ask, Leave, Delete, vars, ctl, loop
<1>12. CASE Arrive
  <2>1. /\ transit # <<>> /\ transit' = Tail(transit) /\ UNCHANGED <<sd, pc>>
        /\ mailbox' = mailbox \/ mailbox' = Append(mailbox, Head(transit))
    BY <1>12 DEF Arrive, loop
  <2>2. /\ DOMAIN transit' = 1..(Len(transit) - 1) /\ DOMAIN transit = 1..Len(transit)
        /\ Len(transit) \in Nat \ {0}
        /\ \A i \in DOMAIN transit' : transit'[i] = transit[i + 1]
        /\ Head(transit) = transit[1] /\ Head(transit) \in Messages
    BY <1>3, <2>1
  <2>3. \A i \in Purges(transit)' :
          i + 1 \in Purges(transit) /\ i \in Nat \ {0} /\ transit'[i] = transit[i + 1]
    BY <2>2 DEF Purges
  <2>4. \A s : IsLru(s)' = IsLru(s)
    BY <2>1 DEF IsLru, Used
  <2>5. CASE Head(transit).kind = "work"
    <3>1. 1 \in Purges(transit)
      BY <2>2, <2>5 DEF Purges
    <3>2. /\ \A i \in Purges(transit) : i = 1
          /\ pc = "select" /\ Purges(mailbox) = {} /\ IsLru(Head(transit).slot)
      BY <2>2, <3>1 DEF PurgeInv
    <3>3. ASSUME NEW i \in Purges(transit)' PROVE FALSE
      BY <2>3, <3>2, <3>3
    <3>4. ASSUME NEW i \in Purges(mailbox)' PROVE i = Len(mailbox) + 1 /\ mailbox'[i] = Head(transit)
      BY <1>3, <2>1, <2>2, <3>2, <3>4 DEF Purges
    <3>5. \A i \in Purges(mailbox)' : IsLru(mailbox[i].slot)'
      BY <2>1, <3>2, <3>4 DEF IsLru, Used
    <3> QED
      BY <2>1, <3>2, <3>3, <3>4, <3>5 DEF PurgeInv
  <2>6. CASE Head(transit).kind # "work"
    <3>1. ASSUME NEW i \in Purges(mailbox)' PROVE i \in Purges(mailbox) /\ mailbox'[i] = mailbox[i]
      BY <1>3, <2>1, <2>2, <2>6, <3>1, SMTT(30) DEF Purges
    <3>2. \A i \in Purges(transit)' :
            pc' = "select" /\ Purges(mailbox) = {} /\ IsLru(transit[i].slot)'
      BY <2>1, <2>3 DEF PurgeInv, IsLru, Used
    <3>3. \A i \in Purges(transit)' : Purges(mailbox)' = {}
      BY <3>1, <3>2
    <3>4. \A i, j \in Purges(transit)' : i + 1 = j + 1
      BY <2>3 DEF PurgeInv
    <3>5. \A i, j \in Purges(transit)' : i = j
      BY <2>3, <3>4
    <3>6. \A i \in Purges(mailbox)' :
            pc' \in {"select", "ctrl", "exit"} /\ (pc' # "exit" => IsLru(mailbox[i].slot)')
      BY <2>1, <3>1 DEF PurgeInv, IsLru, Used
    <3>7. \A i, j \in Purges(mailbox)' : i = j
      BY <3>1 DEF PurgeInv
    <3> QED
      BY <3>2, <3>3, <3>5, <3>6, <3>7 DEF PurgeInv
  <2> QED
    BY <2>5, <2>6
<1>13. CASE Stop
  <2>1. transit' = Append(transit, Shutdown) /\ UNCHANGED <<sd, pc, mailbox>>
    BY <1>13 DEF Stop, loop
  <2>2. ASSUME NEW i \in Purges(transit)' PROVE i \in Purges(transit) /\ transit'[i] = transit[i]
    BY <1>3, <2>1, <2>2 DEF Purges, Shutdown, Messages
  <2>3. Purges(mailbox)' = Purges(mailbox)
    BY <2>1 DEF Purges
  <2>4. \A i \in Purges(transit)' : pc' = "select" /\ Purges(mailbox)' = {} /\ IsLru(transit[i].slot)'
    BY <2>1, <2>2, <2>3 DEF PurgeInv, IsLru, Used
  <2>5. \A i \in Purges(mailbox)' :
          pc' \in {"select", "ctrl", "exit"} /\ (pc' # "exit" => IsLru(mailbox[i].slot)')
    BY <2>1, <2>3 DEF PurgeInv, IsLru, Used
  <2>6. \A i, j \in Purges(transit)' : i = j
    BY <2>2 DEF PurgeInv
  <2>7. \A i, j \in Purges(mailbox)' : i = j
    BY <2>3 DEF PurgeInv
  <2> QED
    BY <2>4, <2>5, <2>6, <2>7 DEF PurgeInv
<1> QED
  BY <1>4, <1>5, <1>6, <1>7, <1>8, <1>9, <1>10, <1>11, <1>12, <1>13,
     <1>15, <1>16 DEF Next, Server

\* A step at the control message closes no session but the victim.
LEMMA StepPurgesLru ==
  ASSUME IndInv, PurgeInv, [Next]_vars, NEW s \in Used, pc = "ctrl", sd'[s].fd = None
  PROVE  Used = Slots /\ \A t \in Slots : sd[s].lru <= sd[t].lru
<1>1. sd[s].fd # None
  BY DEF Used
<1>2. sd' # sd
  BY <1>1
<1>12. ~SelectFails
  BY <1>2, NoneInvalid DEF vars
<1>3. TakeMessage
  BY <1>2, <1>12 DEF Next, Server, Select, TakeFails, NextSession, LastSession, Parse, Hangup,
              Refuse, Served, BodyFails, Accept, CloseLru, AcceptFails, Exit, Peers, SendBody, Connect, Ask,
              Leave, Arrive, Stop, Delete, vars
<1>4. Head(mailbox).kind = "work" /\ Purge(Head(mailbox).slot)
  BY <1>2, <1>3 DEF TakeMessage
<1>5. mailbox # <<>> /\ mailbox \in Seq(Messages)
  BY DEF IndInv, Queues
<1>6. /\ 1 \in Purges(mailbox) /\ mailbox[1] = Head(mailbox)
      /\ Head(mailbox) \in Messages
  BY <1>4, <1>5 DEF Purges
<1>7. IsLru(Head(mailbox).slot)
  BY <1>6 DEF PurgeInv
<1>8. Head(mailbox).slot \in Slots
  BY <1>4, <1>6 DEF Messages, Work, Shutdown
<1>9. sd[Head(mailbox).slot].fd # None /\ CloseSession(sd[Head(mailbox).slot].fd)
  BY <1>2, <1>4 DEF Purge
<1>10. sd' = [sd EXCEPT ![Head(mailbox).slot].fd = None]
  BY <1>8, <1>9, CloseKeepsTable DEF IndInv, Used
<1>11. s = Head(mailbox).slot
  BY <1>1, <1>10 DEF IndInv, TypeOK, Used
<1> QED
  BY <1>7, <1>11 DEF IsLru

\* Where datagrams arrive before the next select(), however many sessions,
\* connections and messages there are: a purge closes the least recently used
\* session of a full table, although its victim was chosen a message earlier.
THEOREM PurgeCorrect == Prompt => (Spec => PurgesLru)
<1> SUFFICES ASSUME Prompt PROVE Spec => PurgesLru
  OBVIOUS
<1>1. Init => PurgeInv
  BY DEF Init, PurgeInv, Purges
<1>2. IndInv /\ PurgeInv /\ [Next]_vars => PurgeInv'
  BY NextKeepsPurge
<1>3. IndInv /\ PurgeInv /\ [Next]_vars
        => [\A s \in Used : pc = "ctrl" /\ sd'[s].fd = None
              => Used = Slots /\ \A t \in Slots : sd[s].lru <= sd[t].lru]_vars
  BY StepPurgesLru
<1> QED
  BY <1>1, <1>2, <1>3, Invariance, PTL DEF Spec, PurgesLru
=============================================================================
