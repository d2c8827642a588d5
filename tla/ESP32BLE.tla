------------------------------ MODULE ESP32BLE ------------------------------
(***************************************************************************)
(* The BLE client layer: the registry ESP32BLE (esp32_ble.cpp) and the     *)
(* client object ESP32BLEClient (esp32_ble_client.cpp and                  *)
(* esp32_ble_client_state.cpp), between                                    *)
(*                                                                         *)
(*   - the main task, which acquires a client, calls its methods one after *)
(*     the other in any order and finally deletes it, and                  *)
(*   - the Bluetooth callback task ("BTC"), which looks an event's client  *)
(*     up in the registry, drops the registry's lock, and only then runs   *)
(*     the client's handler under the client's lock.                       *)
(*                                                                         *)
(* The vendor's Bluetooth stack is not part of the repository: it is the   *)
(* environment, a queue of requests, a queue of events, and the            *)
(* interfaces it hands out with the link each of them has.                 *)
(***************************************************************************)
EXTENDS Naturals, Sequences, FiniteSets

CONSTANTS
  Clients,       \* heap addresses an ESP32BLEClient can be allocated at
  Ifs,           \* gattc_if numbers the stack hands out
  BadIf,         \* the gattc_if a failed registration is reported with
  MAX_CLIENTS,   \* the limit acquire() compares gattc_ifs.size() with
  MaxAppId,      \* app_ids in use never exceed this (bound)
  Calls,         \* the client methods the main task uses
  MaxCalls,      \* methods called on one client (bound)
  MaxPending,    \* requests and events in the stack when a method is called (bound)
  MaxEvents,     \* events the stack holds when it adds a notification (bound)
  MaxNotes,      \* notifications a client keeps (bound)
  Timeouts,      \* events that may come later than timeout_ms
  Refused,       \* requests whose API call may return an error
  Failing,       \* events that may report a status other than ESP_GATT_OK
  Null           \* no client, no interface, no event

\* The requests the stack answers with one event each, by that event's name.
LinkRequests == {"CFG_MTU", "SEARCH_CMPL", "WRITE_CHAR", "WRITE_DESCR",
                 "REG_FOR_NOTIFY", "UNREG_FOR_NOTIFY"}
Requests == {"REG", "OPEN", "CLOSE", "UNREG"} \union LinkRequests
Events   == Requests \union {"SEARCH_RES", "NOTIFY"}
AppIds   == 1..MaxAppId
AllIfs   == Ifs \union {BadIf}

\* (Mutant of Script: a destructor that does not unregister its interface.)
ScriptKeepsIf ==
  [connect           |-> <<"REG", "OPEN", "CFG_MTU", "unlock">>,
   disconnect        |-> <<"CLOSE", "UNREG", "unlock">>,
   request_services  |-> <<"SEARCH_CMPL", "unlock">>,
   write             |-> <<"WRITE_CHAR", "unlock">>,
   write_notify_desc |-> <<"WRITE_DESCR", "unlock">>,
   register_notify   |-> <<"REG_FOR_NOTIFY", "unlock">>,
   unregister_notify |-> <<"UNREG_FOR_NOTIFY", "unlock">>,
   delete            |-> <<"CLOSE", "unlock", "release", "free">>]

\* Each method as the requests it makes one after the other.  A method of one
\* lock scope ends with "unlock"; the destructor goes on after disconnect().
Script ==
  [connect           |-> <<"REG", "OPEN", "CFG_MTU", "unlock">>,
   disconnect        |-> <<"CLOSE", "UNREG", "unlock">>,
   request_services  |-> <<"SEARCH_CMPL", "unlock">>,
   write             |-> <<"WRITE_CHAR", "unlock">>,
   write_notify_desc |-> <<"WRITE_DESCR", "unlock">>,
   register_notify   |-> <<"REG_FOR_NOTIFY", "unlock">>,
   unregister_notify |-> <<"UNREG_FOR_NOTIFY", "unlock">>,
   delete            |-> <<"CLOSE", "UNREG", "unlock", "release", "free">>]

ASSUME ESP32BLEAssumption ==
  /\ IsFiniteSet(Clients) /\ IsFiniteSet(Ifs)
  /\ BadIf \notin Ifs
  /\ Null \notin Clients /\ Null \notin Ifs \union {BadIf} /\ Null \notin Requests
  /\ Null \notin Nat
  /\ MAX_CLIENTS \in Nat \ {0} /\ MaxAppId \in Nat \ {0}
  /\ MaxCalls \in Nat /\ MaxPending \in Nat /\ MaxEvents \in Nat /\ MaxNotes \in Nat
  /\ Calls \subseteq (DOMAIN Script \ {"delete"})
  /\ Timeouts \subseteq Requests /\ Refused \subseteq Requests
  /\ Failing \subseteq Requests

VARIABLES
  \* the registry, ESP32BLE
  initialized,   \* ble_setup() succeeded
  appIds,        \* app_ids; an absent entry and a null one are the same here
  gattcIfs,      \* gattc_ifs; Null: no entry
  nextAppId,     \* next_app_id
  \* the client the main task owns, and the main task inside its methods
  me,            \* the pointer acquire() returned, until it is deleted
  cl,            \* the members of *me
  hook,          \* the event whose handler is wait_for_event's lambda
  lock,          \* the main task holds the client's mutex
  todo,          \* what is left of the method being executed
  phase,         \* "run", or inside wait_for_event: "wait", "leave"
  done, result,  \* wait_for_event's flags the lambda captures
  calls,         \* methods called on this client so far
  \* the callback task
  btc,           \* the event being delivered and the client it was looked up for
  crashed,       \* it ran into a deleted client
  \* the Bluetooth stack
  reqs,          \* requests not executed yet
  evq,           \* events not delivered yet
  ifs            \* per interface: its link and the client that registered it

registry == <<initialized, appIds, gattcIfs, nextAppId>>
main     == <<me, lock, todo, phase, calls>>
wait     == <<hook, done, result>>
stack    == <<reqs, evq, ifs>>
vars == <<registry, main, wait, cl, btc, crashed, stack>>

NewClient(a) == [app_id |-> a, state |-> "Idle", gattc_if |-> Null,
                 conn_id |-> Null, services |-> FALSE, notifications |-> 0]
NoClient == NewClient(1)

FreeIf == [used |-> FALSE, open |-> FALSE, owner |-> Null]

\* The entries of gattc_ifs; acquire() counts them.
Held == {g \in AllIfs : gattcIfs[g] # Null}

\* app_ids[a], which creates a null entry when there is none.
AppClient(a) == IF a \in AppIds THEN appIds[a] ELSE Null

-----------------------------------------------------------------------------
(* The environment: what the vendor's stack accepts and reports.           *)

Request(ev, g) == [ev |-> ev, if |-> g, app |-> 0, owner |-> Null]
Event(ev, g, app, ok) == [ev |-> ev, if |-> g, app |-> app, ok |-> ok,
                          owner |-> ifs[g].owner]
Outcomes(ev) == IF ev \in Failing THEN BOOLEAN ELSE {TRUE}

\* The stack registers an application: it hands out a free interface, or
\* reports a failure.
StackRegister ==
  /\ reqs # <<>> /\ Head(reqs).ev = "REG"
  /\ LET r == Head(reqs) IN
       \/ \E g \in Ifs :
            /\ ~ifs[g].used
            /\ ifs' = [ifs EXCEPT ![g] = [used |-> TRUE, open |-> FALSE, owner |-> r.owner]]
            /\ evq' = Append(evq, [ev |-> "REG", if |-> g, app |-> r.app, ok |-> TRUE,
                                   owner |-> r.owner])
       \/ /\ FALSE \in Outcomes("REG") \/ \A g \in Ifs : ifs[g].used
          /\ ifs' = ifs
          /\ evq' = Append(evq, [ev |-> "REG", if |-> BadIf, app |-> r.app, ok |-> FALSE,
                                 owner |-> r.owner])
  /\ reqs' = Tail(reqs)
  /\ UNCHANGED <<registry, main, wait, cl, btc, crashed>>

\* The stack opens a link for an interface that has none.
StackOpen ==
  /\ reqs # <<>> /\ Head(reqs).ev = "OPEN"
  /\ LET g == Head(reqs).if IN
       \E ok \in BOOLEAN :
         /\ ok => ifs[g].used /\ ~ifs[g].open
         /\ ~ok => "OPEN" \in Failing \/ ~ifs[g].used \/ ifs[g].open
         /\ ifs' = [ifs EXCEPT ![g].open = @ \/ ok]
         /\ evq' = IF ifs[g].used THEN Append(evq, Event("OPEN", g, 0, ok)) ELSE evq
  /\ reqs' = Tail(reqs)
  /\ UNCHANGED <<registry, main, wait, cl, btc, crashed>>

\* The stack answers a request that needs a link; without one it fails.  A
\* search reports the services it found before it completes.
StackAnswer ==
  /\ reqs # <<>> /\ Head(reqs).ev \in LinkRequests
  /\ LET r == Head(reqs) IN
       \E ok \in BOOLEAN :
         /\ ok => ifs[r.if].open
         /\ ~ok => r.ev \in Failing \/ ~ifs[r.if].open
         /\ evq' = CASE ~ifs[r.if].used -> evq
                     [] ifs[r.if].used /\ ok /\ r.ev = "SEARCH_CMPL" ->
                          evq \o <<Event("SEARCH_RES", r.if, 0, TRUE),
                                   Event(r.ev, r.if, 0, TRUE)>>
                     [] OTHER -> Append(evq, Event(r.ev, r.if, 0, ok))
  /\ reqs' = Tail(reqs)
  /\ UNCHANGED <<registry, main, wait, cl, btc, crashed, ifs>>

\* A later request to close the link or to give up the interface cancels what
\* the interface is still waiting for, which is then never answered.
StackCancel ==
  /\ reqs # <<>> /\ Head(reqs).ev \in LinkRequests \union {"OPEN"}
  /\ \E i \in DOMAIN reqs : reqs[i].ev \in {"CLOSE", "UNREG"} /\ reqs[i].if = Head(reqs).if
  /\ reqs' = Tail(reqs)
  /\ UNCHANGED <<registry, main, wait, cl, btc, crashed, evq, ifs>>

\* What is reported when an interface has a link no more.
Closing(g) == IF ifs[g].open THEN {<<Event("CLOSE", g, 0, ok)>> : ok \in Outcomes("CLOSE")}
              ELSE {<<>>}

StackClose ==
  /\ reqs # <<>> /\ Head(reqs).ev = "CLOSE"
  /\ LET g == Head(reqs).if IN
       /\ ifs' = [ifs EXCEPT ![g].open = FALSE]
       /\ \E closed \in Closing(g) : evq' = evq \o closed
  /\ reqs' = Tail(reqs)
  /\ UNCHANGED <<registry, main, wait, cl, btc, crashed>>

StackUnregister ==
  /\ reqs # <<>> /\ Head(reqs).ev = "UNREG"
  /\ LET g == Head(reqs).if IN
       /\ ifs' = [ifs EXCEPT ![g] = FreeIf]
       /\ \E closed \in Closing(g) :
            evq' = evq \o closed
                       \o (IF ifs[g].used THEN <<Event("UNREG", g, 0, TRUE)>> ELSE <<>>)
  /\ reqs' = Tail(reqs)
  /\ UNCHANGED <<registry, main, wait, cl, btc, crashed>>

\* The device closes the link.
PeerDrop(g) ==
  /\ ifs[g].open
  /\ ifs' = [ifs EXCEPT ![g].open = FALSE]
  /\ \E closed \in Closing(g) : evq' = evq \o closed
  /\ UNCHANGED <<registry, main, wait, cl, btc, crashed, reqs>>

\* The device sends a notification.
PeerNotify(g) ==
  /\ ifs[g].open /\ Len(evq) < MaxEvents
  /\ evq' = Append(evq, Event("NOTIFY", g, 0, TRUE))
  /\ UNCHANGED <<registry, main, wait, cl, btc, crashed, reqs, ifs>>

-----------------------------------------------------------------------------
(* The callback task.                                                      *)

\* With no client, an interface that got connected is closed and one that
\* lost or missed its connection is given up.
Cleanup(e) ==
  IF e.ev = "OPEN" /\ e.ok THEN <<Request("CLOSE", e.if)>>
  ELSE IF e.ev \in {"OPEN", "CLOSE"} THEN <<Request("UNREG", e.if)>>
  ELSE <<>>

\* ESP32BLE::client_event_handler: update gattc_ifs and find the client under
\* the registry's lock; the pointer is used after the lock is released.  Both
\* maps insert a default entry for a key they do not have.
\* Cleanup's requests, made behind the lock, are in the same step: with one client
\* at a time nothing can tell.  The interface has its entry until its UNREG, so that
\* nobody is acquired before; what else the main task does in between it might do
\* before the lookup, too, as it touches neither map; and requests wait anyway.
Pick ==
  /\ btc = Null /\ evq # <<>>
  /\ LET e      == Head(evq)
         known  == [gattcIfs EXCEPT ![e.if] = IF e.ev = "REG" THEN e.app
                                              ELSE IF @ = Null THEN 0 ELSE @]
         client == AppClient(known[e.if])
     IN /\ gattcIfs' = [known EXCEPT ![e.if] = IF e.ev = "UNREG" THEN Null ELSE @]
        /\ btc' = IF client = Null THEN Null
                  ELSE [ev |-> e.ev, if |-> e.if, ok |-> e.ok, owner |-> e.owner,
                        client |-> client]
        /\ reqs' = reqs \o (IF client = Null THEN Cleanup(e) ELSE <<>>)
        /\ evq' = Tail(evq)
  /\ UNCHANGED <<initialized, appIds, nextAppId, main, wait, cl, crashed, ifs>>

\* The default handlers, installed by the constructor.
\* (Mutants: no handler for CLOSE, or one that does not unset conn_id.)
DefaultIgnoresClose(c, e) ==
  CASE e.ev = "SEARCH_RES" -> [c EXCEPT !.services = TRUE]
    [] e.ev = "NOTIFY" ->
         [c EXCEPT !.notifications = IF @ < MaxNotes THEN @ + 1 ELSE @]
    [] OTHER -> c
DefaultZeroesConn(c, e) ==
  IF e.ev = "CLOSE" THEN [c EXCEPT !.state = "Registered", !.conn_id = 0] ELSE c
DefaultHandled(c, e) ==
  CASE e.ev = "CLOSE" -> [c EXCEPT !.state = "Registered", !.conn_id = Null]
    [] e.ev = "SEARCH_RES" -> [c EXCEPT !.services = TRUE]
    [] e.ev = "NOTIFY" ->
         [c EXCEPT !.notifications = IF @ < MaxNotes THEN @ + 1 ELSE @]
    [] OTHER -> c

\* What the event's handler does to the client: the lambda of the waiting
\* method if one is installed, else the default one.
Handled(c, e) ==
  CASE e.ev = "REG" /\ hook = "REG" /\ e.ok -> [c EXCEPT !.state = "Registered"]
    [] e.ev = "OPEN" /\ hook = "OPEN" /\ e.ok ->
         [c EXCEPT !.state = "Ready", !.conn_id = e.if]
    [] e.ev = "CLOSE" /\ hook = "CLOSE" ->
         IF e.ok THEN [c EXCEPT !.state = "Registered", !.conn_id = Null,
                                !.services = FALSE]
         ELSE c
    [] e.ev = "UNREG" /\ hook = "UNREG" ->
         [c EXCEPT !.state = "Idle", !.gattc_if = Null]
    [] hook # e.ev -> DefaultHandled(c, e)
    [] OTHER -> c

\* ESP32BLEClient::client_event_handler, when the client still exists.
Dispatch ==
  /\ btc # Null /\ btc.client = me /\ ~lock
  /\ cl' = Handled([cl EXCEPT !.gattc_if = btc.if], btc)
  /\ IF hook = btc.ev THEN done' = TRUE /\ result' = btc.ok
                      ELSE UNCHANGED <<done, result>>
  /\ btc' = Null
  /\ UNCHANGED <<registry, main, hook, crashed, stack>>

\* The same handler on memory that was freed.
DispatchFreed ==
  /\ btc # Null /\ btc.client # me
  /\ crashed' = TRUE
  /\ btc' = Null
  /\ UNCHANGED <<registry, main, wait, cl, stack>>

-----------------------------------------------------------------------------
(* The main task.                                                          *)

\* acquire()'s limit.
\* (Mutant: one client too many.)
RoomForOneMore == Cardinality(Held) <= MAX_CLIENTS
Room == Cardinality(Held) < MAX_CLIENTS

\* ESP32BLE::acquire returns a client under the first free app_id ...
Acquire ==
  /\ me = Null /\ initialized /\ Room
  /\ \E a \in AppIds, c \in Clients :
       /\ a >= nextAppId /\ appIds[a] = Null
       /\ \A b \in AppIds : nextAppId <= b /\ b < a => appIds[b] # Null
       /\ nextAppId' = a
       /\ appIds' = [appIds EXCEPT ![a] = c]
       /\ cl' = NewClient(a)
       /\ me' = c
  /\ calls' = 0
  /\ UNCHANGED <<initialized, gattcIfs, lock, todo, phase, wait, btc, crashed, stack>>

\* ... or nullptr, and the caller tries again later.
AcquireNothing ==
  /\ me = Null
  /\ ~initialized \/ ~Room
  /\ UNCHANGED vars

\* The main task calls a method, which takes the client's lock.
Call(m) ==
  /\ me # Null /\ todo = <<>>
  /\ m # "delete" => calls < MaxCalls /\ Len(reqs) + Len(evq) < MaxPending
  /\ todo' = Script[m]
  /\ lock' = TRUE
  /\ calls' = IF m = "delete" THEN calls ELSE calls + 1
  /\ UNCHANGED <<registry, me, phase, wait, cl, btc, crashed, stack>>

\* A method's request is made in one state of the client only; Connected and
\* Ready are the same number.
Needs(ev) == CASE ev = "REG" -> "Idle"
               [] ev \in {"OPEN", "UNREG"} -> "Registered"
               [] OTHER -> "Ready"

Running(steps) == /\ todo # <<>> /\ phase = "run" /\ lock
                  /\ Head(todo) \in steps

\* The request is not made: the client is in another state, request_services
\* already has its services and is not forced, or write_notify_desc finds no
\* descriptor.
Skip ==
  /\ Running(Requests)
  /\ \/ cl.state # Needs(Head(todo))
     \/ Head(todo) = "SEARCH_CMPL" /\ cl.services
     \/ Head(todo) = "WRITE_DESCR"
  /\ todo' = Tail(todo)
  /\ UNCHANGED <<registry, me, lock, phase, calls, wait, cl, btc, crashed, stack>>

\* What a method clears before and after its API call.
Cleared(ev, accepted) ==
  CASE ev = "OPEN" /\ accepted -> [cl EXCEPT !.services = FALSE, !.notifications = 0]
    [] ev = "CLOSE" -> [cl EXCEPT !.notifications = 0]
    [] ev = "SEARCH_CMPL" -> [cl EXCEPT !.services = FALSE]
    [] OTHER -> cl

\* What the API call names: the interface, or the connection.
Target(ev) ==
  IF ev \in {"OPEN", "UNREG", "REG_FOR_NOTIFY", "UNREG_FOR_NOTIFY"} THEN cl.gattc_if
  ELSE cl.conn_id

\* The API call returns an error.
Refuse ==
  /\ Running(Refused) /\ cl.state = Needs(Head(todo))
  /\ cl' = Cleared(Head(todo), FALSE)
  /\ todo' = Tail(todo)
  /\ UNCHANGED <<registry, me, lock, phase, calls, wait, btc, crashed, stack>>

\* The API call is accepted and wait_for_event installs its lambda and gives
\* the lock.
Ask ==
  /\ Running(Requests)
  /\ LET ev == Head(todo) IN
       /\ cl.state = Needs(ev)
       /\ cl' = Cleared(ev, TRUE)
       /\ reqs' = Append(reqs,
            IF ev = "REG" THEN [ev |-> "REG", if |-> Null, app |-> cl.app_id, owner |-> me]
            ELSE Request(ev, Target(ev)))
       /\ hook' = ev
  /\ done' = FALSE /\ result' = FALSE
  /\ phase' = "wait" /\ lock' = FALSE
  /\ UNCHANGED <<registry, me, todo, calls, btc, crashed, evq, ifs>>

\* The stack still holds the request or its answer.
Coming(ev) == \/ \E i \in DOMAIN reqs : reqs[i].ev = ev
              \/ \E i \in DOMAIN evq : evq[i].ev = ev
              \/ btc # Null /\ btc.ev = ev

\* wait_for_event's loop ends: the lambda has run, or the time is over, which
\* it is when no answer comes any more.
\* (Mutant: it does not wait.)
NoWait == TRUE
WaitOver == done \/ hook \in Timeouts \/ ~Coming(hook)

Wake ==
  /\ phase = "wait" /\ WaitOver
  /\ phase' = "leave"
  /\ UNCHANGED <<registry, me, lock, todo, calls, wait, cl, btc, crashed, stack>>

\* (Mutants: the handler is not put back; a failed request is made again.)
LeaveHooked ==
  /\ phase = "leave"
  /\ lock' = TRUE /\ phase' = "run"
  /\ todo' = Tail(todo)
  /\ UNCHANGED <<registry, me, calls, wait, cl, btc, crashed, stack>>

LeaveRetries ==
  /\ phase = "leave"
  /\ lock' = TRUE /\ phase' = "run" /\ hook' = Null
  /\ todo' = IF done /\ ~result THEN todo ELSE Tail(todo)
  /\ UNCHANGED <<registry, me, calls, done, result, cl, btc, crashed, stack>>

\* wait_for_event takes the lock again and puts the previous handler back.
Leave ==
  /\ phase = "leave"
  /\ lock' = TRUE /\ phase' = "run" /\ hook' = Null
  /\ todo' = Tail(todo)
  /\ UNCHANGED <<registry, me, calls, done, result, cl, btc, crashed, stack>>

\* The lock's scope ends.
Unlock ==
  /\ Running({"unlock"})
  /\ lock' = FALSE /\ todo' = Tail(todo)
  /\ UNCHANGED <<registry, me, phase, calls, wait, cl, btc, crashed, stack>>

\* (Mutant: the entry stays.)
ReleaseNothing ==
  /\ todo # <<>> /\ Head(todo) = "release"
  /\ todo' = Tail(todo)
  /\ UNCHANGED <<registry, me, lock, phase, calls, wait, cl, btc, crashed, stack>>

\* The destructor: ESP32BLE::release erases the first entry of the client.
Release ==
  /\ todo # <<>> /\ Head(todo) = "release"
  /\ \/ \E a \in AppIds :
          /\ appIds[a] = me /\ \A b \in AppIds : b < a => appIds[b] # me
          /\ appIds' = [appIds EXCEPT ![a] = Null]
     \/ (\A a \in AppIds : appIds[a] # me) /\ appIds' = appIds
  /\ todo' = Tail(todo)
  /\ UNCHANGED <<initialized, gattcIfs, nextAppId, me, lock, phase, calls, wait,
                 cl, btc, crashed, stack>>

\* The destructor: the mutex and the members are gone.
Free ==
  /\ todo # <<>> /\ Head(todo) = "free"
  /\ me' = Null /\ cl' = NoClient /\ calls' = 0
  /\ done' = FALSE /\ result' = FALSE
  /\ todo' = Tail(todo)
  /\ UNCHANGED <<registry, lock, phase, hook, btc, crashed, stack>>

\* wait_for_notifications: what arrived before the time was over, which may be
\* nothing, is returned and cleared.
TakeNotifications ==
  /\ me # Null /\ todo = <<>> /\ calls < MaxCalls
  /\ cl' = [cl EXCEPT !.notifications = 0]
  /\ calls' = calls + 1
  /\ UNCHANGED <<registry, me, lock, todo, phase, wait, btc, crashed, stack>>

-----------------------------------------------------------------------------
Init ==
  /\ initialized \in BOOLEAN
  /\ appIds = [a \in AppIds |-> Null] /\ gattcIfs = [g \in AllIfs |-> Null]
  /\ nextAppId = 1
  /\ me = Null /\ cl = NoClient /\ calls = 0
  /\ lock = FALSE /\ todo = <<>> /\ phase = "run"
  /\ hook = Null /\ done = FALSE /\ result = FALSE
  /\ btc = Null /\ crashed = FALSE
  /\ reqs = <<>> /\ evq = <<>> /\ ifs = [g \in AllIfs |-> FreeIf]

MainStep == Skip \/ Refuse \/ Ask \/ Wake \/ Leave \/ Unlock \/ Release \/ Free
CallbackStep == Pick \/ Dispatch \/ DispatchFreed
StackStep == StackRegister \/ StackOpen \/ StackAnswer \/ StackCancel
             \/ StackClose \/ StackUnregister
PeerStep == \E g \in Ifs : PeerDrop(g) \/ PeerNotify(g)

\* The panic handler restarts the chip.
Reboot ==
  /\ crashed
  /\ initialized' \in BOOLEAN
  /\ appIds' = [a \in AppIds |-> Null] /\ gattcIfs' = [g \in AllIfs |-> Null]
  /\ nextAppId' = 1
  /\ me' = Null /\ cl' = NoClient /\ calls' = 0
  /\ lock' = FALSE /\ todo' = <<>> /\ phase' = "run"
  /\ hook' = Null /\ done' = FALSE /\ result' = FALSE
  /\ btc' = Null /\ crashed' = FALSE
  /\ reqs' = <<>> /\ evq' = <<>> /\ ifs' = [g \in AllIfs |-> FreeIf]

Next ==
  \/ /\ ~crashed
     /\ \/ Acquire \/ AcquireNothing
        \/ \E m \in Calls \union {"delete"} : Call(m)
        \/ TakeNotifications
        \/ MainStep \/ CallbackStep \/ StackStep \/ PeerStep
  \/ Reboot

Spec == Init /\ [][Next]_vars

\* The main task keeps running and deletes its client some day, the callback
\* task is scheduled, the stack executes what it was asked, and a panic restarts
\* the chip.  Nothing is assumed of the device.
Fairness ==
  /\ WF_vars(~crashed /\ MainStep)
  /\ WF_vars(~crashed /\ Call("delete"))
  /\ WF_vars(~crashed /\ CallbackStep)
  /\ WF_vars(~crashed /\ StackStep)
  /\ WF_vars(Reboot)

FairSpec == Spec /\ Fairness

-----------------------------------------------------------------------------
(* Properties.                                                             *)

ClientType == [app_id : AppIds, state : {"Idle", "Registered", "Ready"},
               gattc_if : AllIfs \union {Null}, conn_id : AllIfs \union {Null},
               services : BOOLEAN, notifications : 0..MaxNotes]
RequestType ==
  [ev : {"REG"}, if : {Null}, app : AppIds, owner : Clients]
    \union [ev : Requests \ {"REG"}, if : AllIfs, app : {0}, owner : {Null}]
EventType == [ev : Events, if : AllIfs, app : AppIds \union {0}, ok : BOOLEAN,
              owner : Clients \union {Null}]
DeliveryType == [ev : Events, if : AllIfs, ok : BOOLEAN,
                 owner : Clients \union {Null}, client : Clients]

\* No event is "no event".
ASSUME NullAssumption == Null \notin DeliveryType

Steps == Requests \union {"unlock", "release", "free"}

\* What is left of a method: the ends of the scripts.
Remainders ==
  {<<>>, <<"unlock">>,
   <<"REG", "OPEN", "CFG_MTU", "unlock">>, <<"OPEN", "CFG_MTU", "unlock">>,
   <<"CLOSE", "UNREG", "unlock">>, <<"UNREG", "unlock">>,
   <<"CLOSE", "UNREG", "unlock", "release", "free">>,
   <<"UNREG", "unlock", "release", "free">>, <<"unlock", "release", "free">>,
   <<"release", "free">>, <<"free">>}
  \union {<<ev, "unlock">> : ev \in LinkRequests}

\* Every variable has its type.
TypeOK ==
  /\ initialized \in BOOLEAN
  /\ appIds \in [AppIds -> Clients \union {Null}]
  /\ gattcIfs \in [AllIfs -> AppIds \union {0, Null}]
  /\ nextAppId \in AppIds
  /\ me \in Clients \union {Null} /\ cl \in ClientType
  /\ hook \in Requests \union {Null}
  /\ lock \in BOOLEAN /\ todo \in Remainders /\ phase \in {"run", "wait", "leave"}
  /\ done \in BOOLEAN /\ result \in BOOLEAN /\ calls \in 0..MaxCalls
  /\ btc \in DeliveryType \union {Null} /\ crashed \in BOOLEAN
  /\ reqs \in Seq(RequestType) /\ evq \in Seq(EventType)
  /\ ifs \in [AllIfs -> [used : BOOLEAN, open : BOOLEAN, owner : Clients \union {Null}]]

\* release() has run and the client's memory is about to go.
Released == todo # <<>> /\ Head(todo) = "free"

\* app_ids holds exactly the client that exists, under the app_id it registers
\* with, from acquire() to release(): no entry dangles between the two halves
\* of the destructor, and no late registration event brings one back.
RegistryOwnsClient ==
  \A a \in AppIds :
    appIds[a] = IF me # Null /\ ~Released /\ a = cl.app_id THEN me ELSE Null

\* A lambda of wait_for_event, which captures two variables of that call's
\* stack frame, is installed only while that very call is waiting: not after it
\* timed out and returned, not during the next request, not in a new client.
HookFramed ==
  /\ hook # Null <=> phase \in {"wait", "leave"}
  /\ hook # Null => me # Null /\ todo # <<>> /\ Head(todo) = hook /\ ~lock

\* The lock is held exactly while a method runs in it, and an optional member
\* is only read where it was set.
MainShape ==
  /\ todo = <<>> => ~lock /\ phase = "run"
  /\ todo # <<>> => me # Null
  /\ todo # <<>> /\ phase = "run" => (lock <=> Head(todo) \notin {"release", "free"})
  /\ cl.state # "Idle" => cl.gattc_if # Null
  /\ cl.state = "Ready" => cl.conn_id # Null

\* The inductive invariant of the theorems in ESP32BLEProofs.
IndInv == TypeOK /\ MainShape /\ HookFramed /\ RegistryOwnsClient

\* The callback task never holds a pointer to a client that was deleted after
\* it had left the registry's lock (esp32_ble.cpp:168 to :201).
NoUseAfterFree == ~crashed /\ (btc # Null => btc.client = me)

\* A client only sees events of an interface it registered itself, although
\* app_id 1 and the interface numbers are used again by the next client.
EventsReachTheirOwner == btc # Null => btc.owner = btc.client

\* "wait till we really free gattc_ifs" (esp32_ble.cpp:117) and what it is for:
\* when acquire() lets the next client in, nothing of the previous one is left in
\* the stack or on its way.
FreeSlotIsQuiet ==
  me = Null /\ Held = {} =>
    reqs = <<>> /\ evq = <<>> /\ btc = Null /\ \A g \in AllIfs : ~ifs[g].used

Reported(ev, g) ==
  \/ \E i \in DOMAIN evq : evq[i].ev = ev /\ evq[i].if = g
  \/ btc # Null /\ btc.ev = ev /\ btc.if = g

\* A client that believes to be Ready has the connection id of its own
\* interface, and that link is open or its end is being reported: write() and
\* close never use a connection of another or of no session.
ReadyHasLink ==
  cl.state = "Ready" =>
    /\ cl.conn_id # Null /\ cl.conn_id = cl.gattc_if
    /\ ifs[cl.conn_id].open \/ Reported("CLOSE", cl.conn_id)

\* An answer that is in time is the answer to the request being waited for: there
\* is no other of its kind, however late the answers of other kinds are (the
\* events carry nothing to tell them apart).  Only CLOSE also comes unasked, when
\* the device drops the link.
InFlight(ev) ==
  Cardinality({i \in DOMAIN reqs : reqs[i].ev = ev})
  + Cardinality({i \in DOMAIN evq : evq[i].ev = ev})
  + (IF btc # Null /\ btc.ev = ev THEN 1 ELSE 0)
OwnAnswer(ev) == InFlight(ev) <= IF hook = ev /\ ~done THEN 1 ELSE 0
AnswersAreOwn == \A ev \in Requests \ ({"CLOSE"} \union Timeouts) : OwnAnswer(ev)

\* A session comes to its end: no method and no destructor hangs.
SessionEnds == me # Null ~> me = Null

\* The slot is freed again and again, so acquire() does not refuse for ever.
SlotFreed == []<>(Held = {})

\* What the callers of acquire() rely on, with one client at a time: a slot that
\* is free, owned by a client, or still draining after it, and that is always
\* free again.
SlotState == IF me # Null THEN "Owned" ELSE IF Held = {} THEN "Free" ELSE "Draining"
Slot == INSTANCE BLESlot WITH slot <- SlotState
ImplementsSlot == Slot!Spec

=============================================================================
