----------------------------- MODULE EQ3Climate -----------------------------
(***************************************************************************)
(* A thermostat, EQ3Climate (eq3.cpp, eq3_cmd.cpp): control() and update() *)
(* are turned into sessions with the device, each of them a BLE client     *)
(* acquired, connected, used for a few commands and deleted, and into      *)
(* named items of the scheduler that retry a session or parse what the     *)
(* device notified.                                                        *)
(*                                                                         *)
(* Everything runs in the main task, where a session blocks the scheduler; *)
(* the device applies commands, notifies and drops the link in between.    *)
(* The BLE slot is shared with other components and is BLESlot's.          *)
(***************************************************************************)
EXTENDS Naturals, SequencesExt

CONSTANTS
  Settings,   \* what a ClimateCall can set, in the order it is sent
  Requests,   \* the sets of fields the calls set (bound)
  Week,       \* the days that have a schedule, EQ3_FirstDay first
  Tries,      \* how often control_retry and update_retry try
  MaxVersion  \* calls of control() in a behaviour (bound)

Fields == ToSet(Settings)
Days   == ToSet(Week)

ASSUME EQ3ClimateAssumption ==
  /\ Settings \in Seq(STRING) /\ Week \in Seq(STRING) /\ Week # <<>>
  /\ Fields \cap (Days \union {"id", "query", ""}) = {}
  /\ Days \cap {"id", "query", ""} = {}
  /\ Requests \subseteq SUBSET Fields
  /\ Tries \in Nat \ {0} /\ MaxVersion \in Nat

VARIABLES
  slot,       \* the BLE slot; "Owned" while this component has a client
  link,       \* the client is Ready
  device,     \* per field: the call whose command the thermostat applied last
  notes,      \* notifications of this session, arrived or on their way
  items,      \* the scheduler's items of this component
  jobs,       \* the session being executed and the rest of update()
  step,       \* where with_connection is
  todo,       \* commands the handler has not come to yet
  sent,       \* the handler sent one (its calls > 0)
  success,    \* with_connection's result
  version,    \* number of calls of control()
  requested,  \* the fields each of them sets
  climate,    \* what is published: per field, the call it stems from
  valve,      \* the valve sensor has a value
  lastId, lastDays,
  attempted   \* (history) the last call a session was started for

session == <<step, todo, sent, success>>
radio   == <<slot, link, device, notes>>
known   == <<climate, valve, lastId, lastDays>>
vars == <<radio, items, jobs, session, version, requested, known, attempted>>

Slot == INSTANCE BLESlot

Versions  == 0..MaxVersion
Snapshots == [Fields -> Versions]
Unset     == [f \in Fields |-> 0]

\* Items of the scheduler: a retry, or a parse of what the device notified.
Item(name, day, call, tries, at) ==
  [name |-> name, day |-> day, call |-> call, tries |-> tries, at |-> at]
Retry(name, call, tries) == Item(name, "", call, tries, Unset)

\* set_timeout and defer replace the item of the same name.
\* (Mutants: the items have no name, and so none can be cancelled.)
WithoutNone(set, name, day) == set
Without(set, name, day) == {i \in set : ~(i.name = name /\ i.day = day)}
ScheduledUnnamed(set, new) == set \union new
Scheduled(set, new) ==
  {i \in set : \A j \in new : i \in Without(set, j.name, j.day)} \union new

Job(kind, call, tries) == [kind |-> kind, call |-> call, tries |-> tries]

-----------------------------------------------------------------------------
(* What starts sessions; the main task is in none.                         *)

Idle == jobs = <<>>

Start(queue) ==
  /\ jobs' = queue /\ step' = "acquire"
  /\ todo' = <<>> /\ sent' = FALSE /\ success' = FALSE

\* control: the call is deferred, in place of an earlier one or its retry.
\* (Mutant of Control: the order of cancel_timeout and defer is swapped.)
ControlCancelled(fields) ==
  /\ Idle /\ version < MaxVersion
  /\ version' = version + 1
  /\ requested' = [requested EXCEPT ![version + 1] = fields]
  /\ items' = Without(items, "control_retry", "")
  /\ UNCHANGED <<radio, jobs, session, known, attempted>>
Control(fields) ==
  /\ Idle /\ version < MaxVersion
  /\ version' = version + 1
  /\ requested' = [requested EXCEPT ![version + 1] = fields]
  /\ items' = Scheduled(Without(items, "control_retry", ""),
                        {Retry("control_retry", version + 1, Tries)})
  /\ UNCHANGED <<radio, jobs, session, known, attempted>>

\* update: what is not known yet, and the state.
Update ==
  /\ Idle
  /\ items' = Without(items, "update_retry", "")
  /\ Start((IF lastId THEN <<>> ELSE <<Job("id", 0, 1)>>)
           \o (IF Head(Week) \in lastDays THEN <<>> ELSE <<Job("schedule", 0, 1)>>)
           \o <<Job("state", 0, Tries)>>)
  /\ UNCHANGED <<radio, version, requested, known, attempted>>

\* A retry's time has come.
RunRetry(name) ==
  /\ Idle
  /\ \E i \in items :
       /\ i.name = name
       /\ items' = items \ {i}
       /\ Start(<<Job(IF name = "control_retry" THEN "control" ELSE "state",
                      i.call, i.tries)>>)
       /\ attempted' = IF name = "control_retry" THEN i.call ELSE attempted
  /\ UNCHANGED <<radio, version, requested, known>>

\* parse_state, parse_id, parse_schedule; data of a wrong size, or for a day that
\* there is not, is dropped.
RunParse ==
  /\ Idle
  /\ \E i \in items :
       /\ items' = items \ {i}
       /\ \/ /\ i.name = "parse_notify"
             /\ climate' = i.at /\ valve' = TRUE
             /\ UNCHANGED <<lastId, lastDays>>
          \/ /\ i.name = "parse_id"
             /\ lastId' = TRUE
             /\ UNCHANGED <<climate, valve, lastDays>>
          \/ /\ i.name = "parse_schedule"
             /\ lastDays' = lastDays \union {i.day}
             /\ UNCHANGED <<climate, valve, lastId>>
          \/ /\ i.name \in {"parse_notify", "parse_id", "parse_schedule"}
             /\ UNCHANGED known
  /\ UNCHANGED <<radio, jobs, session, version, requested, attempted>>

-----------------------------------------------------------------------------
(* with_connection                                                         *)

At(place) == jobs # <<>> /\ step = place
Current == Head(jobs)

\* The commands a session's handler may send, in their order, and those it does.
Commands ==
  CASE Current.kind = "id" -> <<"id">>
    [] Current.kind = "state" -> <<"query">>
    [] Current.kind = "schedule" -> Week
    [] Current.kind = "control" -> Settings
Wanted(command) ==
  /\ Current.kind = "schedule" => command \notin lastDays
  /\ Current.kind = "control" => command \in requested[Current.call]

\* connect: acquire() returns a client, or nullptr.
AcquireClient ==
  /\ At("acquire")
  /\ IF slot = "Free" THEN Slot!Acquire /\ step' = "connect"
                      ELSE slot' = slot /\ step' = "finish"
  /\ UNCHANGED <<link, device, notes, items, jobs, todo, sent, success,
                 version, requested, known, attempted>>

\* connect: the link is open, the services and the notifications are set up.
Connected ==
  /\ At("connect")
  /\ link' = TRUE /\ todo' = Commands /\ step' = "handler"
  /\ UNCHANGED <<slot, device, notes, items, jobs, sent, success, version,
                 requested, known, attempted>>

\* connect: one of these fails, and the local pointer deletes the client.
\* (Mutant: it does not.)
ConnectLeaks ==
  /\ At("connect") /\ step' = "finish"
  /\ UNCHANGED <<radio, items, jobs, todo, sent, success, version, requested, known,
                 attempted>>
ConnectFails ==
  /\ At("connect") /\ step' = "finish"
  /\ Slot!Delete
  /\ UNCHANGED <<link, device, notes, items, jobs, todo, sent, success, version,
                 requested, known, attempted>>

\* send_command: the thermostat applies the command, answers and will notify;
\* the answer or the whole command can be lost.
Send ==
  /\ At("handler") /\ todo # <<>> /\ Wanted(Head(todo))
  /\ \E applied, answered \in BOOLEAN :
       /\ answered => applied
       /\ applied => link
       /\ device' = IF applied /\ Current.kind = "control"
                    THEN [device EXCEPT ![Head(todo)] = Current.call] ELSE device
       /\ notes' = IF applied THEN Append(notes, [of |-> Head(todo), at |-> device'])
                  ELSE notes
       /\ sent' = (sent \/ answered)
  /\ todo' = Tail(todo)
  /\ UNCHANGED <<slot, link, items, jobs, step, success, version, requested,
                 known, attempted>>

\* The call does not set this, or this day is known.
Skip ==
  /\ At("handler") /\ todo # <<>> /\ ~Wanted(Head(todo))
  /\ todo' = Tail(todo)
  /\ UNCHANGED <<radio, items, jobs, step, sent, success, version, requested, known,
                 attempted>>

\* The handler returns calls > 0; control_retry's asks for the state first
\* when no command got through, or there was none.
HandlerDone ==
  /\ At("handler") /\ todo = <<>>
  /\ IF sent THEN step' = "notify" /\ todo' = todo
     ELSE IF Current.kind = "control" THEN step' = "query" /\ todo' = <<"query">>
     ELSE step' = "disconnect" /\ todo' = todo
  /\ UNCHANGED <<radio, items, jobs, sent, success, version, requested, known, attempted>>

QueryState ==
  /\ At("query")
  /\ \E applied, answered \in BOOLEAN :
       /\ answered => applied
       /\ applied => link
       /\ notes' = IF applied THEN Append(notes, [of |-> "query", at |-> device]) ELSE notes
       /\ sent' = answered
       /\ step' = IF answered THEN "notify" ELSE "disconnect"
  /\ todo' = <<>>
  /\ UNCHANGED <<slot, link, device, items, jobs, success, version, requested,
                 known, attempted>>

\* parse_client_notify defers one parse by kind (and day); of a set of
\* notifications the latest stays.
ParseItem(note) ==
  IF note.of = "id" THEN Item("parse_id", "", 0, 0, Unset)
  ELSE IF note.of \in Days THEN Item("parse_schedule", note.of, 0, 0, Unset)
  ELSE Item("parse_notify", "", 0, 0, note.at)
Latest(deferred) ==
  {k \in deferred : \A l \in deferred : LET i == ParseItem(notes[k])
                                             j == ParseItem(notes[l])
                                         IN  k < l => i.name # j.name \/ i.day # j.day}

\* wait_for_notify: what arrived until now is deferred, but for notifications of
\* no known kind; what is still on its way is not waited for.
TakeNotifications ==
  /\ At("notify")
  /\ \E n \in DOMAIN notes : \E deferred \in SUBSET (1..n) :
       items' = Scheduled(items, {ParseItem(notes[k]) : k \in Latest(deferred)})
  /\ notes' = <<>>
  /\ success' = TRUE /\ step' = "disconnect"
  /\ UNCHANGED <<slot, link, device, jobs, todo, sent, version, requested, known,
                 attempted>>

\* wait_for_notify: nothing arrived in time.
NoNotification ==
  /\ At("notify")
  /\ step' = "disconnect"
  /\ UNCHANGED <<radio, items, jobs, todo, sent, success, version, requested, known,
                 attempted>>

\* disconnect deletes the client, with what it still was to receive.
Disconnect ==
  /\ At("disconnect")
  /\ Slot!Delete
  /\ link' = FALSE /\ notes' = <<>>
  /\ step' = "finish"
  /\ UNCHANGED <<device, items, jobs, todo, sent, success, version, requested, known,
                 attempted>>

\* control_retry or update_retry tries again later, or gives up.
\* (Mutants of TriesLeft: the tries are not counted, or up.)
TriesKept(job) == job.tries
TriesUp(job)   == job.tries + 1
TriesLeft(job) == job.tries - 1

RetryName(job) == IF job.kind = "control" THEN "control_retry" ELSE "update_retry"

Finish ==
  /\ At("finish")
  /\ LET again == /\ ~success /\ Current.kind \in {"control", "state"}
                  /\ TriesLeft(Current) > 0 IN
       /\ items' = IF again
                   THEN Scheduled(items, {Retry(RetryName(Current), Current.call,
                                                TriesLeft(Current))})
                   ELSE items
       /\ valve' = (valve /\ (success \/ again \/ Current.kind # "state"))
  /\ Start(Tail(jobs))
  /\ UNCHANGED <<radio, version, requested, climate, lastId, lastDays, attempted>>

-----------------------------------------------------------------------------
(* The environment.                                                        *)

\* The link is lost, with the notifications that have not arrived.
LoseLink ==
  /\ link /\ link' = FALSE
  /\ \E n \in 0..Len(notes) : notes' = SubSeq(notes, 1, n)
  /\ UNCHANGED <<slot, device, items, jobs, session, version, requested, known,
                 attempted>>

\* The interface of the last client is given up at last.
Drained ==
  /\ Slot!Drain
  /\ UNCHANGED <<link, device, notes, items, jobs, session, version, requested,
                 known, attempted>>

-----------------------------------------------------------------------------
Init ==
  /\ Slot!Init
  /\ link = FALSE /\ notes = <<>> /\ device = Unset
  /\ items = {} /\ jobs = <<>>
  /\ step = "acquire" /\ todo = <<>> /\ sent = FALSE /\ success = FALSE
  /\ version = 0 /\ requested = [v \in 1..MaxVersion |-> {}]
  /\ climate = Unset /\ valve = FALSE /\ lastId = FALSE /\ lastDays = {}
  /\ attempted = 0

SessionStep == AcquireClient \/ Connected \/ ConnectFails \/ Send \/ Skip \/ HandlerDone
               \/ QueryState \/ TakeNotifications \/ NoNotification \/ Disconnect
               \/ Finish
Environment == LoseLink \/ Drained

Next ==
  \/ \E fields \in Requests : Control(fields)
  \/ Update
  \/ RunRetry("control_retry") \/ RunRetry("update_retry") \/ RunParse
  \/ SessionStep \/ Environment

Spec == Init /\ [][Next]_vars

\* The main task keeps running, and each call of the scheduler runs every item
\* that is due: no item waits for ever because of the others.
Fairness ==
  /\ WF_vars(SessionStep)
  /\ SF_vars(RunRetry("control_retry")) /\ SF_vars(RunRetry("update_retry"))
  /\ SF_vars(RunParse)

FairSpec == Spec /\ Fairness

-----------------------------------------------------------------------------
(* Properties.                                                             *)

Kinds == {"id", "schedule", "state", "control"}
ItemNames == {"control_retry", "update_retry", "parse_notify", "parse_id",
              "parse_schedule"}
AllCommands == Fields \union Days \union {"id", "query"}
Notes    == [of : AllCommands, at : Snapshots]
ItemType == [name : ItemNames, day : Days \union {""}, call : Versions,
             tries : 0..Tries, at : Snapshots]
JobType  == [kind : Kinds, call : Versions, tries : 1..Tries]

\* Every variable has its type.
TypeOK ==
  /\ slot \in {"Free", "Owned", "Draining"} /\ link \in BOOLEAN
  /\ notes \in Seq(Notes) /\ device \in Snapshots
  /\ items \subseteq ItemType /\ jobs \in Seq(JobType)
  /\ step \in {"acquire", "connect", "handler", "query", "notify", "disconnect", "finish"}
  /\ todo \in Seq(AllCommands)
  /\ sent \in BOOLEAN /\ success \in BOOLEAN
  /\ version \in Versions /\ requested \in [1..MaxVersion -> SUBSET Fields]
  /\ climate \in Snapshots /\ valve \in BOOLEAN
  /\ lastId \in BOOLEAN /\ lastDays \subseteq Days /\ attempted \in Versions

\* The client is deleted on every way out of a session: between two sessions
\* the only slot is not kept from the other components.
SlotReturned ==
  (slot = "Owned") <=> jobs # <<>> /\ step \notin {"acquire", "finish"}

\* An earlier call's retry never undoes on the thermostat what a later call set.
NewestCallWins == [][\A f \in Fields : device'[f] >= device[f]]_vars

\* The published state does not go back: of the notifications waiting to be
\* parsed, an older one is never published after a newer one.
ReportsInOrder == [][\A f \in Fields : climate'[f] >= climate[f]]_vars

\* The inductive invariant of the theorems in EQ3ClimateProofs: whatever still
\* wants to control carries the newest call, ...
Shapes ==
  /\ \A i \in items : /\ i.name \in {"control_retry", "update_retry"} => i.day = "" /\ i.tries > 0
                      /\ i.name = "parse_schedule" => i.day \in Days
  /\ At("handler") /\ Current.kind = "control" => todo \in Seq(Fields)
ControlsAreNewest ==
  /\ \A i \in items : i.name = "control_retry" => i.call = version
  /\ \A k \in DOMAIN jobs : jobs[k].kind = "control" => jobs[k].call = version
  /\ \A f \in Fields : device[f] <= version

\* ... and what was published, the report that waits to be, those that are
\* notified and the thermostat's state follow each other in this order.
Before(s, t) == \A f \in Fields : s[f] <= t[f]
Reports == {i \in items : i.name = "parse_notify"}
ReportsAreOrdered ==
  /\ \A i, j \in Reports : i = j
  /\ \A i \in Reports : i.day = "" /\ Before(climate, i.at) /\ Before(i.at, device)
  /\ \A k \in DOMAIN notes : Before(climate, notes[k].at) /\ Before(notes[k].at, device)
  /\ \A k \in DOMAIN notes : \A i \in Reports : Before(i.at, notes[k].at)
  /\ \A k, l \in DOMAIN notes : k < l => Before(notes[k].at, notes[l].at)
  /\ Before(climate, device)
IndInv == TypeOK /\ Shapes /\ SlotReturned /\ ControlsAreNewest /\ ReportsAreOrdered

\* The last call of control() is not lost with the one it replaces: a session
\* is started for it.
NewestCallAttempted == []<>(attempted = version)

Pending(name, kind) ==
  (\E i \in items : i.name = name) \/ (jobs # <<>> /\ Current.kind = kind)

\* Retries come to an end, although every session may fail; those of an update
\* end at the latest with the next update, which starts over.
RetriesEnd == /\ []<>~Pending("control_retry", "control")
              /\ []<>~Pending("update_retry", "state") \/ []<><<Update>>_vars

=============================================================================
