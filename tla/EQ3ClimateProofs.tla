-------------------------- MODULE EQ3ClimateProofs --------------------------
(***************************************************************************)
(* Theorems about EQ3Climate for any settings, days, tries and number of   *)
(* calls: types, the slot, and the order of what is controlled and what is *)
(* reported.                                                               *)
(***************************************************************************)
EXTENDS EQ3Climate, SequenceTheorems, TLAPS

\* The lists of settings and days hold settings and days.
LEMMA SequenceOfItsElements ==
  ASSUME NEW S, NEW s \in Seq(S)
  PROVE  s \in Seq(ToSet(s))
BY SeqOfRange DEF ToSet, Range

\* The parameters Settings and Week are lists of fields and of days.
LEMMA ListsTyped == Settings \in Seq(Fields) /\ Week \in Seq(Days) /\ Week # <<>>
BY EQ3ClimateAssumption, SequenceOfItsElements DEF Fields, Days

\* Items and notifications have their types.
LEMMA UnsetTyped == Unset \in Snapshots /\ 0 \in Versions /\ 0 \in 0..Tries
<1>0. Tries \in Nat \ {0} /\ MaxVersion \in Nat
  BY EQ3ClimateAssumption, Zenon
<1>1. 0 \in Versions
  BY <1>0 DEF Versions
<1>2. Unset \in Snapshots
  BY <1>1 DEF Unset, Snapshots
<1>3. 0 \in 0..Tries
  BY <1>0
<1> QED
  BY <1>1, <1>2, <1>3

\* parse_client_notify schedules an item of one of three names.
LEMMA ParseItemTyped ==
  ASSUME NEW note \in Notes
  PROVE  /\ ParseItem(note) \in ItemType
         /\ ParseItem(note).name \in {"parse_id", "parse_schedule", "parse_notify"}
         /\ ParseItem(note).name = "parse_schedule" => ParseItem(note).day \in Days
         /\ ParseItem(note).name = "parse_notify" =>
              ParseItem(note).day = "" /\ ParseItem(note).at = note.at
<1>1. note.at \in Snapshots
  BY DEF Notes
<1>2. "parse_id" \in ItemNames /\ "parse_schedule" \in ItemNames /\ "parse_notify" \in ItemNames
      /\ "" \in Days \union {""}
  BY DEF ItemNames
<1>3. CASE note.of = "id"
  <2> DEFINE i == Item("parse_id", "", 0, 0, Unset)
  <2>1. i \in ItemType /\ i.name = "parse_id"
    BY <1>2, UnsetTyped DEF Item, ItemType
  <2>2. ParseItem(note) = i
    BY <1>3, Zenon DEF ParseItem
  <2> HIDE DEF i
  <2> QED
    BY <2>1, <2>2
<1>4. CASE note.of # "id" /\ note.of \in Days
  <2> DEFINE i == Item("parse_schedule", note.of, 0, 0, Unset)
  <2>1. i \in ItemType /\ i.name = "parse_schedule" /\ i.day = note.of
    BY <1>2, <1>4, UnsetTyped DEF Item, ItemType
  <2>2. ParseItem(note) = i
    BY <1>4, Zenon DEF ParseItem
  <2> HIDE DEF i
  <2> QED
    BY <1>4, <2>1, <2>2
<1>5. CASE note.of # "id" /\ note.of \notin Days
  <2> DEFINE i == Item("parse_notify", "", 0, 0, note.at)
  <2>1. i \in ItemType /\ i.name = "parse_notify" /\ i.day = "" /\ i.at = note.at
    BY <1>1, <1>2, UnsetTyped DEF Item, ItemType
  <2>2. ParseItem(note) = i
    BY <1>5, Zenon DEF ParseItem
  <2> HIDE DEF i
  <2> QED
    BY <2>1, <2>2
<1> QED
  BY <1>3, <1>4, <1>5

-----------------------------------------------------------------------------
(* What a step leaves alone.                                               *)

\* Where neither the thermostat nor what is published changes, and items and
\* notifications only go, reports stay in order.
LEMMA ReportsFrame ==
  ASSUME ReportsAreOrdered, UNCHANGED <<device, climate>>,
         \A i \in Reports' : i \in Reports,
         \A k \in DOMAIN notes' : k \in DOMAIN notes /\ notes'[k] = notes[k]
  PROVE  ReportsAreOrdered'
BY Zenon DEF ReportsAreOrdered, Before

\* Where no call is made and no item or job to control comes, they carry the
\* newest call.
LEMMA ControlsFrame ==
  ASSUME ControlsAreNewest, UNCHANGED <<device, version>>,
         \A i \in items' : i.name = "control_retry" => i \in items,
         \A k \in DOMAIN jobs' : jobs'[k].kind = "control" =>
            \E l \in DOMAIN jobs : jobs[l] = jobs'[k]
  PROVE  ControlsAreNewest'
BY Zenon DEF ControlsAreNewest

\* Where a session goes on in the same place, the slot stays with it.
LEMMA SlotFrame ==
  ASSUME SlotReturned, UNCHANGED <<slot, jobs, step>>
  PROVE  SlotReturned'
BY DEF SlotReturned

-----------------------------------------------------------------------------
(* Every step keeps the invariant.                                         *)

\* One more call can be counted.
LEMMA NextVersion ==
  ASSUME TypeOK, version < MaxVersion
  PROVE  version \in Nat /\ version + 1 \in Versions /\ version + 1 \in 1..MaxVersion
<1>1. MaxVersion \in Nat
  BY EQ3ClimateAssumption, Zenon
<1> QED
  BY <1>1 DEF TypeOK, Versions


\* control()
LEMMA ControlStep ==
  ASSUME IndInv, NEW fields \in Requests, Control(fields)
  PROVE  IndInv'
<1> DEFINE kept == Without(items, "control_retry", "")
           retry == Retry("control_retry", version + 1, Tries)
<1>1. /\ jobs = <<>> /\ version < MaxVersion /\ version' = version + 1
      /\ requested' = [requested EXCEPT ![version + 1] = fields]
      /\ items' = Scheduled(kept, {retry})
  BY Zenon DEF Control, Idle
<1>2. UNCHANGED <<slot, link, device, notes, jobs, step, todo, sent, success, climate, valve,
                  lastId, lastDays, attempted>>
  BY Zenon DEF Control, radio, session, known
<1>3. version \in Nat /\ version + 1 \in Versions /\ version + 1 \in 1..MaxVersion
  BY <1>1, NextVersion DEF IndInv
<1>4. Tries \in 0..Tries /\ Tries > 0
  <2>1. Tries \in Nat \ {0}
    BY EQ3ClimateAssumption, Zenon
  <2> QED
    BY <2>1
<1>5. /\ retry \in ItemType /\ retry.name = "control_retry" /\ retry.day = ""
      /\ retry.call = version + 1 /\ retry.tries = Tries
  BY <1>3, <1>4, UnsetTyped DEF Retry, Item, ItemType, ItemNames
<1>6. \A i \in items' : i = retry \/ (i \in items /\ ~(i.name = "control_retry" /\ i.day = ""))
  BY <1>1, Zenon DEF Scheduled, Without
<1> HIDE DEF retry, kept
<1>7. TypeOK'
  <2>1. items' \subseteq ItemType
    BY <1>5, <1>6 DEF IndInv, TypeOK
  <2>2. fields \in SUBSET Fields
    BY EQ3ClimateAssumption, Zenon
  <2>3. requested' \in [1..MaxVersion -> SUBSET Fields]
    BY <1>1, <2>2, Zenon DEF IndInv, TypeOK
  <2> QED
    BY <1>1, <1>2, <1>3, <2>1, <2>3, Zenon DEF IndInv, TypeOK, Versions
<1>8. Shapes'
  BY <1>1, <1>2, <1>4, <1>5, <1>6 DEF IndInv, Shapes, At
<1>9. SlotReturned'
  BY <1>2, SlotFrame DEF IndInv
<1>10. ControlsAreNewest'
  <2>1. \A i \in items' : i.name = "control_retry" => i.call = version'
    BY <1>1, <1>5, <1>6 DEF IndInv, Shapes
  <2>2. \A k \in DOMAIN jobs' : jobs'[k].kind = "control" => jobs'[k].call = version'
    BY <1>1, <1>2
  <2>3. \A f \in Fields : device'[f] <= version'
    <3> TAKE f \in Fields
    <3>1. device[f] \in Versions /\ device[f] <= version
      BY DEF IndInv, TypeOK, Snapshots, ControlsAreNewest
    <3> QED
      BY <1>1, <1>2, <1>3, <3>1 DEF Versions
  <2> QED
    BY <2>1, <2>2, <2>3 DEF ControlsAreNewest
<1>11. ReportsAreOrdered'
  <2>1. \A i \in Reports' : i \in Reports
    BY <1>5, <1>6 DEF Reports
  <2> QED
    BY <1>2, <2>1, ReportsFrame DEF IndInv
<1> QED
  BY <1>7, <1>8, <1>9, <1>10, <1>11 DEF IndInv

\* update()
LEMMA UpdateStep ==
  ASSUME IndInv, Update
  PROVE  IndInv'
<1> DEFINE queue == (IF lastId THEN <<>> ELSE <<Job("id", 0, 1)>>)
                    \o (IF Head(Week) \in lastDays THEN <<>> ELSE <<Job("schedule", 0, 1)>>)
                    \o <<Job("state", 0, Tries)>>
           J == {j \in JobType : j.kind # "control"}
<1>1. /\ jobs = <<>> /\ items' = Without(items, "update_retry", "")
      /\ jobs' = queue /\ step' = "acquire" /\ todo' = <<>> /\ sent' = FALSE /\ success' = FALSE
  BY Zenon DEF Update, Idle, Start
<1>2. UNCHANGED <<slot, link, device, notes, version, requested, climate, valve, lastId,
                  lastDays, attempted>>
  BY Zenon DEF Update, radio, known
<1>3. queue \in Seq(J)
  <2>1. 1 \in 1..Tries /\ Tries \in 1..Tries
    <3>1. Tries \in Nat \ {0}
      BY EQ3ClimateAssumption, Zenon
    <3> QED
      BY <3>1
  <2>2. Job("id", 0, 1) \in J /\ Job("schedule", 0, 1) \in J /\ Job("state", 0, Tries) \in J
    BY <2>1, UnsetTyped DEF Job, JobType, Kinds
  <2> HIDE DEF J
  <2> QED
    BY <2>2
<1> HIDE DEF queue
<1>4. jobs' \in Seq(JobType) /\ \A k \in DOMAIN jobs' : jobs'[k].kind # "control"
  <2>1. J \subseteq JobType /\ \A j \in J : j.kind # "control"
    OBVIOUS
  <2> HIDE DEF J
  <2>2. queue \in Seq(JobType) /\ \A k \in DOMAIN queue : queue[k] \in J
    BY <1>3, <2>1, ElementOfSeq
  <2> QED
    BY <1>1, <2>1, <2>2
<1>5. items' \subseteq items
  BY <1>1, Zenon DEF Without
<1>6. TypeOK'
  <2>1. todo' \in Seq(AllCommands)
    <3>1. todo' = <<>>
      BY <1>1, Zenon
    <3> QED
      BY <3>1
  <2> QED
    BY <1>1, <1>2, <1>4, <1>5, <2>1, Zenon DEF IndInv, TypeOK, Versions
<1>7. Shapes'
  BY <1>1, <1>5 DEF IndInv, Shapes, At
<1>8. SlotReturned'
  BY <1>1, <1>2 DEF IndInv, SlotReturned
<1>9. ControlsAreNewest'
  BY <1>2, <1>4, <1>5, ControlsFrame DEF IndInv
<1>10. ReportsAreOrdered'
  BY <1>2, <1>5, ReportsFrame DEF IndInv, Reports
<1> QED
  BY <1>6, <1>7, <1>8, <1>9, <1>10 DEF IndInv

\* A retry of a control or an update is taken from the scheduler.
LEMMA RetryStep ==
  ASSUME IndInv, NEW name \in {"control_retry", "update_retry"}, RunRetry(name)
  PROVE  IndInv'
<1>1. PICK i \in items :
        /\ i.name = name /\ items' = items \ {i}
        /\ Start(<<Job(IF name = "control_retry" THEN "control" ELSE "state",
                       i.call, i.tries)>>)
        /\ attempted' = IF name = "control_retry" THEN i.call ELSE attempted
  BY Zenon DEF RunRetry
<1> DEFINE job == Job(IF name = "control_retry" THEN "control" ELSE "state", i.call, i.tries)
<1>2. /\ jobs = <<>>
      /\ jobs' = <<job>> /\ step' = "acquire" /\ todo' = <<>> /\ sent' = FALSE /\ success' = FALSE
  BY <1>1, Zenon DEF RunRetry, Idle, Start
<1>3. UNCHANGED <<slot, link, device, notes, version, requested, climate, valve, lastId,
                  lastDays>>
  BY Zenon DEF RunRetry, radio, known
<1>4. i \in ItemType /\ i.call \in Versions /\ i.tries \in 1..Tries
  <2>1. i \in ItemType /\ i.tries > 0
    BY <1>1 DEF IndInv, TypeOK, Shapes
  <2>2. Tries \in Nat
    BY EQ3ClimateAssumption, Zenon
  <2>3. i.call \in Versions /\ i.tries \in 0..Tries
    BY <2>1 DEF ItemType
  <2> QED
    BY <2>1, <2>2, <2>3
<1>5. job \in JobType /\ (job.kind = "control" => job.call = version)
  BY <1>1, <1>4 DEF Job, JobType, Kinds, IndInv, ControlsAreNewest
<1> HIDE DEF job
<1>6. jobs' \in Seq(JobType) /\ \A k \in DOMAIN jobs' : jobs'[k] = job
  BY <1>2, <1>5
<1>7. items' \subseteq items
  BY <1>1
<1>8. TypeOK'
  <2>1. todo' \in Seq(AllCommands)
    BY <1>2
  <2>2. attempted' \in Versions
    BY <1>1, <1>4 DEF IndInv, TypeOK
  <2> QED
    BY <1>2, <1>3, <1>6, <1>7, <2>1, <2>2, Zenon DEF IndInv, TypeOK, Versions
<1>9. Shapes'
  BY <1>2, <1>7 DEF IndInv, Shapes, At
<1>10. SlotReturned'
  BY <1>2, <1>3 DEF IndInv, SlotReturned
<1>11. ControlsAreNewest'
  BY <1>3, <1>5, <1>6, <1>7 DEF IndInv, ControlsAreNewest
<1>12. ReportsAreOrdered'
  BY <1>3, <1>7, ReportsFrame DEF IndInv, Reports
<1> QED
  BY <1>8, <1>9, <1>10, <1>11, <1>12 DEF IndInv

\* A notification is parsed.
LEMMA ParseStep ==
  ASSUME IndInv, RunParse
  PROVE  IndInv' /\ Before(climate, climate')
<1>1. PICK i \in items :
        /\ items' = items \ {i}
        /\ \/ /\ i.name = "parse_notify"
              /\ climate' = i.at /\ valve' = TRUE
              /\ UNCHANGED <<lastId, lastDays>>
           \/ /\ i.name = "parse_id"
              /\ lastId' = TRUE
              /\ UNCHANGED <<climate, valve, lastDays>>
           \/ /\ i.name = "parse_schedule"
              /\ lastDays' = lastDays \union {i.day}
              /\ UNCHANGED <<climate, valve, lastId>>
           \/ UNCHANGED <<climate, valve, lastId, lastDays>>
  BY Zenon DEF RunParse, known
<1>2. UNCHANGED <<slot, link, device, notes, jobs, step, todo, sent, success, version,
                  requested, attempted>>
  BY Zenon DEF RunParse, radio, session
<1>3. i \in ItemType /\ i.at \in Snapshots /\ i.day \in Days \union {""}
  BY <1>1 DEF IndInv, TypeOK, ItemType
<1>4. items' \subseteq items
  BY <1>1
<1>5. Shapes'
  BY <1>2, <1>4 DEF IndInv, Shapes, At, Current
<1>6. SlotReturned'
  BY <1>2, SlotFrame DEF IndInv
<1>7. ControlsAreNewest'
  BY <1>2, <1>4, ControlsFrame DEF IndInv
<1>8. CASE /\ i.name = "parse_notify"
           /\ climate' = i.at /\ valve' = TRUE /\ UNCHANGED <<lastId, lastDays>>
  <2>1. climate' = i.at /\ valve' = TRUE /\ UNCHANGED <<lastId, lastDays>>
    BY <1>8
  <2>2. TypeOK'
    BY <1>2, <1>3, <1>4, <2>1, Zenon DEF IndInv, TypeOK, Versions
  <2>3. i \in Reports /\ Reports' = {}
    BY <1>1, <1>8 DEF Reports, IndInv, ReportsAreOrdered
  <2>4. ReportsAreOrdered' /\ Before(climate, climate')
    BY <1>2, <2>1, <2>3, Zenon DEF IndInv, ReportsAreOrdered, Before
  <2> QED
    BY <1>5, <1>6, <1>7, <2>2, <2>4 DEF IndInv
<1>9. CASE /\ UNCHANGED <<climate, valve>>
           /\ \/ UNCHANGED <<lastId, lastDays>>
              \/ lastId' = TRUE /\ UNCHANGED lastDays
              \/ i.name = "parse_schedule" /\ lastDays' = lastDays \union {i.day} /\ UNCHANGED lastId
  <2>1. UNCHANGED <<climate, valve>>
    BY <1>9
  <2>2. lastId' \in BOOLEAN /\ lastDays' \subseteq Days
    BY <1>1, <1>9 DEF IndInv, TypeOK, Shapes
  <2>3. TypeOK'
    BY <1>2, <1>4, <2>1, <2>2, Zenon DEF IndInv, TypeOK, Versions
  <2>4. ReportsAreOrdered'
    BY <1>2, <1>4, <2>1, ReportsFrame DEF IndInv, Reports
  <2>5. Before(climate, climate')
    BY <2>1 DEF Before, IndInv, TypeOK, Snapshots, Versions
  <2> QED
    BY <1>5, <1>6, <1>7, <2>3, <2>4, <2>5 DEF IndInv
<1> QED
  BY <1>1, <1>8, <1>9

\* connect: a client is acquired, or there is none.
LEMMA AcquireStep ==
  ASSUME IndInv, AcquireClient
  PROVE  IndInv'
<1>1. /\ jobs # <<>> /\ step = "acquire"
      /\ \/ slot = "Free" /\ slot' = "Owned" /\ step' = "connect"
         \/ slot # "Free" /\ slot' = slot /\ step' = "finish"
  BY Zenon DEF AcquireClient, At, Slot!Acquire
<1>2. UNCHANGED <<link, device, notes, items, jobs, todo, sent, success, version, requested,
                  climate, valve, lastId, lastDays, attempted>>
  BY Zenon DEF AcquireClient, known
<1>3. TypeOK'
  <2>1. slot' \in {"Free", "Owned", "Draining"} /\ step' \in {"connect", "finish"}
    BY <1>1 DEF IndInv, TypeOK
  <2>2. step' \in {"acquire", "connect", "handler", "query", "notify", "disconnect", "finish"}
    BY <2>1
  <2> QED
    BY <1>2, <2>1, <2>2, Zenon DEF IndInv, TypeOK, Versions
<1>4. Shapes'
  BY <1>1, <1>2 DEF IndInv, Shapes, At
<1>5. SlotReturned'
  BY <1>1, <1>2 DEF IndInv, SlotReturned
<1>6. ControlsAreNewest'
  BY <1>2, Zenon DEF IndInv, ControlsAreNewest
<1>7. ReportsAreOrdered'
  BY <1>2, Zenon DEF IndInv, ReportsAreOrdered, Reports, Before
<1> QED
  BY <1>3, <1>4, <1>5, <1>6, <1>7 DEF IndInv

\* The commands of a session's handler have their type.
LEMMA CommandsTyped ==
  ASSUME IndInv, jobs # <<>>
  PROVE  /\ Current \in JobType
         /\ Commands \in Seq(AllCommands)
         /\ Current.kind = "control" => Commands \in Seq(Fields)
<1>1. Current \in JobType
  BY DEF Current, IndInv, TypeOK
<1>2. Current.kind \in Kinds
  BY <1>1 DEF JobType
<1>3. Settings \in Seq(Fields) /\ Week \in Seq(Days)
  BY ListsTyped
<1>4. Settings \in Seq(AllCommands) /\ Week \in Seq(AllCommands)
  BY <1>3, SeqMonotonic DEF AllCommands
<1>5. <<"id">> \in Seq(AllCommands) /\ <<"query">> \in Seq(AllCommands)
  BY DEF AllCommands
<1>6. /\ Current.kind = "id" => Commands = <<"id">>
      /\ Current.kind = "state" => Commands = <<"query">>
      /\ Current.kind = "schedule" => Commands = Week
      /\ Current.kind = "control" => Commands = Settings
  BY DEF Commands
<1> QED
  BY <1>1, <1>2, <1>3, <1>4, <1>5, <1>6 DEF Kinds

\* connect: the link is open.
LEMMA ConnectedStep ==
  ASSUME IndInv, Connected
  PROVE  IndInv'
<1>1. /\ jobs # <<>> /\ step = "connect" /\ step' = "handler"
      /\ link' = TRUE /\ todo' = Commands
  BY Zenon DEF Connected, At
<1>2. UNCHANGED <<slot, device, notes, items, jobs, sent, success, version, requested,
                  climate, valve, lastId, lastDays, attempted>>
  BY Zenon DEF Connected, known
<1>3. TypeOK'
  <2>1. todo' \in Seq(AllCommands)
    BY <1>1, CommandsTyped
  <2> QED
    BY <1>1, <1>2, <2>1, Zenon DEF IndInv, TypeOK, Versions
<1>4. Shapes'
  <2>1. Current.kind = "control" => todo' \in Seq(Fields)
    BY <1>1, CommandsTyped
  <2> QED
    BY <1>2, <2>1, Zenon DEF IndInv, Shapes, Current, At
<1>5. SlotReturned'
  BY <1>1, <1>2 DEF IndInv, SlotReturned
<1>6. ControlsAreNewest'
  BY <1>2, Zenon DEF IndInv, ControlsAreNewest
<1>7. ReportsAreOrdered'
  BY <1>2, Zenon DEF IndInv, ReportsAreOrdered, Reports, Before
<1> QED
  BY <1>3, <1>4, <1>5, <1>6, <1>7 DEF IndInv

\* connect fails, the handler is done, nothing is notified, or the client is
\* deleted: the session goes on elsewhere, and nothing is scheduled.
LEMMA PassStep ==
  ASSUME IndInv, ConnectFails \/ HandlerDone \/ NoNotification \/ Disconnect
  PROVE  IndInv'
<1>1. /\ jobs # <<>>
      /\ \/ step' = "finish" /\ step # "acquire" /\ slot = "Owned"
            /\ slot' \in {"Free", "Draining"}
         \/ step \notin {"acquire", "finish"} /\ slot' = slot
            /\ step' \in {"notify", "query", "disconnect"}
  BY DEF ConnectFails, HandlerDone, NoNotification, Disconnect, At, Slot!Delete, radio
<1>2. UNCHANGED <<device, items, jobs, sent, success, version, requested, climate, valve,
                  lastId, lastDays, attempted>>
  BY Zenon DEF ConnectFails, HandlerDone, NoNotification, Disconnect, radio, known
<1>3. /\ notes' = notes \/ notes' = <<>>
      /\ link' = link \/ link' = FALSE
      /\ todo' = todo \/ todo' = <<"query">>
  BY Zenon DEF ConnectFails, HandlerDone, NoNotification, Disconnect, radio
<1>4. TypeOK'
  <2>1. slot' \in {"Free", "Owned", "Draining"}
        /\ step' \in {"acquire", "connect", "handler", "query", "notify", "disconnect", "finish"}
    BY <1>1 DEF IndInv, TypeOK
  <2>2. notes' \in Seq(Notes) /\ todo' \in Seq(AllCommands)
    <3>1. <<"query">> \in Seq(AllCommands)
      BY DEF AllCommands
    <3>2. <<>> \in Seq(Notes)
      OBVIOUS
    <3>3. notes \in Seq(Notes) /\ todo \in Seq(AllCommands)
      BY DEF IndInv, TypeOK
    <3> QED
      BY <1>3, <3>1, <3>2, <3>3, Zenon
  <2> QED
    BY <1>2, <1>3, <2>1, <2>2, Zenon DEF IndInv, TypeOK, Versions
<1>5. Shapes'
  BY <1>1, <1>2 DEF IndInv, Shapes, At
<1>6. SlotReturned'
  BY <1>1, <1>2 DEF IndInv, SlotReturned
<1>7. ControlsAreNewest'
  BY <1>2, Zenon DEF IndInv, ControlsAreNewest
<1>8. ReportsAreOrdered'
  <2>1. \A k \in DOMAIN notes' : k \in DOMAIN notes /\ notes'[k] = notes[k]
    BY <1>3
  <2> QED
    BY <1>2, <2>1, ReportsFrame DEF IndInv, Reports
<1> QED
  BY <1>4, <1>5, <1>6, <1>7, <1>8 DEF IndInv

\* A command is not sent.
LEMMA SkipStep ==
  ASSUME IndInv, Skip
  PROVE  IndInv'
<1>1. jobs # <<>> /\ todo # <<>> /\ todo' = Tail(todo)
  BY Zenon DEF Skip, At
<1>2. UNCHANGED <<slot, link, device, notes, items, jobs, step, sent, success, version,
                  requested, climate, valve, lastId, lastDays, attempted>>
  BY Zenon DEF Skip, radio, known
<1>3. todo' \in Seq(AllCommands)
  BY <1>1 DEF IndInv, TypeOK
<1>4. TypeOK'
  BY <1>2, <1>3, Zenon DEF IndInv, TypeOK, Versions
<1>5. Shapes'
  <2>1. todo \in Seq(Fields) => todo' \in Seq(Fields)
    BY <1>1
  <2> QED
    BY <1>2, <2>1, Zenon DEF IndInv, Shapes, At, Current
<1>6. SlotReturned'
  BY <1>2, SlotFrame DEF IndInv
<1>7. ControlsAreNewest'
  BY <1>2, Zenon DEF IndInv, ControlsAreNewest
<1>8. ReportsAreOrdered'
  BY <1>2, Zenon DEF IndInv, ReportsAreOrdered, Reports, Before
<1> QED
  BY <1>4, <1>5, <1>6, <1>7, <1>8 DEF IndInv

\* What was before is before what comes after.
LEMMA BeforeTransitive ==
  ASSUME NEW s \in Snapshots, NEW t \in Snapshots, NEW u \in Snapshots, Before(s, t), Before(t, u)
  PROVE  Before(s, u)
BY DEF Before, Snapshots, Versions

\* Before includes what is the same.
LEMMA BeforeReflexive ==
  ASSUME NEW s \in Snapshots
  PROVE  Before(s, s)
BY DEF Before, Snapshots, Versions

\* A report that is notified of the thermostat's state comes last.
LEMMA ReportLast ==
  ASSUME IndInv, device' \in Snapshots, Before(device, device'), UNCHANGED <<climate, items>>,
         NEW note, note.at = device', notes' = Append(notes, note) \/ notes' = notes
  PROVE  ReportsAreOrdered'
<1>1. /\ climate \in Snapshots /\ device \in Snapshots /\ notes \in Seq(Notes)
      /\ \A i \in Reports : i.at \in Snapshots
      /\ \A k \in DOMAIN notes : notes[k].at \in Snapshots
  <2>1. \A i \in items : i.at \in Snapshots
    BY DEF IndInv, TypeOK, ItemType
  <2>2. climate \in Snapshots /\ device \in Snapshots /\ notes \in Seq(Notes)
    BY DEF IndInv, TypeOK
  <2>3. \A k \in DOMAIN notes : notes[k] \in Notes
    BY <2>2
  <2>4. \A k \in DOMAIN notes : notes[k].at \in Snapshots
    BY <2>3 DEF Notes
  <2> QED
    BY <2>1, <2>2, <2>4 DEF Reports
<1>2. Reports' = Reports
  BY DEF Reports
<1>3. /\ Before(climate, device) /\ Before(climate, device')
      /\ \A i \in Reports : Before(climate, i.at) /\ Before(i.at, device) /\ Before(i.at, device')
      /\ \A k \in DOMAIN notes : /\ Before(climate, notes[k].at) /\ Before(notes[k].at, device)
                                 /\ Before(notes[k].at, device')
  <2>1. /\ Before(climate, device)
        /\ \A i \in Reports : Before(climate, i.at) /\ Before(i.at, device)
        /\ \A k \in DOMAIN notes : Before(climate, notes[k].at) /\ Before(notes[k].at, device)
    BY DEF IndInv, ReportsAreOrdered
  <2> QED
    BY <1>1, <2>1, BeforeTransitive
<1>4. /\ \A k \in DOMAIN notes' : \/ k \in DOMAIN notes /\ notes'[k] = notes[k]
                                  \/ notes'[k] = note /\ k = Len(notes) + 1
      /\ \A k \in DOMAIN notes : k < Len(notes) + 1
      /\ DOMAIN notes' \subseteq Nat
  BY <1>1
<1>5. Before(device', device')
  BY BeforeReflexive
<1>6. \A k \in DOMAIN notes' : Before(climate, notes'[k].at) /\ Before(notes'[k].at, device')
  BY <1>3, <1>4, <1>5
<1>7. \A k \in DOMAIN notes' : \A i \in Reports : Before(i.at, notes'[k].at)
  <2>1. \A k \in DOMAIN notes : \A i \in Reports : Before(i.at, notes[k].at)
    BY DEF IndInv, ReportsAreOrdered
  <2> QED
    BY <1>3, <1>4, <2>1
<1>8. ASSUME NEW k \in DOMAIN notes', NEW l \in DOMAIN notes', k < l
      PROVE  Before(notes'[k].at, notes'[l].at)
  <2>1. \A a, b \in DOMAIN notes : a < b => Before(notes[a].at, notes[b].at)
    BY DEF IndInv, ReportsAreOrdered
  <2>2. k \in DOMAIN notes /\ notes'[k] = notes[k]
    <3>1. Len(notes) \in Nat /\ DOMAIN notes' \subseteq 1..(Len(notes) + 1)
      BY <1>1
    <3> QED
      BY <1>4, <1>8, <3>1
  <2>3. CASE l \in DOMAIN notes /\ notes'[l] = notes[l]
    BY <1>8, <2>1, <2>2, <2>3
  <2>4. CASE notes'[l] = note
    BY <1>3, <2>2, <2>4
  <2> QED
    BY <1>4, <2>3, <2>4
<1>9. (\A i, j \in Reports : i = j) /\ \A i \in Reports : i.day = ""
  BY DEF IndInv, ReportsAreOrdered
<1> QED
  BY <1>2, <1>3, <1>6, <1>7, <1>8, <1>9 DEF ReportsAreOrdered, Before

\* A command of the handler is sent.
LEMMA SendStep ==
  ASSUME IndInv, Send
  PROVE  IndInv' /\ Before(device, device')
<1>1. PICK applied \in BOOLEAN, answered \in BOOLEAN :
        /\ device' = IF applied /\ Current.kind = "control"
                     THEN [device EXCEPT ![Head(todo)] = Current.call] ELSE device
        /\ notes' = IF applied THEN Append(notes, [of |-> Head(todo), at |-> device'])
                    ELSE notes
        /\ sent' = (sent \/ answered)
  BY Zenon DEF Send
<1>2. jobs # <<>> /\ step = "handler" /\ todo # <<>> /\ todo' = Tail(todo)
  BY Zenon DEF Send, At
<1>3. UNCHANGED <<slot, link, items, jobs, step, success, version, requested, climate, valve,
                  lastId, lastDays, attempted>>
  BY Zenon DEF Send, known
<1>4. /\ todo \in Seq(AllCommands) /\ Head(todo) \in AllCommands /\ todo' \in Seq(AllCommands)
      /\ todo \in Seq(Fields) => Head(todo) \in Fields /\ todo' \in Seq(Fields)
  <2>1. todo \in Seq(AllCommands)
    BY DEF IndInv, TypeOK
  <2> QED
    BY <1>2, <2>1
<1>5. Current.kind = "control" => Current.call = version /\ todo \in Seq(Fields)
  <2>1. 1 \in DOMAIN jobs /\ Current = jobs[1]
    BY <1>2 DEF Current, IndInv, TypeOK
  <2> QED
    BY <1>2, <2>1 DEF IndInv, ControlsAreNewest, Shapes, At
<1>6. version \in Versions /\ device \in Snapshots /\ \A f \in Fields : device[f] <= version
  BY DEF IndInv, TypeOK, ControlsAreNewest
<1>7. device' = device \/ \E f \in Fields : device' = [device EXCEPT ![f] = version]
  BY <1>1, <1>4, <1>5, Zenon
<1>8. /\ device' \in Snapshots /\ Before(device, device')
      /\ \A f \in Fields : device'[f] <= version
  <2>1. CASE device' = device
    BY <1>6, <2>1, BeforeReflexive
  <2>2. ASSUME NEW f \in Fields, device' = [device EXCEPT ![f] = version]
        PROVE  /\ device' \in Snapshots /\ Before(device, device')
               /\ \A g \in Fields : device'[g] <= version
    <3>1. /\ device' \in Snapshots
          /\ \A g \in Fields : device'[g] = IF g = f THEN version ELSE device[g]
      BY <1>6, <2>2 DEF Snapshots
    <3>2. \A g \in Fields : device[g] \in Nat /\ device[g] <= version /\ version \in Nat
      BY <1>6 DEF Snapshots, Versions
    <3> QED
      BY <3>1, <3>2 DEF Before
  <2> QED
    BY <1>7, <2>1, <2>2
<1> DEFINE note == [of |-> Head(todo), at |-> device']
<1>9. note \in Notes /\ note.at = device'
  BY <1>4, <1>8 DEF Notes
<1>10. notes' = Append(notes, note) \/ notes' = notes
  BY <1>1, Zenon
<1> HIDE DEF note
<1>11. TypeOK'
  <2>1. notes' \in Seq(Notes)
    <3>1. notes \in Seq(Notes)
      BY DEF IndInv, TypeOK
    <3> QED
      BY <1>9, <1>10, <3>1
  <2>2. sent' \in BOOLEAN
    BY <1>1, Zenon
  <2> QED
    BY <1>3, <1>4, <1>8, <2>1, <2>2, Zenon DEF IndInv, TypeOK, Versions, Snapshots
<1>12. Shapes'
  BY <1>3, <1>4, Zenon DEF IndInv, Shapes, At, Current
<1>13. SlotReturned'
  BY <1>3, SlotFrame DEF IndInv
<1>14. ControlsAreNewest'
  BY <1>3, <1>8, Zenon DEF IndInv, ControlsAreNewest
<1>15. ReportsAreOrdered'
  BY <1>3, <1>8, <1>9, <1>10, ReportLast
<1> QED
  BY <1>8, <1>11, <1>12, <1>13, <1>14, <1>15 DEF IndInv

\* The state is asked for.
LEMMA QueryStep ==
  ASSUME IndInv, QueryState
  PROVE  IndInv'
<1>1. PICK applied \in BOOLEAN, answered \in BOOLEAN :
        /\ notes' = IF applied THEN Append(notes, [of |-> "query", at |-> device]) ELSE notes
        /\ sent' = answered
        /\ step' = IF answered THEN "notify" ELSE "disconnect"
  BY Zenon DEF QueryState
<1>2. jobs # <<>> /\ step = "query" /\ todo' = <<>>
  BY Zenon DEF QueryState, At
<1>3. UNCHANGED <<slot, link, device, items, jobs, success, version, requested, climate, valve,
                  lastId, lastDays, attempted>>
  BY Zenon DEF QueryState, known
<1> DEFINE note == [of |-> "query", at |-> device]
<1>4. note \in Notes /\ note.at = device' /\ device \in Snapshots /\ device' \in Snapshots
  BY <1>3 DEF IndInv, TypeOK, Notes, AllCommands
<1>5. notes' = Append(notes, note) \/ notes' = notes
  BY <1>1, Zenon
<1> HIDE DEF note
<1>6. TypeOK'
  <2>1. notes' \in Seq(Notes)
    <3>1. notes \in Seq(Notes)
      BY DEF IndInv, TypeOK
    <3> QED
      BY <1>4, <1>5, <3>1
  <2>2. todo' \in Seq(AllCommands)
    BY <1>2
  <2>3. sent' \in BOOLEAN
    BY <1>1, Zenon
  <2>4. step' \in {"acquire", "connect", "handler", "query", "notify", "disconnect", "finish"}
    BY <1>1
  <2> QED
    BY <1>3, <2>1, <2>2, <2>3, <2>4, Zenon DEF IndInv, TypeOK, Versions
<1>7. step' \in {"notify", "disconnect"}
  BY <1>1
<1>8. Shapes'
  BY <1>3, <1>7 DEF IndInv, Shapes, At
<1>9. SlotReturned'
  BY <1>2, <1>3, <1>7 DEF IndInv, SlotReturned
<1>10. ControlsAreNewest'
  BY <1>3, Zenon DEF IndInv, ControlsAreNewest
<1>11. ReportsAreOrdered'
  <2>1. Before(device, device')
    BY <1>3, <1>4, BeforeReflexive
  <2> QED
    BY <1>3, <1>4, <1>5, <2>1, ReportLast
<1> QED
  BY <1>6, <1>8, <1>9, <1>10, <1>11 DEF IndInv

\* The link is lost, with notifications still on their way.
LEMMA LoseLinkStep ==
  ASSUME IndInv, LoseLink
  PROVE  IndInv'
<1>1. PICK n \in 0..Len(notes) : notes' = SubSeq(notes, 1, n)
  BY Zenon DEF LoseLink
<1>2. /\ link' = FALSE
      /\ UNCHANGED <<slot, device, items, jobs, step, todo, sent, success, version, requested,
                     climate, valve, lastId, lastDays, attempted>>
  BY Zenon DEF LoseLink, session, known
<1>3. /\ notes' \in Seq(Notes)
      /\ \A k \in DOMAIN notes' : k \in DOMAIN notes /\ notes'[k] = notes[k]
  <2>1. notes \in Seq(Notes)
    BY DEF IndInv, TypeOK
  <2> QED
    BY <1>1, <2>1
<1>4. TypeOK'
  BY <1>2, <1>3, Zenon DEF IndInv, TypeOK, Versions
<1>5. Shapes'
  BY <1>2, Zenon DEF IndInv, Shapes, At, Current
<1>6. SlotReturned'
  BY <1>2, SlotFrame DEF IndInv
<1>7. ControlsAreNewest'
  BY <1>2, Zenon DEF IndInv, ControlsAreNewest
<1>8. ReportsAreOrdered'
  BY <1>2, <1>3, ReportsFrame DEF IndInv, Reports
<1> QED
  BY <1>4, <1>5, <1>6, <1>7, <1>8 DEF IndInv

\* The interface of the last client is given up.
LEMMA DrainedStep ==
  ASSUME IndInv, Drained
  PROVE  IndInv'
<1>1. slot = "Draining" /\ slot' = "Free"
  BY Zenon DEF Drained, Slot!Drain
<1>2. UNCHANGED <<link, device, notes, items, jobs, step, todo, sent, success, version,
                  requested, climate, valve, lastId, lastDays, attempted>>
  BY Zenon DEF Drained, session, known
<1>3. TypeOK'
  BY <1>1, <1>2, Zenon DEF IndInv, TypeOK, Versions
<1>4. Shapes'
  BY <1>2, Zenon DEF IndInv, Shapes, At, Current
<1>5. SlotReturned'
  BY <1>1, <1>2 DEF IndInv, SlotReturned
<1>6. ControlsAreNewest'
  BY <1>2, Zenon DEF IndInv, ControlsAreNewest
<1>7. ReportsAreOrdered'
  BY <1>2, Zenon DEF IndInv, ReportsAreOrdered, Reports, Before
<1> QED
  BY <1>3, <1>4, <1>5, <1>6, <1>7 DEF IndInv

\* A session is over; a retry may be scheduled.
LEMMA FinishStep ==
  ASSUME IndInv, Finish
  PROVE  IndInv'
<1> DEFINE retry == Retry(RetryName(Current), Current.call, TriesLeft(Current))
<1>1. /\ jobs # <<>> /\ step = "finish"
      /\ jobs' = Tail(jobs) /\ step' = "acquire" /\ todo' = <<>> /\ sent' = FALSE /\ success' = FALSE
  BY Zenon DEF Finish, At, Start
<1>2. UNCHANGED <<slot, link, device, notes, version, requested, climate, lastId, lastDays,
                  attempted>>
  BY Zenon DEF Finish, radio
<1>3. \/ items' = items
      \/ /\ Current.kind \in {"control", "state"} /\ TriesLeft(Current) > 0
         /\ items' = Scheduled(items, {retry})
  BY Zenon DEF Finish
<1>4. jobs \in Seq(JobType) /\ Current \in JobType /\ Current = jobs[1] /\ 1 \in DOMAIN jobs
  BY <1>1 DEF Current, IndInv, TypeOK
<1>5. Current.kind = "control" => Current.call = version
  BY <1>4 DEF IndInv, ControlsAreNewest
<1>6. ASSUME Current.kind \in {"control", "state"}, TriesLeft(Current) > 0
      PROVE  /\ retry \in ItemType /\ retry.name \in {"control_retry", "update_retry"}
             /\ retry.day = "" /\ retry.tries > 0
             /\ retry.name = "control_retry" => retry.call = version
  <2>1. Tries \in Nat
    BY EQ3ClimateAssumption, Zenon
  <2>2. Current.call \in Versions /\ Current.tries \in 1..Tries
    BY <1>4 DEF JobType
  <2>3. TriesLeft(Current) \in 0..Tries
    BY <1>6, <2>1, <2>2 DEF TriesLeft
  <2>4. /\ RetryName(Current) \in {"control_retry", "update_retry"}
        /\ RetryName(Current) = "control_retry" => Current.kind = "control"
    BY <1>6 DEF RetryName
  <2> QED
    BY <1>5, <1>6, <2>2, <2>3, <2>4, UnsetTyped DEF Retry, Item, ItemType, ItemNames
<1>7. \A i \in items' :
        \/ i \in items
        \/ /\ i \in ItemType /\ i.name \in {"control_retry", "update_retry"}
           /\ i.day = "" /\ i.tries > 0
           /\ i.name = "control_retry" => i.call = version
  <2>1. \A i \in Scheduled(items, {retry}) : i \in items \/ i = retry
    BY Zenon DEF Scheduled
  <2> HIDE DEF retry
  <2> QED
    BY <1>3, <1>6, <2>1
<1> HIDE DEF retry
<1>8. /\ jobs' \in Seq(JobType)
      /\ \A k \in DOMAIN jobs' : k + 1 \in DOMAIN jobs /\ jobs'[k] = jobs[k + 1]
  BY <1>1, <1>4
<1>9. TypeOK'
  <2>1. items' \subseteq ItemType
    BY <1>7 DEF IndInv, TypeOK
  <2>2. valve' \in BOOLEAN
    <3>1. valve' = TRUE \/ valve' = FALSE
      BY Zenon DEF Finish, IndInv, TypeOK
    <3> QED
      BY <3>1
  <2>3. todo' \in Seq(AllCommands)
    <3>1. todo' = <<>>
      BY <1>1, Zenon
    <3> QED
      BY <3>1
  <2> QED
    BY <1>1, <1>2, <1>8, <2>1, <2>2, <2>3, Zenon DEF IndInv, TypeOK, Versions
<1>10. Shapes'
  BY <1>1, <1>7 DEF IndInv, Shapes, At
<1>11. SlotReturned'
  BY <1>1, <1>2 DEF IndInv, SlotReturned
<1>12. ControlsAreNewest'
  <2>1. \A i \in items' : i.name = "control_retry" => i.call = version'
    BY <1>2, <1>7 DEF IndInv, ControlsAreNewest
  <2>2. \A k \in DOMAIN jobs' : jobs'[k].kind = "control" => jobs'[k].call = version'
    BY <1>2, <1>8 DEF IndInv, ControlsAreNewest
  <2> QED
    BY <1>2, <2>1, <2>2, Zenon DEF IndInv, ControlsAreNewest
<1>13. ReportsAreOrdered'
  <2>1. \A i \in Reports' : i \in Reports
    BY <1>7 DEF Reports
  <2> QED
    BY <1>2, <2>1, ReportsFrame DEF IndInv
<1> QED
  BY <1>9, <1>10, <1>11, <1>12, <1>13 DEF IndInv

\* What was notified is scheduled to be parsed.
LEMMA TakeStep ==
  ASSUME IndInv, TakeNotifications
  PROVE  IndInv'
<1>0. PICK n \in DOMAIN notes : \E deferred \in SUBSET (1..n) :
        items' = Scheduled(items, {ParseItem(notes[k]) : k \in Latest(deferred)})
  BY Zenon DEF TakeNotifications
<1>1. PICK deferred \in SUBSET (1..n) :
        items' = Scheduled(items, {ParseItem(notes[k]) : k \in Latest(deferred)})
  BY <1>0, Zenon
<1>2. jobs # <<>> /\ step = "notify" /\ step' = "disconnect" /\ notes' = <<>> /\ success' = TRUE
  BY Zenon DEF TakeNotifications, At
<1>3. UNCHANGED <<slot, link, device, jobs, todo, sent, version, requested, climate, valve,
                  lastId, lastDays, attempted>>
  BY Zenon DEF TakeNotifications, known
<1> DEFINE P == {ParseItem(notes[k]) : k \in Latest(deferred)}
<1>4. Latest(deferred) \subseteq DOMAIN notes /\ DOMAIN notes \subseteq Nat
  <2>1. notes \in Seq(Notes)
    BY DEF IndInv, TypeOK
  <2> QED
    <3>1. DOMAIN notes = 1..Len(notes) /\ Len(notes) \in Nat
      BY <2>1
    <3>2. n \in 1..Len(notes)
      BY <1>0, <3>1
    <3>3. Latest(deferred) \subseteq 1..n
      BY <1>1, Zenon DEF Latest
    <3>4. 1..n \subseteq 1..Len(notes)
      BY <3>1, <3>2
    <3> QED
      BY <3>1, <3>3, <3>4
<1>5. \A k \in DOMAIN notes :
        /\ ParseItem(notes[k]) \in ItemType
        /\ ParseItem(notes[k]).name \in {"parse_id", "parse_schedule", "parse_notify"}
        /\ ParseItem(notes[k]).name = "parse_schedule" => ParseItem(notes[k]).day \in Days
        /\ ParseItem(notes[k]).name = "parse_notify" =>
             ParseItem(notes[k]).day = "" /\ ParseItem(notes[k]).at = notes[k].at
  <2>1. \A k \in DOMAIN notes : notes[k] \in Notes
    BY DEF IndInv, TypeOK
  <2> QED
    BY <2>1, ParseItemTyped
<1>6. \A i \in items' : i \in items \/ i \in P
  BY <1>1, Zenon DEF Scheduled
<1>7. \A i \in P : /\ i \in ItemType /\ i.name \in {"parse_id", "parse_schedule", "parse_notify"}
                   /\ i.name = "parse_schedule" => i.day \in Days
                   /\ i.name = "parse_notify" => i.day = ""
  <2> TAKE i \in P
  <2>1. PICK k \in Latest(deferred) : i = ParseItem(notes[k])
    OBVIOUS
  <2>2. k \in DOMAIN notes
    BY <1>4
  <2> QED
    BY <1>5, <2>1, <2>2, Zenon
<1>8. TypeOK'
  <2>1. items' \subseteq ItemType
    <3>1. items \subseteq ItemType
      BY DEF IndInv, TypeOK
    <3> HIDE DEF P
    <3> QED
      BY <1>6, <1>7, <3>1
  <2>2. notes' \in Seq(Notes)
    BY <1>2
  <2> QED
    BY <1>2, <1>3, <2>1, <2>2, Zenon DEF IndInv, TypeOK, Versions
<1>9. Shapes'
  <2> HIDE DEF P
  <2> QED
    BY <1>2, <1>6, <1>7 DEF IndInv, Shapes, At
<1>10. SlotReturned'
  BY <1>2, <1>3 DEF IndInv, SlotReturned
<1>11. ControlsAreNewest'
  <2>1. \A i \in items' : i.name = "control_retry" => i \in items
    <3> HIDE DEF P
    <3> QED
      BY <1>6, <1>7
  <2> QED
    BY <1>3, <2>1, Zenon DEF IndInv, ControlsAreNewest
<1>12. ReportsAreOrdered'
  <2>1. \A k, l \in Latest(deferred) : ParseItem(notes[k]).name = "parse_notify"
                                /\ ParseItem(notes[l]).name = "parse_notify" => k = l
    <3>1. SUFFICES ASSUME NEW k \in Latest(deferred), NEW l \in Latest(deferred),
                          ParseItem(notes[k]).name = "parse_notify",
                          ParseItem(notes[l]).name = "parse_notify", k < l
                   PROVE  FALSE
      BY <1>4
    <3>2. ParseItem(notes[k]).day = ParseItem(notes[l]).day
      BY <1>4, <1>5, <3>1
    <3>3. l \in deferred
      BY <3>1 DEF Latest
    <3> QED
      BY <3>1, <3>2, <3>3 DEF Latest
  <2>2. \A i \in Reports' : \/ i \in Reports /\ \A j \in P : j.name # "parse_notify"
                            \/ \E k \in Latest(deferred) : i = ParseItem(notes[k])
    <3>1. ASSUME NEW i \in items, i.name = "parse_notify", i \in Scheduled(items, P),
                 i \notin P, NEW j \in P, j.name = "parse_notify"
          PROVE  FALSE
      <4>1. i.day = "" /\ j.day = ""
        <5>1. i.day = ""
          BY <3>1 DEF IndInv, ReportsAreOrdered, Reports
        <5>2. j.day = ""
          BY <1>7, <3>1, Zenon
        <5> QED
          BY <5>1, <5>2
      <4> HIDE DEF P
      <4>2. i \in Without(items, j.name, j.day)
        BY <3>1, Zenon DEF Scheduled
      <4> QED
        BY <3>1, <4>1, <4>2 DEF Without
    <3>2. ASSUME NEW i \in P PROVE \E k \in Latest(deferred) : i = ParseItem(notes[k])
      BY <3>2
    <3> HIDE DEF P
    <3>3. items' = Scheduled(items, P)
      BY <1>1 DEF P
    <3> QED
      BY <1>6, <3>1, <3>2, <3>3, Zenon DEF Reports
  <2>3. \A i \in Reports' : i.name = "parse_notify"
    BY DEF Reports
  <2>4. \A i, j \in Reports' : i = j
    <3> TAKE i, j \in Reports'
    <3>1. CASE i \in Reports /\ j \in Reports
      BY <3>1 DEF IndInv, ReportsAreOrdered
    <3>2. CASE \E k \in Latest(deferred) : i = ParseItem(notes[k])
      BY <2>1, <2>2, <2>3, <3>2
    <3>3. CASE \E k \in Latest(deferred) : j = ParseItem(notes[k])
      BY <2>1, <2>2, <2>3, <3>3
    <3> QED
      BY <2>2, <3>1, <3>2, <3>3
  <2>5. \A i \in Reports' : i.day = "" /\ Before(climate, i.at) /\ Before(i.at, device)
    <3> TAKE i \in Reports'
    <3>1. CASE i \in Reports
      BY <3>1 DEF IndInv, ReportsAreOrdered
    <3>2. ASSUME NEW k \in Latest(deferred), i = ParseItem(notes[k])
          PROVE  i.day = "" /\ i.at = notes[k].at /\ k \in DOMAIN notes
      BY <1>4, <1>5, <2>3, <3>2
    <3>3. \A k \in DOMAIN notes : Before(climate, notes[k].at) /\ Before(notes[k].at, device)
      BY DEF IndInv, ReportsAreOrdered
    <3> QED
      BY <2>2, <3>1, <3>2, <3>3
  <2>6. Before(climate, device) /\ DOMAIN notes' = {}
    <3>1. Before(climate, device)
      BY DEF IndInv, ReportsAreOrdered
    <3>2. DOMAIN <<>> = {}
      OBVIOUS
    <3> QED
      BY <1>2, <3>1, <3>2, Zenon
  <2> QED
    BY <1>3, <2>4, <2>5, <2>6, Zenon DEF ReportsAreOrdered, Before
<1> QED
  BY <1>8, <1>9, <1>10, <1>11, <1>12 DEF IndInv

-----------------------------------------------------------------------------
(* The theorems.                                                           *)

\* The thermostat's component starts in the invariant, ...
LEMMA InitInv == Init => IndInv
<1> SUFFICES ASSUME Init PROVE IndInv
  OBVIOUS
<1>1. /\ slot = "Free" /\ link = FALSE /\ notes = <<>> /\ device = Unset /\ items = {} /\ jobs = <<>>
      /\ step = "acquire" /\ todo = <<>> /\ sent = FALSE /\ success = FALSE /\ version = 0
      /\ requested = [v \in 1..MaxVersion |-> {}] /\ climate = Unset /\ valve = FALSE
      /\ lastId = FALSE /\ lastDays = {} /\ attempted = 0
  BY Zenon DEF Init, Slot!Init
<1>2. Unset \in Snapshots /\ 0 \in Versions
  BY UnsetTyped
<1>3. TypeOK
  <2>1. notes \in Seq(Notes) /\ jobs \in Seq(JobType) /\ todo \in Seq(AllCommands)
    <3>1. notes = <<>> /\ jobs = <<>> /\ todo = <<>>
      BY <1>1, Zenon
    <3> QED
      BY <3>1
  <2> QED
    BY <1>1, <1>2, <2>1, Zenon DEF TypeOK
<1>4. Shapes
  BY <1>1 DEF Shapes, At
<1>5. SlotReturned
  BY <1>1 DEF SlotReturned
<1>6. ControlsAreNewest
  BY <1>1 DEF ControlsAreNewest, Unset
<1>7. ReportsAreOrdered
  BY <1>1, <1>2, BeforeReflexive DEF ReportsAreOrdered, Reports
<1> QED
  BY <1>3, <1>4, <1>5, <1>6, <1>7 DEF IndInv

\* ... and every step keeps it.
LEMMA NextInv == IndInv /\ [Next]_vars => IndInv'
<1> SUFFICES ASSUME IndInv, [Next]_vars PROVE IndInv'
  OBVIOUS
<1>1. ASSUME NEW fields \in Requests, Control(fields) PROVE IndInv'
  BY <1>1, ControlStep
<1>2. CASE Update
  BY <1>2, UpdateStep
<1>3. CASE RunRetry("control_retry") \/ RunRetry("update_retry")
  BY <1>3, RetryStep
<1>4. CASE RunParse
  BY <1>4, ParseStep
<1>5. CASE SessionStep
  BY <1>5, AcquireStep, ConnectedStep, PassStep, SendStep, SkipStep, QueryStep, TakeStep,
     FinishStep DEF SessionStep
<1>6. CASE Environment
  BY <1>6, LoseLinkStep, DrainedStep DEF Environment
<1>7. CASE UNCHANGED vars
  <2>1. UNCHANGED <<slot, link, device, notes, items, jobs, step, todo, sent, success, version,
                    requested, climate, valve, lastId, lastDays, attempted>>
    BY <1>7, Zenon DEF vars, radio, session, known
  <2>2. TypeOK'
    BY <2>1, Zenon DEF IndInv, TypeOK, Versions
  <2>3. Shapes'
    BY <2>1, Zenon DEF IndInv, Shapes, At, Current
  <2>4. SlotReturned'
    BY <2>1, SlotFrame DEF IndInv
  <2>5. ControlsAreNewest'
    BY <2>1, Zenon DEF IndInv, ControlsAreNewest
  <2>6. ReportsAreOrdered'
    BY <2>1, Zenon DEF IndInv, ReportsAreOrdered, Reports, Before
  <2> QED
    BY <2>2, <2>3, <2>4, <2>5, <2>6 DEF IndInv
<1> QED
  BY <1>1, <1>2, <1>3, <1>4, <1>5, <1>6, <1>7 DEF Next

\* The invariant holds in every behaviour of the thermostat's component.
THEOREM Invariance == Spec => []IndInv
BY InitInv, NextInv, PTL DEF Spec

\* Every variable keeps its type.
THEOREM TypeCorrect == Spec => []TypeOK
<1>1. IndInv => TypeOK
  BY DEF IndInv
<1> QED
  BY <1>1, Invariance, PTL

\* connect() and disconnect(): on every way out of a session the client is
\* deleted, and no session starts with one.
THEOREM SlotGivenBack == Spec => []SlotReturned
<1>1. IndInv => SlotReturned
  BY DEF IndInv
<1> QED
  BY <1>1, Invariance, PTL

\* Only Send changes what the thermostat has applied.
LEMMA DeviceAdvances == IndInv /\ [Next]_vars => Before(device, device')
<1> SUFFICES ASSUME IndInv, [Next]_vars PROVE Before(device, device')
  OBVIOUS
<1>1. CASE Send
  BY <1>1, SendStep
<1>2. CASE ~Send
  <2>1. UNCHANGED device
    BY <1>2 DEF Next, SessionStep, Environment, Control, Update, RunRetry, RunParse, AcquireClient,
       Connected, ConnectFails, Skip, HandlerDone, QueryState, TakeNotifications, NoNotification,
       Disconnect, Finish, LoseLink, Drained, vars, radio
  <2>2. device \in Snapshots
    BY DEF IndInv, TypeOK
  <2> QED
    BY <2>1, <2>2, BeforeReflexive
<1> QED
  BY <1>1, <1>2

\* control(): however retries, replaced calls and lost answers interleave, what
\* a later call set on the thermostat is never set back by an earlier one.
THEOREM NewestWins == Spec => NewestCallWins
<1>1. IndInv /\ [Next]_vars => [\A f \in Fields : device'[f] >= device[f]]_vars
  <2> SUFFICES ASSUME IndInv, [Next]_vars PROVE \A f \in Fields : device'[f] >= device[f]
    OBVIOUS
  <2>1. Before(device, device') /\ IndInv'
    BY DeviceAdvances, NextInv
  <2>2. device \in Snapshots /\ device' \in Snapshots
    BY <2>1 DEF IndInv, TypeOK, Snapshots, Versions
  <2> QED
    BY <2>1, <2>2 DEF Before, Snapshots, Versions
<1> QED
  BY <1>1, Invariance, PTL DEF Spec, NewestCallWins

\* Only RunParse publishes.
LEMMA ClimateAdvances == IndInv /\ [Next]_vars => Before(climate, climate')
<1> SUFFICES ASSUME IndInv, [Next]_vars PROVE Before(climate, climate')
  OBVIOUS
<1>1. CASE RunParse
  BY <1>1, ParseStep
<1>2. CASE ~RunParse
  <2>1. UNCHANGED climate
    BY <1>2 DEF Next, SessionStep, Environment, Control, Update, RunRetry, Send, AcquireClient,
       Connected, ConnectFails, Skip, HandlerDone, QueryState, TakeNotifications, NoNotification,
       Disconnect, Finish, LoseLink, Drained, vars, known
  <2>2. climate \in Snapshots
    BY DEF IndInv, TypeOK
  <2> QED
    BY <2>1, <2>2, BeforeReflexive
<1> QED
  BY <1>1, <1>2

\* parse_state(): what is published never goes back to an older report.
THEOREM ReportsOrdered == Spec => ReportsInOrder
<1>1. IndInv /\ [Next]_vars => [\A f \in Fields : climate'[f] >= climate[f]]_vars
  <2> SUFFICES ASSUME IndInv, [Next]_vars PROVE \A f \in Fields : climate'[f] >= climate[f]
    OBVIOUS
  <2>1. Before(climate, climate') /\ IndInv'
    BY ClimateAdvances, NextInv
  <2>2. climate \in Snapshots /\ climate' \in Snapshots
    BY <2>1 DEF IndInv, TypeOK, Snapshots, Versions
  <2> QED
    BY <2>1, <2>2 DEF Before, Snapshots, Versions
<1> QED
  BY <1>1, Invariance, PTL DEF Spec, ReportsInOrder
=============================================================================
