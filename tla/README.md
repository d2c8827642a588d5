# Verification of ayufan/esphome-components

TLA+ specifications of the components in `src/components`, the TLC runs that
check them on small instances, and TLAPS proofs of what holds for every
instance. Names in the modules are the names in the source; the comment of each
action says which function it is.

## 1. Inventory

The components run in esphome's main task (`setup()`, `loop()`, `update()` and
the scheduler's items, one after the other) next to tasks they do not own: the
Bluetooth callback task, the TCP callback task, an HTTP server task. There are
no tests in the repository.

| component | state it keeps | operations | hard behaviour | what makes it correct |
|---|---|---|---|---|
| BLE registry, `esp32_ble_clients/esp32_ble.cpp` | `app_ids`, `gattc_ifs`, `next_app_id` under one lock | `acquire`, `release`, event lookup | a client is looked up under the lock and used outside it; one slot for everybody; events for clients that are gone | no deleted client is used, events reach the client they are for, the slot comes back |
| BLE client, `esp32_ble_client*.cpp` | connection state, interface, connection id, services, notifications, a handler per event | `connect`, `disconnect`, `request_services`, `write`, `register_notify`, ... each waiting for an event with a timeout | answers that come after their timeout; links dropped at any time; API calls that fail half-way | an answer is the answer to the request waited for; a lambda that captures a stack frame is gone when the frame is; a `Ready` client has a link |
| Thermostat, `eq3_v2` | pending scheduler items, known id and schedule, published state | `control`, `update`, their retries, parsing of notifications | a retry of an old call after a new one; sessions that fail at every step; deferred parsing | the newest call wins, reports do not go back, the BLE slot is given back, retries end |
| Serial bridge, `stream_server` | the client list, the chunk being sent and how many clients have it, received bytes | `loop` (clean up, read, write), TCP callbacks | the list shrinks and grows in the middle of a chunk; slow clients; limits | nobody gets a chunk twice, no byte to the UART is lost or reordered, one client does not stop the rest |
| Camera web server, `esp32_camera_web_server3` | `image_`, `running_`, a binary semaphore | the image callback, stream and snapshot handlers, `loop`, `on_shutdown` | two tasks share both variables without a lock; shutdown joins the other task | frames in order and once, the frame buffer is given back, no handler outlives the semaphore, shutdown ends |
| Camera web server, `esp32_camera_web_server2` | `image_`, `client_`, `server_`, a binary semaphore | the image callback, a task of its own with both handlers, `on_shutdown` | the same, without `loop()`; the task is killed wherever it is | frames in order and once, a client that left is noticed |
| HTTP server, `esp32_camera_web_server3/idf` | sessions, LRU counters, a control socket; per session the pending data, per request the scratch buffer and the parser's data | `select()`, accept, purge, queued work, stop; reading, parsing, answering | least recently used purge with one socket, queued work, shutdown message; data that is pushed back and read again; bodies nobody read | a new connection is served in the end; each request is read from its first byte and answered once and in order |
| TP-Link plug, `tplink_plug` | `clients_` of raw pointers, switches | UDP and TCP requests | several clients done in one pass | the list holds existing clients only |
| `zp16`, `inode_ble`, `memory` | a receive buffer; none; none | parsing | byte level | values are decoded as documented |

How they interact: `eq3_v2` calls the BLE client, which calls the registry and
the Bluetooth stack; the stack calls the registry from its own task, and the
registry the client. All components of one device share the single BLE slot.
The camera calls the web servers back in the main task. The rest stand alone.

## 2. Modules

| module | models | theorems in |
|---|---|---|
| `ESP32BLE` | registry, client, and the Bluetooth stack as their environment | `ESP32BLEProofs`, `ESP32BLEAnswersProofs` |
| `BLESlot` | what `acquire()` promises, abstractly; implemented by `ESP32BLE`, used by `EQ3Climate` | |
| `EQ3Climate` | the thermostat, on top of `BLESlot` | `EQ3ClimateProofs` |
| `StreamServer` | the serial bridge | `StreamServerProofs` |
| `CameraWebServer` | the hand-over of images in `esp32_camera_web_server3`, with the HTTP task's loop and `httpd_stop()` | `CameraWebServerProofs` |
| `HttpServer` | the loop, the sessions and their purge, the control messages and `httpd_stop()` of `esp32_camera_web_server3/idf` | `HttpServerProofs` |
| `HttpRequest` | one session of that server byte by byte: blocks, the parser's pauses, the pushed back data, the response, the rest of a body | `HttpRequestProofs` |
| `RequestStream` | what a client may suppose of its connection, abstractly; implemented by `HttpRequest` | |
| `CameraWebServer2` | `esp32_camera_web_server2` | `CameraWebServer2Proofs` |
| `TplinkPlug` | clients and requests of the TP-Link plug | |

`MC*` modules hold the values of constants that a configuration cannot write.
Operators marked "Mutant" in a comment are plausible wrong versions of the
definition after them; no specification uses one. They document what each
property rules out: with the mutant in the place of the definition, the property
is violated.

### ESP32BLE

The main task runs one method at a time, as a script of requests
(`Script`: `connect` is register, open, MTU; the destructor is close,
unregister, release, free). A request is skipped when the client is not in the
state it `Needs` (`Skip`), refused by the API (`Refuse`), or made (`Ask`): then
the lambda of `wait_for_event` is installed (`hook`) and the lock given until the
lambda has run or the time is over (`Wake`, `Leave`). The Bluetooth task is two
steps: `Pick` looks the client up under the registry's lock, `Dispatch` runs the
handler under the client's lock; `btc` is the pointer held in between. If the
client was deleted there, `DispatchFreed` is a crash and `Reboot` follows. The requests by which
the callback task cleans up after an unknown client are made behind the lock in the
code and with the look-up in `Pick`; its comment says why that is the same.

The stack is external: a queue of requests `reqs`, a queue of events `evq`, and
per interface whether a link is open and who registered it. It answers in order,
may fail, and may be late: an event in `Timeouts` may come after its timeout, all
others are waited for. Which of them are late is the difference between the runs.

`BLESlot` is the view of a caller with `MAX_CLIENTS = 1`; `SlotState` is the
refinement mapping and `ImplementsSlot` the abstract specification as a property.
"Draining" is the time after the destructor in which `gattc_ifs` still holds the
entry.

### EQ3Climate

`control()` and `update()` become `items` of the scheduler (named, so a later
one replaces an earlier one, as `set_timeout` and `defer` do) and `jobs`, the
sessions that `with_connection()` runs: acquire, connect, send commands, wait
for a notification, disconnect, each with its failures. A call of `control()` is
represented by its number; `device` and `climate` remember per field which call
their value stems from, so "newer" can be said. Only what a session may still
see is in `notes`; deleting the client loses it.

The handler of a session goes through all commands of its kind and sends those
that are `Wanted` (the fields of the call, the days not known yet); the others it
skips (`Skip`). A call can set nothing, and then only the query is sent.
`wait_for_notify` lets several notifications arrive; of two with the same name and
day `parse_client_notify` keeps the later one (`Latest`). It defers nothing for a
notification of an unknown kind, and a deferred parse drops data of a wrong size or
day: any of them may be such.

### StreamServer

One step per operation on a vector, with the TCP callbacks between any two. That is
each turn of `cleanup()`'s two loops (`FindLost`, `MoveKept`, `MoveLost`), its
`resize()`, and `push_back()` and `discard_clients()` in `onClient` (`accepting` is
the time between them); only the pass of `disconnect_over()` is one step. So a client
pushed back between the last turn and `resize(count)` is dropped by it.
A chunk is a single value and `send_client_` counts the clients of the list that
have it; `copies` is the history of who was sent it. Received bytes are numbered.
`read_array()` may fail (`ReadFails`): the bytes `send_buf_` was resized to, which
were never read, are then a chunk like any other.

### CameraWebServer

Every access to `image_` and `running_` is a step, because the code takes no
lock; `swap()` reads in one step and clears in the next. Images are numbered.
The words of a `shared_ptr` other than the pointer are not modelled: what an
overlapping swap does to its reference counts is undefined and outside the model.
The camera calls back with images at any time, as other consumers request them
too. The 2 s and the send timeouts are choices. `httpd_stop()` is its message, its
polls of the status that the HTTP task sets at its end (`status`, `Join`), and only
then the semaphore is deleted.

### HttpServer

`sd` is `hd_sd`, one record per slot: descriptor, `lru_counter`, and whether the
session kept data the parser read too far. `pc` is where `httpd_server()` is:
`select()`, one control message, the loop over the sessions with a request and
the rest of its body, `accept()`. `ready` is what `select()` found and may be old
when it is used. `backlog` is what `listen_fd` holds for `accept()`.
`httpd_queue_work()` and `httpd_stop()` append a datagram to `transit`; it arrives
in `mailbox`, the control socket, of which `TakeMessage` takes one per loop. With
`Prompt` it arrives before the next `select()`, as over the loopback interface it
does. `httpd_sess_close_lru()` thus ends in two steps, the choice of the slot
(`CloseLru`) and the closing of what is there later (`TakeMessage`, `Purge`).
`select()` may fail for a descriptor that is no longer valid, and the sessions of such
are forgotten (`SelectFails`); reading a message may fail, and it is lost (`TakeFails`).

A request is its arrival, whether it has a body, and how it ends: served, refused
(parser, timeout and failing handler alike), or the peer is gone. What the parser
does with the bytes, the URI table and the responses are left out. The end of the
task closes everything in one step (`Exit`): the loop takes no more requests then.

### HttpRequest

`HttpServer` has the sessions and takes a request as one step; `HttpRequest` has
one session and takes each byte. A byte is its position in what the client sends,
and `stream` says which part of which request it is. The real buffers hold 128
and some hundred bytes, the model's 3 and 7: the order of what happens at their
ends is the same.

`ReadBlock` is `read_block()` and `parse_block()` up to `http_parser_execute()`;
then there is a step per byte for the callback it causes, until the block is done
(`BlockDone`) or a callback paused. `pause_parsing` happens at three places: at
the first header (`FirstHeader`), so that the headers are read again to the
buffer's beginning, at the body (`cb_on_body`), and behind the headers when there
is no body (`NoBody`). `http_parser` returns behind the field that caused the
pause, so that a part of the pushed back bytes is skipped when they are read again
(`PreParsed`, `Skip`). An end of a header line belongs to the part before it. The
code's own checks of line ends and of the parser's state never fail, since
`http_parser` calls back in the order of the grammar; they are left out. A target can
be refused while it is read (`LongTarget`) and at its end (`BadUrl`), and an upgrade
behind the headers (`Upgrade`): whether a request asks for such is a choice.

A chunked body has no length: `content_len` and with it `remaining_len` is 0, the
chunks are pushed back from the first one's data on (`cb_on_body`), or from the first
size on when all are empty (`LastChunk`), nobody reads them, and the server parses
what is left of them as the next request. That no byte of a chunk's data looks like
the beginning of a request is supposed; trailers behind the last chunk are left out.

The handler is a snapshot's: it fails (`NoAnswer`) or sends a response in pieces.
What it leaves of a body is read by `Purge`, which uses the pending data *and* the
socket's, where the parser's reads use only one of them. `parsed` is the history
of the bytes the request was made of, and `answers` of the requests that were
answered: `AbstractStream` maps it to `RequestStream`.

### CameraWebServer2

As `CameraWebServer`, with `client_` in the place of `running_`. Each call of
`on_shutdown()` is a step; `Return` is the task leaving its function between
`server_.stop()` and `vTaskDelete()`, which FreeRTOS answers with a restart.

### TplinkPlug

One `loop()` is three steps. A request is reduced to how far it has arrived,
whether its length is in bounds and what it asks. Addresses are reused.

## 3. Runs

| run | instance | what it shows |
|---|---|---|
| `ble_late_link` | answers about the link late (all but one kind), refused, failing | an answer in time is the answer to the current request, no use after free, a free slot is quiet, `Ready` means a link, the slot is freed, and `BLESlot` is implemented |
| `ble_late_close` | everything but the registration late, every request refused or failing; crashes and restarts | types, the registry, the frames of lambdas; events reach their owner; no session hangs |
| `ble_late_register` | only the registration late | **violated:** the slot is lost for ever |
| `eq3_sessions` | two calls of `control()`, any number of updates, two tries | newest call wins, reports in order, slot returned, last call attempted, retries end |
| `stream_relay` | three clients, limits -2, 2 and none | a chunk once per client, bytes in order, the limit holds, the relay goes on |
| `stream_skips` | three clients, no limit | **violated:** a client is skipped for a chunk |
| `camera_images` | three images | frames in order, buffer given back, no signal for a waiting handler is missing, shutdown ends |
| `camera2_images` | three images, three clients | frames in order, a client that left is noticed |
| `http_sessions` | three connections, two sessions, three requests | one session per socket, the purge closes the least recently used one, room is made although `accept()` and the sending of a purge may fail, requests are read, `httpd_stop()` ends |
| `http_waiters` | two connections, one session | **violated:** a connection waits for ever |
| `http_requests` | two requests from a set of 21 streams, blocks of 3 and a buffer of 7 bytes | each request of known length is read from its first byte and not refused as malformed or too long, the handler sees its own headers, answers are in order and whole, none from inside of chunks (`RequestStream` is implemented), requests are answered |
| `tplink_done` | two clients, as in the code | **violated:** a pointer to a deleted client stays in the list |

### Bounds

* BLE: two addresses and two interface numbers, so that a second client can get
  the old or a new one of each; `MAX_CLIENTS = 1` as in the code. `MaxAppId = 2`
  is one more than one client needs. `MaxCalls` of 2 or 3 is enough to connect,
  do something, and disconnect or fail before the destructor; `MaxPending` bounds
  what is left in the stack when a *method* starts (never the destructor),
  `MaxEvents` what the stack holds when it adds a notification.
* Thermostat: a third call of `control()` or a third try adds no new kind of
  overtaking. One field and one day, and calls that set the field or nothing;
  fields are independent in every property, and the theorems hold for any number
  of fields, days, tries and calls.
* Serial bridge: with three clients, two can be lost before the one that is next.
* Camera: one image is sent, one replaced and one comes too late.
* HTTP server: with three connections for two sessions the table is full, is
  purged and has a place again; with three requests both sessions have a counter
  above 0 while one waits. `MaxMessages = 2` is less than a real control socket
  holds, and never full in the run: one purge and one shutdown message is all
  there can be. `backlog_conn = 1` keeps the run small; waiting connections do
  not act on each other.
* Requests: the streams have a first request that ends inside a block with and
  without a body, names of two bytes that a block's end splits, and second
  requests too long in each of their parts; a third request would find the
  session as the second does. A body of three bytes is longer than a purge of two
  and ends in another block. Chunked requests have chunks with data, none, or a size
  that the block splits and that is too long to be pushed back. `RESP_HDRS = 1` gives
  every kind of piece.
* `CameraWebServer2`: a third client can meet a store that was decided for the
  first one.

### Fairness

* BLE: the main task goes on and deletes its client some day, the Bluetooth task
  is scheduled, the stack executes requests, a panic restarts the chip. Nothing
  is assumed of the device. `wait_for_event` has a timeout, hence `Wake`.
* Thermostat: the main task runs sessions to their end, each step of them having
  a timeout; the scheduler runs all items that are due in each pass, hence strong
  fairness for each kind of item, which a long session can delay only.
* Serial bridge: `loop()` is called again and again; a client that stops reading
  reads on or its TCP connection times out. `ChunkSent` supposes that no more
  clients connect: with clients that come and go for ever it does not hold.
* Camera: both tasks are scheduled, `select()` returns for the control message,
  sends and waits end at their timeout. That the shutdown message, a datagram on
  the loopback interface, arrives is assumed; the code does not check it.
* HTTP requests: the server's task is scheduled and its calls end at their
  timeouts; nothing is assumed of the client, of other sessions or of errors of
  `recv()` (`RecvFails`), hence the two exceptions in `RequestAnswered`. `CameraWebServer2`: both tasks are scheduled.
* HTTP server: `accept()`, the sending of a purge and the reading of a message fail now
  and then, not for ever (strong fairness); its task and the stack are scheduled, `recv()` and `send()` end at
  their timeouts, a snapshot's handler at its own. The handler of a stream has no
  such end; a viewer that stays keeps everybody else out, and no property says
  otherwise of a server inside a handler. Peers are not fair at all.

`CHECK_DEADLOCK FALSE` only where the system may end: the cameras' runs when both
tasks have, the HTTP server's after `httpd_stop()`, the session's when it is closed.

## 4. Findings

Each with the run that shows it:

1. `ble_late_register`: a registration that is answered after `timeout_ms` enters
   `gattc_ifs` with nobody to unregister it; `acquire()` fails until a reboot.
2. `stream_skips`: `cleanup()` compares the decremented `send_client_` with an
   index of the old list (`stream_server.cpp:107`); with two lost clients before
   it, a connected client does not get the chunk.
3. `http_waiters`: the counter starts at 0 (`httpd_sess.c:204`), so the session
   served first has `lru_counter` 0, and `httpd_sess_close()` takes that for "not
   used yet" and leaves it. As the least counter it is chosen again and again: if
   its peer stays and asks nothing more, waiting connections are never accepted,
   and the loop, whose `listen_fd` stays readable, never sleeps.
4. `tplink_done`: `erase(begin() + done)` removes one element when several
   clients are done.

Seen while modelling, without a run of their own:

* BLE: a `CLOSE` that comes after its timeout also loses the slot when it meets a
  client that is being destroyed, and a client can be used after its deletion once
  closing or registering is late. So does a `CLOSE` that fails or is refused: the
  client stays `Ready` without a link, its interface is not unregistered by the
  destructor, and, if refused, a client can be used after its deletion. And a
  registration that *fails* leaves the interface number it is reported with in
  `gattc_ifs` (`esp32_ble.cpp:165`), which no `UNREG` ever erases: `acquire()` fails
  from then on. The properties of `ble_late_link` hold because there only requests and
  answers about the link are late, refused or failing; `ble_late_close` has all of
  these, but its properties do not speak of the slot. Of the kinds that are late, an answer may be that
  to the request before: `AnswersAreOwn` speaks of the others.
* Serial bridge: positive and negative `max_clients` do the opposite of what
  `stream_server/README.md:27` says (`stream_server.cpp:81`); a partly written
  chunk counts as sent (`stream_server.cpp:151`); when `read_array()` fails, bytes that
  were never read are sent to every client (`stream_server.cpp:124`); a client that
  connects while `cleanup()` runs can be dropped with its `resize()` (`Resize`).
* Thermostat: `control_retry()` reports success when one of several commands, or
  only the fallback query, got through (`eq3.cpp:163`); days other than the first
  are never asked for again (`eq3.cpp:45`); `schedule->day > EQ3_LastDay` lets one
  day too many through (`eq3.cpp:255`).
* Cameras: the binary semaphore stays given when `image_` was taken without
  waiting or dropped at the end of a request; the next wait returns at once with
  nothing, and the stream ends or the snapshot answers 500 (`camera_web_server.cpp:107`
  of `esp32_camera_web_server3`, 117 of `esp32_camera_web_server2`). The value of a
  snapshot's second `Content-Length` belongs to a temporary string that is gone
  when it is sent (`camera_web_server.cpp:234`). The handler of a stream that
  never had a frame returns `ESP_OK` after no response at all.
* `esp32_camera_web_server2`: between `server_.stop()` and `vTaskDelete()` the task
  can leave its function, which is a restart (`Return`); a task deleted in the
  middle of a stream leaves `start_stream()` and a reference to its image behind; a
  store decided for the last client stays in `image_` until the next request.
* HTTP server: with a control message that is late, the slot it points to may have
  a newer session, which is then closed (`Prompt = FALSE`, `PurgesLru` fails);
  `httpd_stop()` does not look at what `sendto()` returns and waits for ever if the
  message is lost, or if the server's task fails to read it.
  `httpd_register_uri_handler()` leaves a pointer to freed memory in `hd_calls` when
  `strdup()` fails (`httpd_uri.c:167`).
* HTTP requests: a peer that ends its side inside a body makes the loop of
  `httpd_req_delete()` spin for ever, as `recv()` then returns 0 (`httpd_parse.c:729`;
  `BodyCut`, and `StopEnds` with `Bodies = TRUE`); a request that the session kept
  waits for the next event of any descriptor (`Kept`), though `esp_httpd_priv.h:241`
  names the case; behind a request without headers its own target is pushed back,
  and read as the next request (`Behind`; `InBounds` supposes headers); a header
  section that fills the buffer exactly is answered 500 when a body follows; the
  chunks of a chunked request are parsed as the next request (`httpd_parse.c:370`);
  the version check has `&&` for `||` and lets HTTP/1.0 and 2.1 through (`httpd_parse.c:94`).
* `zp16`: `check_byte_()` accepts every second byte (`zp16.cpp:121`).

## 5. Proofs

`ESP32BLEProofs` proves, for any number of clients, interfaces and calls, from
`ESP32BLEAssumption` and `NullAssumption` (no event is the value that stands for
none), `TypeCorrect`, `RegistryCorrect` and `HandlersFramed`: `TypeOK`,
`RegistryOwnsClient` and `HookFramed` hold in every reachable state, whatever is
late, refused or failing.

None of the three is inductive alone. `RegistryOwnsClient` needs to know where
the destructor is, which is what is left of its script, so `TypeOK` says that
`todo` is the end of a script; `HookFramed` needs that a method runs under the
lock and with an existing client (`MainShape`); typing of `Ask` needs that a
`Ready` client has a connection id. `IndInv` is their conjunction; there is one
lemma per action, collected by `NextInd`. The same module proves with a condition:

* `NeverUsedAfterFree`, `FreedSlotIsQuiet`, `ReadyClientHasLink`: `NoUseAfterFree`,
  `FreeSlotIsQuiet` and `ReadyHasLink` hold if registration, close and unregistration
  are answered in time, and close and unregistration are accepted and do not fail
  (`InTime`); connections, searches and writes may be late, be refused or fail, and
  the device may drop the link at any time. `SessionInv` is the life of a client that
  they follow from. While it is `Idle` there is nothing in the stack or on its way
  (`Quiet`) but the registration that is waited for (`Registering`). Otherwise it has
  one interface; all that is asked and reported is about it (`Requested`, `Reports`),
  the request to give it up and the event that says so are the last, and a link that
  the client knows of or will hear of is open or its end is behind. `MethodKnows` is
  what the running method has learnt: an interface is given up only when the client
  is not `Ready`, and the destructor releases the client only when it is `Idle`.
  Without `InTime` the destructor can find another state than it waited for, so
  nothing is claimed then.
* `SlotImplemented`: under `InTime` and with one client at a time, the initial states
  and the steps of `ESP32BLE` are those of `BLESlot`, the safety part of
  `ImplementsSlot`. A slot that is free stays free until `acquire()`, since nothing is
  left that could bring an entry into `gattc_ifs` (`Alive`).

`ESP32BLEAnswersProofs` proves `AnswersAreAwaited`, which is `AnswersAreOwn` for
the kinds that only methods ask for, and for any number of clients: of a kind that
is in time, no answer is on its way but the one being waited for, however late the
other kinds are. `AnswerInv` adds to it that a wait that is over has had its answer
or will not get one. The events of a kind are counted over the two queues and the
callback task's hand (`FlightParts`), so that each step moves an event, answers a
request or asks a new one after the count was zero. `UNREG` is requested by the
callback task too (`Cleanup`, for a client that is gone); under `InTime` it never is,
which `EveryAnswerIsOwn` concludes from `SessionInv`, and which gives `AnswersAreOwn`
for all kinds it is about.

The same module proves `EventsReachOwner`: with one client at a time and
registrations in time, `EventsReachTheirOwner` holds whatever else is late, refused
or failing, although `app_id` 1 and the interface numbers are used again.
`Orderly` is the argument: the events of an interface come while `gattc_ifs` has
the entry of the client that registered it (`Entered`), from its registration to its
end, and `acquire()` counts these entries, so that it lets a client in only when the
events of the one before are gone. The limit of one client is needed: with
`MAX_CLIENTS = 2` TLC finds, in 22 steps, a client deleted while its interface is
being given up and the next one getting the same `app_id` and with it the `UNREG`.

`CameraWebServerProofs` proves `TypeCorrect`, `FramesOrdered` and `WaitersSignalled`
for any number of images. `Newer` orders the images by where they are: sent, in
hand, in `image_`, about to be stored; each is newer than the one before. It is
what makes a swap that overlaps a store harmless for the order. `Joined` and `Signalled`
make `WaitIsSignalled`: the semaphore is gone only when the HTTP task has said that it
stopped, which no handler outlives, and whoever clears `image_` between the store and
the signal leaves a token too many, never one too few.
`CameraWebServer2Proofs` proves the same of `esp32_camera_web_server2`, for any
number of clients too. There the order survives that a store decided for one
client lands in the next one's request, and the semaphore is safe because the
task is deleted before it (`Deleted`).

`EQ3ClimateProofs` proves `TypeCorrect`, `SlotGivenBack`, `NewestWins` and
`ReportsOrdered` for any fields, days, tries and calls, from `EQ3ClimateAssumption`
(names of fields and days differ, there is a day and a try):

* `NewestCallWins` is not inductive: a retry scheduled for an old call would break
  it. `ControlsAreNewest` says that there is none, because `control()` cancels the
  retry it replaces and calls come only between sessions.
* `ReportsInOrder` needs all places a report passes to be in one order: what is
  published, the one item that waits to be parsed, the notifications of the session
  and the thermostat's state (`ReportsAreOrdered`).
* `Shapes` says what items of each name contain. There is a lemma per action; the
  four `*Frame` and `Before*` lemmas say what an action that leaves something alone
  cannot break.

`HttpServerProofs` proves, for any number of connections, sessions and requests
and any backlog:

* `TypeCorrect` and `SessionsMatchSockets` (`TypeOK`, `OneSessionEach`). `IndInv`
  adds `Queues`: what `select()` found stays true until it is used, as only the
  server's task takes anything away, so that `accept()` never meets an empty queue.
* `PurgeCorrect`: if datagrams arrive before the next `select()` (`Prompt`), each
  purge closes the least recently used session. `PurgeInv` is the argument: from
  the choice to the closing there is at most one purge on its way, and neither the
  table nor a counter changes. Without `Prompt` it does not hold (section 4).

Both searches of the code, `httpd_sess_close_lru()` and the walk over the
descriptors, are least elements in the model; that a nonempty set of numbers has
one follows from `<` being well-founded on `Nat` (`MinExists`), and that a finite
set of slots has a last one by reversing the order (`MaxExists`).

`StreamServerProofs` proves `UartFaithful`: bytes reach the UART once, all of them
and in order, because what `erase()` removes is what `write_array()` wrote even if
`recv_buf_` has grown in between (`Waiting` is what is left to write).
It also proves `TypeCorrect`, `ChunkSentOnce` and `LimitKept` for
any number of clients and any `max_clients`:

* that no client gets a chunk twice follows from `NotYetSent`: nobody from
  `send_client_` on has it. During `cleanup()` this is said of the place a client will
  have behind it (`Place`), and nothing of those that will have none (`Dropped`): no
  turn of the second loop lets `send_client_` fall behind the clients that stay and had
  the chunk, and a client pushed back meanwhile has no chunk yet. `send_client_` may be
  ahead of them, which is finding 2.
* the limit follows from `FewButOne`: before the last client that `disconnect_over`
  leaves connected there are fewer than `max_clients` others.

`HttpRequestProofs` proves, for any sizes of the block, the buffers and the response,
`TypeCorrect` and `NoByteLost` whatever bytes the clients send, and the rest for clients
that send requests as HTTP has them, the last one perhaps cut short
(`ClientsKeepToHttp`; the streams of the run do, which `MCHttpRequest` assumes and TLC
evaluates): `RequestsWellRead`, `HandlerSeesHeaders` and `StreamImplemented`. The
invariant, `IndInv`, has four parts, and each rests on those before it:

* `BytesInv`: socket, pending data and buffer are stretches of the client's bytes, one
  behind the other (`Taken`, `Run`). While a request is read, either the buffer ends
  where the server has got to (`Buffered`), or it begins anew with what was pushed
  back, of which the parser has seen the first `pre_parsed` bytes (`Repeated`); in both
  cases the next byte to be parsed is the one behind the last that was (`ParsedUpTo`).
  What is pushed back has room, because a block is no longer than the pending data.
* `HeadersInv`: up to the first header the buffer holds the request from its beginning,
  from then on it holds headers only (`Composed`); a header is counted when it ends
  (`Counted`).
* `RequestsInv`: a request is begun where those before it end (`Boundary`), all that is
  parsed is of one request (`InRequest`), and what the response leaves to
  `httpd_req_delete()` is the rest of its body (`Ahead`). Behind a request without
  headers the server is astray, at that request's target, and behind one with chunks
  inside of them (`Astray`; section 4), where nothing begins a request (`NoneBegins`).
* `WellRead` itself: at a byte the parser does not take, or with a full buffer, the
  bytes that were parsed are too many, or the request has no headers or chunks, or the
  server is astray.

So `RequestsWellRead` is about requests with headers and of known length that come
behind such requests only; of the others it claims nothing, and an upgrade or a target
that is refused is not what it is about. `StreamImplemented` covers them all: what the
server reads inside such a request is never answered as one, given that no byte of a
chunk's data looks like a method; the session is closed as soon as it reads there.

The facts about what a client sends (`RequestsInOrder`, `SameRequest`, `BodyLast`,
`RequestEnds`, ...) are inductions over its bytes, each by a least counterexample.

Model-checked only:

* everything about time and progress, since the prover does not treat fairness and
  ENABLED: `SessionEnds`, `SlotFreed`, `ChunkSent`, `ImageGivenBack`, `ShutdownEnds`,
  `GoneIsNoticed`, `NewestCallAttempted`, `RetriesEnd`, `MakesRoom`, `RequestsRead`,
  `StopEnds`, `RequestAnswered`, and the fairness in the refinement `ImplementsSlot`;
* `TplinkPlug`, whose only property of interest is violated.

## 6. Not modelled

* `zp16` parses the bytes of one UART in one task: no concurrency, no retry, and a
  state that a unit test reaches. What was seen in it is in section 4.
* Of the HTTP server: registering and unregistering of URIs and what they match,
  the look-up of headers and query parameters beyond finding a header, chunked
  responses and the trailers of chunked requests, user contexts and the overrides of
  `recv` and `send`, the public calls to queue work and to close a session: no
  component here uses them. A shutdown message that is lost or not read is in no run,
  as nothing then ends.
* Of the plug: the cipher and the contents of the answers.
* `inode_ble` and `memory` keep no state; `*.py` is code generation.
* Contents: JSON, HTTP headers, payloads, UUIDs, addresses, temperatures; the
  cipher of the plug; logging. Real time: a timeout is a choice, so wrap-around
  of `millis()` in `wait_for_event` is not visible.
* Data races inside one vector or `shared_ptr` operation.

## 7. Plan

1. *Done:* BLE layer, serial bridge, thermostat on the abstract slot, both camera
   servers, plug, the sessions of the HTTP server and the requests of one session.
2. *Done:* theorems about types of all of these but the plug; the registry, the life
   of a BLE client, whose events it sees, the answers in time, the slot, the hand-over
   of images, the purge, the thermostat's order, the bytes for the UART and the clients
   of the bridge, the reading of requests. All safety properties of the runs that pass
   are stated by a theorem.
3. Next, modules: two thermostats on one slot, the thermostat composed with
   `ESP32BLE` itself; safety properties of the plug's requests, then their proof.
