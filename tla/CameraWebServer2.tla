-------------------------- MODULE CameraWebServer2 --------------------------
(***************************************************************************)
(* The camera web server on Arduino's WiFiServer                           *)
(* (esp32_camera_web_server2): a task of its own accepts one client after  *)
(* the other, and takes images out of image_, where the camera's callback  *)
(* puts them in the main task, while client_ is connected.  on_shutdown()  *)
(* deletes the task wherever it is.  No variable has a lock: every access  *)
(* is a step, swap() and the assignment are two.                           *)
(*                                                                         *)
(* The camera is external: it takes images that were requested, once or as *)
(* a stream.  So are the clients.                                          *)
(***************************************************************************)
EXTENDS Naturals

CONSTANTS
  MaxImages,   \* images the camera takes (bound)
  MaxClients   \* clients that connect (bound)

ASSUME CameraWebServer2Assumption == {MaxImages, MaxClients} \subseteq Nat

VARIABLES
  mode_,       \* STREAM or SNAPSHOT
  image_,      \* the image to be sent, by its number; 0 is nullptr
  client_,     \* the client is connected
  server_,     \* the server listens
  semaphore_,  \* "taken", "given" or "deleted"
  task,        \* where the server's task is
  image,       \* wait_for_image_'s local image
  frames,      \* streaming_handler_'s, # 0
  sent,        \* history: the last image that was sent
  main,        \* where the main task is
  captured,    \* number of images the camera has taken
  single,      \* request_image(WEB_REQUESTER) stands
  streaming,   \* start_stream(WEB_REQUESTER) does
  waiting,     \* connections that hasClient() finds
  connected    \* number of clients that have connected

handler == <<task, image, frames, sent>>
camera  == <<captured, single, streaming>>
net     == <<waiting, connected>>
vars    == <<mode_, image_, client_, server_, semaphore_, handler, main, camera, net>>

-----------------------------------------------------------------------------
(* The server's task.                                                      *)

\* server_loop_: the next client.
Accept ==
  /\ task = "loop" /\ server_ /\ waiting > 0
  /\ waiting' = waiting - 1
  /\ client_' = TRUE /\ task' = "headers"
  /\ UNCHANGED <<mode_, image_, server_, semaphore_, image, frames, sent, main, camera,
                 connected>>

\* server_loop_ ends, and with it the task's function.  FreeRTOS does not allow
\* that: the chip restarts.
Return ==
  /\ task = "loop" /\ ~server_
  /\ task' = "returned" /\ main' = "restart"
  /\ UNCHANGED <<mode_, image_, client_, server_, semaphore_, image, frames, sent,
                 camera, net>>

\* check_headers_, with its answer to another request; streaming_handler_ and
\* snapshot_handler_ begin.
check_headers_ ==
  /\ task = "headers"
  /\ \/ task' = "stop" /\ UNCHANGED <<single, streaming>>
     \/ mode_ = "STREAM" /\ task' = "next" /\ streaming' = TRUE /\ UNCHANGED single
     \/ mode_ = "SNAPSHOT" /\ task' = "wanted" /\ single' = TRUE /\ UNCHANGED streaming
  /\ frames' = FALSE
  /\ UNCHANGED <<mode_, image_, client_, server_, semaphore_, image, sent, main, captured,
                 net>>

\* streaming_handler_ goes on while client_.
NextFrame ==
  /\ task = "next"
  /\ task' = IF client_ THEN "wanted" ELSE "ended"
  /\ UNCHANGED <<mode_, image_, client_, server_, semaphore_, image, frames, sent, main,
                 camera, net>>

\* wait_for_image_: a swap before and a swap after the wait, each in two steps.
\* (Mutant of Cleared: the pointer is copied.)
Copied  == image_
Cleared == 0

ReadImage ==
  /\ \/ task = "wanted" /\ task' = "swap"
     \/ task \in {"token", "late"} /\ task' = "swapAgain"
  /\ image' = image_
  /\ UNCHANGED <<mode_, image_, client_, server_, semaphore_, frames, sent, main, camera,
                 net>>

NoImage == IF mode_ = "STREAM" THEN "ended" ELSE "stop"
Swap ==
  /\ task \in {"swap", "swapAgain"}
  /\ image_' = Cleared
  /\ task' = IF image # 0 THEN "send" ELSE IF task = "swap" THEN "wait" ELSE NoImage
  /\ UNCHANGED <<mode_, client_, server_, semaphore_, image, frames, sent, main, camera,
                 net>>

Take ==
  /\ task = "wait" /\ semaphore_ = "given"
  /\ semaphore_' = "taken" /\ task' = "token"
  /\ UNCHANGED <<mode_, image_, client_, server_, image, frames, sent, main, camera, net>>

\* (Mutant of TakeTimeout: it waits for portMAX_DELAY.)
WaitForever == FALSE /\ UNCHANGED vars
TakeTimeout ==
  /\ task = "wait" /\ semaphore_ # "given"
  /\ task' = "late"
  /\ UNCHANGED <<mode_, image_, client_, server_, semaphore_, image, frames, sent, main,
                 camera, net>>

\* send_all: the image is sent while client_, or sending fails, which stops it.
Send ==
  /\ task = "send"
  /\ \/ client_ /\ sent' = image /\ UNCHANGED client_
     \/ client_' = FALSE /\ UNCHANGED sent
  /\ image' = 0 /\ frames' = TRUE
  /\ task' = IF mode_ = "STREAM" THEN "next" ELSE "stop"
  /\ UNCHANGED <<mode_, image_, server_, semaphore_, main, camera, net>>

\* streaming_handler_ ends: 503 if it had no frame, then stop_stream().
EndStream ==
  /\ task = "ended"
  /\ streaming' = FALSE /\ task' = "stop"
  /\ client_' \in {client_, client_ /\ frames}
  /\ UNCHANGED <<mode_, image_, server_, semaphore_, image, frames, sent, main, captured,
                 single, net>>

\* server_loop_: client_.stop(), then image_ = nullptr.
StopClient ==
  /\ task = "stop"
  /\ client_' = FALSE /\ task' = "clear"
  /\ UNCHANGED <<mode_, image_, server_, semaphore_, image, frames, sent, main, camera,
                 net>>

ClearImage ==
  /\ task = "clear"
  /\ image_' = 0 /\ task' = "loop"
  /\ UNCHANGED <<mode_, client_, server_, semaphore_, image, frames, sent, main, camera,
                 net>>

-----------------------------------------------------------------------------
(* The main task.                                                          *)

\* The camera has an image that this component requested, and calls back: the
\* callback looks at client_, ...
Capture ==
  /\ main = "loop" /\ captured < MaxImages /\ (single \/ streaming)
  /\ captured' = captured + 1 /\ single' = FALSE
  /\ main' = IF client_ THEN "store" ELSE "loop"
  /\ UNCHANGED <<mode_, image_, client_, server_, semaphore_, handler, streaming, net>>

\* ... stores the image ...
Store ==
  /\ main = "store"
  /\ image_' = captured /\ main' = "give"
  /\ UNCHANGED <<mode_, client_, server_, semaphore_, handler, camera, net>>

\* ... and gives the semaphore.
Give ==
  /\ main = "give"
  /\ semaphore_' = "given" /\ main' = "loop"
  /\ UNCHANGED <<mode_, image_, client_, server_, handler, camera, net>>

\* on_shutdown: image_ = nullptr, client_.stop(), server_.stop(), vTaskDelete(),
\* vSemaphoreDelete().
Shutdown ==
  /\ main = "loop"
  /\ image_' = 0 /\ main' = "client"
  /\ UNCHANGED <<mode_, client_, server_, semaphore_, handler, camera, net>>

ShutdownClient ==
  /\ main = "client"
  /\ client_' = FALSE /\ main' = "server"
  /\ UNCHANGED <<mode_, image_, server_, semaphore_, handler, camera, net>>

ShutdownServer ==
  /\ main = "server"
  /\ server_' = FALSE /\ waiting' = 0 /\ main' = "task"
  /\ UNCHANGED <<mode_, image_, client_, semaphore_, handler, camera, connected>>

DeleteTask ==
  /\ main = "task"
  /\ task' = "deleted" /\ main' = "semaphore"
  /\ UNCHANGED <<mode_, image_, client_, server_, semaphore_, image, frames, sent,
                 camera, net>>

DeleteSemaphore ==
  /\ main = "semaphore"
  /\ semaphore_' = "deleted" /\ main' = "down"
  /\ UNCHANGED <<mode_, image_, client_, server_, handler, camera, net>>

-----------------------------------------------------------------------------
(* The clients.                                                            *)

Connect ==
  /\ server_ /\ connected < MaxClients /\ main # "restart"
  /\ waiting' = waiting + 1 /\ connected' = connected + 1
  /\ UNCHANGED <<mode_, image_, client_, server_, semaphore_, handler, main, camera>>

Leave ==
  /\ client_ /\ main # "restart"
  /\ client_' = FALSE
  /\ UNCHANGED <<mode_, image_, server_, semaphore_, handler, main, camera, net>>

Init ==
  /\ mode_ \in {"STREAM", "SNAPSHOT"} /\ image_ = 0 /\ client_ = FALSE /\ server_ = TRUE
  /\ semaphore_ = "taken" /\ task = "loop" /\ image = 0 /\ frames = FALSE /\ sent = 0
  /\ main = "loop" /\ captured = 0 /\ single = FALSE /\ streaming = FALSE
  /\ waiting = 0 /\ connected = 0

ServerTask == Accept \/ Return \/ check_headers_ \/ NextFrame \/ ReadImage \/ Swap \/ Take
              \/ TakeTimeout \/ Send \/ EndStream \/ StopClient \/ ClearImage
MainTask == Store \/ Give \/ ShutdownClient \/ ShutdownServer \/ DeleteTask
            \/ DeleteSemaphore

Next == ServerTask \/ MainTask \/ Capture \/ Shutdown \/ Connect \/ Leave

Spec == Init /\ [][Next]_vars

\* Both tasks are scheduled; a take, a read and a write end at their timeouts.
FairSpec == Spec /\ WF_vars(ServerTask) /\ WF_vars(MainTask)

-----------------------------------------------------------------------------
(* Properties.                                                             *)

Ended == {"returned", "deleted"}

\* Every variable has its type, and each mode keeps to its own handler.
TypeOK ==
  /\ mode_ \in {"STREAM", "SNAPSHOT"} /\ captured \in 0..MaxImages
  /\ {image_, image, sent} \subseteq 0..captured
  /\ client_ \in BOOLEAN /\ server_ \in BOOLEAN /\ frames \in BOOLEAN
  /\ single \in BOOLEAN /\ streaming \in BOOLEAN
  /\ semaphore_ \in {"taken", "given", "deleted"}
  /\ task \in {"loop", "headers", "next", "wanted", "swap", "wait", "token", "late",
               "swapAgain", "send", "ended", "stop", "clear"} \cup Ended
  /\ main \in {"loop", "store", "give", "client", "server", "task", "semaphore", "down",
               "restart"}
  /\ waiting \in 0..MaxClients /\ connected \in 0..MaxClients
  /\ mode_ = "SNAPSHOT" => task \notin {"next", "ended"}

\* However the swaps, the callback, the clearing at a request's end and the next
\* client's requests interleave, no image is sent a second time and none after a
\* later one.
FramesInOrder == task = "send" => image > sent

\* The semaphore is deleted when nobody can wait for it any more.
SemaphoreOutlivesTask == semaphore_ = "deleted" => task \in Ended

\* The inductive invariant of the theorems in CameraWebServer2Proofs: images in
\* hand, in image_ and about to be stored are each newer than the one before, the
\* task is deleted before the semaphore, and no connection waits that was not made.
Newer ==
  /\ image # 0 => task \in {"swap", "swapAgain", "send", "deleted"} /\ image > sent
  /\ image_ # 0 => image_ > sent /\ (task = "send" => image_ > image)
  /\ main = "store" => captured > sent /\ captured > image /\ captured > image_
  /\ task = "send" => image # 0
Deleted ==
  /\ main \in {"semaphore", "down"} => task = "deleted"
  /\ semaphore_ = "deleted" => main = "down"
IndInv == TypeOK /\ Newer /\ Deleted /\ waiting <= connected

\* A client that has gone is noticed, whatever the task was waiting for: the next
\* one gets its turn.
GoneIsNoticed == (task # "loop" /\ ~client_) ~> task \in {"loop"} \cup Ended

=============================================================================
