--------------------------- MODULE CameraWebServer --------------------------
(***************************************************************************)
(* The camera web server (esp32_camera_web_server3/camera_web_server.cpp): *)
(* the handler of a request runs in the HTTP server's task and takes       *)
(* images out of image_, where the camera's callback puts them in the main *)
(* task and signals a binary semaphore.  running_ says whether a request   *)
(* is being handled.  Neither variable has a lock, so every access is a    *)
(* step of its own, and swap() reads image_ in one and clears it in the    *)
(* next.                                                                   *)
(***************************************************************************)
EXTENDS Naturals

CONSTANT MaxImages   \* images the camera takes (bound)

ASSUME CameraWebServerAssumption == MaxImages \in Nat

VARIABLES
  mode_,       \* STREAM or SNAPSHOT
  image_,      \* the image to be sent, by its number; 0 is nullptr
  running_,
  semaphore_,  \* "taken", "given" or "deleted"
  server,      \* where the HTTP server's task is
  image,       \* wait_for_image_'s local image
  main,        \* where the main task is
  captured,    \* number of images the camera has taken
  message,     \* httpd_stop's message is in the control socket
  status,      \* hd_td.status of the HTTP server's task, which httpd_stop polls
  sent         \* the last image that was sent

task   == <<server, image, sent>>
camera == <<main, captured>>
stopping == <<message, status>>
vars   == <<mode_, image_, running_, semaphore_, task, camera, stopping>>

-----------------------------------------------------------------------------
(* The HTTP server's task.                                                 *)

\* select() has a request for the registered URI.
Request ==
  /\ server = "select" /\ ~message
  /\ server' = "open"
  /\ UNCHANGED <<mode_, image_, running_, semaphore_, image, sent, camera, stopping>>

\* The control message comes first: httpd_thread leaves its loop, ...
Stop ==
  /\ server = "select" /\ message
  /\ server' = "exit" /\ status' = "STOPPING"
  /\ UNCHANGED <<mode_, image_, running_, semaphore_, image, sent, camera, message>>

\* ... closes the sessions, and says last that it has stopped.
Exit ==
  /\ server = "exit"
  /\ server' = "stopped" /\ status' = "STOPPED"
  /\ UNCHANGED <<mode_, image_, running_, semaphore_, image, sent, camera, message>>

\* handler_: image_ = nullptr, then running_ = true.
Open ==
  /\ server = "open"
  /\ image_' = 0 /\ server' = "run"
  /\ UNCHANGED <<mode_, running_, semaphore_, image, sent, camera, stopping>>

Run ==
  /\ server = "run"
  /\ running_' = TRUE
  /\ server' = IF mode_ = "STREAM" THEN "header" ELSE "request"
  /\ UNCHANGED <<mode_, image_, semaphore_, image, sent, camera, stopping>>

\* streaming_handler_ sends its header, which can fail, ...
SendHeader ==
  /\ server = "header"
  /\ server' \in {"next", "close"}
  /\ UNCHANGED <<mode_, image_, running_, semaphore_, image, sent, camera, stopping>>

\* ... and goes on while running_.
NextFrame ==
  /\ server = "next"
  /\ server' = IF running_ THEN "request" ELSE "close"
  /\ UNCHANGED <<mode_, image_, running_, semaphore_, image, sent, camera, stopping>>

\* wait_for_image_ swaps twice, before and after it waited: each swap reads ...
\* (Mutant of Cleared: the pointer is copied.)
Copied  == image_
Cleared == 0

Read ==
  \/ server = "request" /\ server' = "swap"
  \/ server \in {"token", "late"} /\ server' = "swapAgain"
ReadImage ==
  /\ Read
  /\ image' = image_
  /\ UNCHANGED <<mode_, image_, running_, semaphore_, sent, camera, stopping>>

\* ... and clears image_.
Swap ==
  /\ server \in {"swap", "swapAgain"}
  /\ image_' = Cleared
  /\ server' = IF image # 0 THEN "send"
               ELSE IF server = "swap" THEN "wait" ELSE "close"
  /\ UNCHANGED <<mode_, running_, semaphore_, image, sent, camera, stopping>>

\* xSemaphoreTake returns with the token, or after IMAGE_REQUEST_TIMEOUT.
Take ==
  /\ server = "wait" /\ semaphore_ = "given"
  /\ semaphore_' = "taken" /\ server' = "token"
  /\ UNCHANGED <<mode_, image_, running_, image, sent, camera, stopping>>

\* (Mutant of TakeTimeout: it waits for portMAX_DELAY.)
WaitForever == FALSE /\ UNCHANGED vars
TakeTimeout ==
  /\ server = "wait" /\ semaphore_ # "given"
  /\ server' = "late"
  /\ UNCHANGED <<mode_, image_, running_, semaphore_, image, sent, camera, stopping>>

\* The image is sent, or sending it fails.
\* (Mutant: a snapshot is followed by another.)
SendAgain ==
  /\ server = "send"
  /\ sent' = image /\ server' = "next"
  /\ image' = 0
  /\ UNCHANGED <<mode_, image_, running_, semaphore_, camera, stopping>>
Send ==
  /\ server = "send"
  /\ \/ sent' = image /\ server' = IF mode_ = "STREAM" THEN "next" ELSE "close"
     \/ sent' = sent /\ server' = "close"
  /\ image' = 0
  /\ UNCHANGED <<mode_, image_, running_, semaphore_, camera, stopping>>

\* handler_: running_ = false, then image_ = nullptr.
Close ==
  /\ server = "close"
  /\ running_' = FALSE /\ server' = "closed"
  /\ UNCHANGED <<mode_, image_, semaphore_, image, sent, camera, stopping>>

Closed ==
  /\ server = "closed"
  /\ image_' = 0 /\ server' = "select"
  /\ UNCHANGED <<mode_, running_, semaphore_, image, sent, camera, stopping>>

-----------------------------------------------------------------------------
(* The main task.                                                          *)

\* The camera's loop has an image, for whoever asked for it, and calls the
\* callback: it looks at running_, ...
Capture ==
  /\ main = "loop" /\ captured < MaxImages
  /\ captured' = captured + 1
  /\ main' = IF running_ THEN "store" ELSE "loop"
  /\ UNCHANGED <<mode_, image_, running_, semaphore_, task, stopping>>

\* ... stores the image ...
\* (Mutant: the semaphore is not given.)
StoreQuietly ==
  /\ main = "store"
  /\ image_' = captured /\ main' = "loop"
  /\ UNCHANGED <<mode_, running_, semaphore_, task, captured, stopping>>
Store ==
  /\ main = "store"
  /\ image_' = captured /\ main' = "give"
  /\ UNCHANGED <<mode_, running_, semaphore_, task, captured, stopping>>

\* ... and gives the semaphore, which stays given when it is.
Give ==
  /\ main = "give"
  /\ semaphore_' = "given" /\ main' = "loop"
  /\ UNCHANGED <<mode_, image_, running_, task, captured, stopping>>

\* loop: an image is dropped when no request is being handled.
Loop ==
  /\ main = "loop" /\ ~running_
  /\ main' = "drop"
  /\ UNCHANGED <<mode_, image_, running_, semaphore_, task, captured, stopping>>

\* (Mutant: it is kept.)
KeepImage ==
  /\ main = "drop" /\ main' = "loop"
  /\ UNCHANGED <<mode_, image_, running_, semaphore_, task, captured, stopping>>
DropImage ==
  /\ main = "drop"
  /\ image_' = 0 /\ main' = "loop"
  /\ UNCHANGED <<mode_, running_, semaphore_, task, captured, stopping>>

\* on_shutdown: running_ = false, image_ = nullptr, httpd_stop() with its
\* message and its polls of the status, vSemaphoreDelete().
Shutdown ==
  /\ main = "loop"
  /\ running_' = FALSE /\ main' = "clear"
  /\ UNCHANGED <<mode_, image_, semaphore_, task, captured, stopping>>

ClearImage ==
  /\ main = "clear"
  /\ image_' = 0 /\ main' = "stop"
  /\ UNCHANGED <<mode_, running_, semaphore_, task, captured, stopping>>

StopServer ==
  /\ main = "stop"
  /\ message' = TRUE /\ main' = "join"
  /\ UNCHANGED <<mode_, image_, running_, semaphore_, task, captured, status>>

Join ==
  /\ main = "join" /\ status = "STOPPED"
  /\ main' = "delete"
  /\ UNCHANGED <<mode_, image_, running_, semaphore_, task, captured, stopping>>

DeleteSemaphore ==
  /\ main = "delete"
  /\ semaphore_' = "deleted" /\ main' = "down"
  /\ UNCHANGED <<mode_, image_, running_, task, captured, stopping>>

-----------------------------------------------------------------------------
Init ==
  /\ mode_ \in {"STREAM", "SNAPSHOT"}
  /\ image_ = 0 /\ running_ = FALSE /\ semaphore_ = "taken"
  /\ server = "select" /\ image = 0 /\ sent = 0
  /\ main = "loop" /\ captured = 0
  /\ message = FALSE /\ status = "RUNNING"

HandlerStep == Open \/ Run \/ SendHeader \/ NextFrame \/ ReadImage \/ Swap \/ Take
               \/ TakeTimeout \/ Send \/ Close \/ Closed
MainStep == Store \/ Give \/ Loop \/ DropImage \/ ClearImage \/ StopServer
            \/ Join \/ DeleteSemaphore

Next == Request \/ Stop \/ Exit \/ HandlerStep \/ Capture \/ MainStep \/ Shutdown

Spec == Init /\ [][Next]_vars

\* Both tasks are scheduled, select() returns for the control message, and a
\* send or a take ends at its timeout.
FairSpec == Spec /\ WF_vars(HandlerStep \/ Stop \/ Exit) /\ WF_vars(MainStep)

-----------------------------------------------------------------------------
(* Properties.                                                             *)

\* Every variable has its type, an image in hand is one the camera took, and
\* each mode keeps to its own handler.
TypeOK ==
  /\ mode_ \in {"STREAM", "SNAPSHOT"} /\ captured \in 0..MaxImages
  /\ {image_, image, sent} \subseteq 0..captured
  /\ running_ \in BOOLEAN /\ message \in BOOLEAN
  /\ semaphore_ \in {"taken", "given", "deleted"}
  /\ server \in {"select", "open", "run", "header", "next", "request", "swap", "wait",
                 "token", "late", "swapAgain", "send", "close", "closed", "exit", "stopped"}
  /\ main \in {"loop", "store", "give", "drop", "clear", "stop", "join", "delete", "down"}
  /\ status \in {"RUNNING", "STOPPING", "STOPPED"}
  /\ mode_ = "SNAPSHOT" => server \notin {"header", "next"}

\* A handler that waits can still be woken: its semaphore exists, also when its
\* request was accepted after on_shutdown cleared running_, and an image that is
\* there for it has been signalled or is about to be.  A token may be stale, of
\* an image that is gone, but none is ever missing.
WaitIsSignalled ==
  server = "wait" => /\ semaphore_ # "deleted"
                     /\ image_ # 0 => semaphore_ = "given" \/ main = "give"

\* However the swaps, the callback, loop() and the next request interleave, no
\* image is sent a second time and none after a later one.
FramesInOrder == server = "send" => image > sent

\* The inductive invariant of the theorems in CameraWebServerProofs: images in
\* hand, in image_ and about to be stored are each newer than the one before.
Newer ==
  /\ image # 0 => server \in {"swap", "swapAgain", "send"} /\ image > sent
  /\ image_ # 0 => image_ > sent /\ (server = "send" => image_ > image)
  /\ main = "store" => captured > sent /\ captured > image /\ captured > image_
  /\ server = "send" => image # 0
Joined ==
  /\ status = "STOPPED" <=> server = "stopped"
  /\ main \in {"delete", "down"} => status = "STOPPED"
  /\ semaphore_ = "deleted" => main = "down"
Signalled == server = "wait" /\ image_ # 0 => semaphore_ = "given" \/ main = "give"
IndInv == TypeOK /\ Newer /\ Joined /\ Signalled

\* The callback may store an image after its request ended; image_ does not
\* keep the camera's frame buffer for ever, loop() drops it.
ImageGivenBack == []<>(image_ = 0)

\* on_shutdown ends, although it waits in the main task for a handler that
\* waits for an image of the main task.
ShutdownEnds == (main = "clear") ~> (main = "down")

=============================================================================
