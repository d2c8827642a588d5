----------------------- MODULE CameraWebServer2Proofs -----------------------
(***************************************************************************)
(* Theorems about CameraWebServer2 for any number of images and clients:   *)
(* the types, the order of the frames and the life of the semaphore, all   *)
(* from the inductive invariant IndInv.                                    *)
(***************************************************************************)
EXTENDS CameraWebServer2, TLAPS

\* The invariant holds at the start.
LEMMA InitEstablishes == Init => IndInv
<1> SUFFICES ASSUME Init PROVE IndInv
  OBVIOUS
<1> USE CameraWebServer2Assumption DEF Init
<1>0. /\ {image_, image, sent} \subseteq 0..captured /\ captured \in 0..MaxImages
      /\ waiting \in 0..MaxClients /\ connected \in 0..MaxClients
  OBVIOUS
<1>1. TypeOK
  BY <1>0 DEF TypeOK, Ended
<1>2. Newer /\ Deleted /\ waiting <= connected
  BY DEF Newer, Deleted
<1> QED
  BY <1>1, <1>2 DEF IndInv

\* Every step of the server's task keeps it: what it takes out of image_ is newer
\* than what it has sent, and what the callback puts there afterwards newer still.
LEMMA ServerTaskPreserves ==
  ASSUME IndInv,
         Accept \/ Return \/ check_headers_ \/ NextFrame \/ ReadImage \/ Swap
         \/ Take \/ TakeTimeout \/ Send \/ EndStream \/ StopClient \/ ClearImage
  PROVE  IndInv'
<1> USE CameraWebServer2Assumption
<1>1. CASE Accept
  BY <1>1 DEF IndInv, TypeOK, Newer, Deleted, Ended, Accept, handler, camera, net
<1>2. CASE Return
  BY <1>2 DEF IndInv, TypeOK, Newer, Deleted, Ended, Return, handler, camera, net
<1>3. CASE check_headers_
  <2>1. TypeOK'
    BY <1>3, ZenonT(40) DEF IndInv, TypeOK, Ended, check_headers_, handler, camera, net
  <2>2. Newer'
    BY <1>3 DEF IndInv, TypeOK, Newer, Ended, check_headers_, handler, camera, net
  <2>3. Deleted' /\ (waiting <= connected)'
    BY <1>3 DEF IndInv, TypeOK, Deleted, Ended, check_headers_, handler, camera, net
  <2> QED
    BY <2>1, <2>2, <2>3 DEF IndInv
<1>4. CASE NextFrame
  BY <1>4 DEF IndInv, TypeOK, Newer, Deleted, Ended, NextFrame, handler, camera, net
<1>5. CASE ReadImage
  BY <1>5 DEF IndInv, TypeOK, Newer, Deleted, Ended, ReadImage, handler, camera, net
<1>6. CASE Swap
  BY <1>6 DEF IndInv, TypeOK, Newer, Deleted, Ended, Swap, NoImage, Cleared, handler, camera, net
<1>7. CASE Take
  BY <1>7 DEF IndInv, TypeOK, Newer, Deleted, Ended, Take, handler, camera, net
<1>8. CASE TakeTimeout
  BY <1>8 DEF IndInv, TypeOK, Newer, Deleted, Ended, TakeTimeout, handler, camera, net
<1>9. CASE Send
  <2>1. TypeOK'
    <3>1. (client_ \in BOOLEAN /\ server_ \in BOOLEAN /\ frames \in BOOLEAN
           /\ single \in BOOLEAN /\ streaming \in BOOLEAN)'
      BY <1>9, Zenon DEF IndInv, TypeOK, Send, handler, camera, net
    <3>2. (/\ mode_ \in {"STREAM", "SNAPSHOT"} /\ captured \in 0..MaxImages
           /\ {image_, image, sent} \subseteq 0..captured
           /\ waiting \in 0..MaxClients /\ connected \in 0..MaxClients)'
      BY <1>9 DEF IndInv, TypeOK, Send, handler, camera, net
    <3>3. (/\ semaphore_ \in {"taken", "given", "deleted"}
           /\ main \in {"loop", "store", "give", "client", "server", "task", "semaphore",
                       "down", "restart"}
           /\ task \in {"loop", "headers", "next", "wanted", "swap", "wait", "token", "late",
                       "swapAgain", "send", "ended", "stop", "clear"} \cup Ended
           /\ mode_ = "SNAPSHOT" => task \notin {"next", "ended"})'
      BY <1>9 DEF IndInv, TypeOK, Ended, Send, handler, camera, net
    <3> QED
      BY <3>1, <3>2, <3>3, Zenon DEF TypeOK
  <2>2. Newer'
    BY <1>9 DEF IndInv, TypeOK, Newer, Ended, Send, handler, camera, net
  <2>3. Deleted' /\ (waiting <= connected)'
    BY <1>9 DEF IndInv, TypeOK, Deleted, Ended, Send, handler, camera, net
  <2> QED
    BY <2>1, <2>2, <2>3 DEF IndInv
<1>10. CASE EndStream
  BY <1>10, ZenonT(40) DEF IndInv, TypeOK, Newer, Deleted, Ended, EndStream, handler, camera, net
<1>11. CASE StopClient
  BY <1>11, ZenonT(40) DEF IndInv, TypeOK, Newer, Deleted, Ended, StopClient, handler, camera, net
<1>12. CASE ClearImage
  BY <1>12 DEF IndInv, TypeOK, Newer, Deleted, Ended, ClearImage, handler, camera, net
<1> QED
  BY <1>1, <1>2, <1>3, <1>4, <1>5, <1>6, <1>7, <1>8, <1>9, <1>10, <1>11, <1>12

\* Every step of the main task and of the clients keeps it: the callback stores the
\* newest image, and the shutdown deletes the task before the semaphore.
LEMMA MainTaskPreserves ==
  ASSUME IndInv,
         Capture \/ Store \/ Give \/ Shutdown \/ ShutdownClient \/ ShutdownServer
         \/ DeleteTask \/ DeleteSemaphore \/ Connect \/ Leave
  PROVE  IndInv'
<1> USE CameraWebServer2Assumption
<1>1. CASE Capture
  <2>1. TypeOK'
    <3>1. (client_ \in BOOLEAN /\ server_ \in BOOLEAN /\ frames \in BOOLEAN
           /\ single \in BOOLEAN /\ streaming \in BOOLEAN)'
      BY <1>1, Zenon DEF IndInv, TypeOK, Capture, handler, camera, net
    <3>2. (/\ mode_ \in {"STREAM", "SNAPSHOT"} /\ captured \in 0..MaxImages
           /\ {image_, image, sent} \subseteq 0..captured
           /\ waiting \in 0..MaxClients /\ connected \in 0..MaxClients)'
      BY <1>1 DEF IndInv, TypeOK, Capture, handler, camera, net
    <3>3. (/\ semaphore_ \in {"taken", "given", "deleted"}
           /\ main \in {"loop", "store", "give", "client", "server", "task", "semaphore",
                       "down", "restart"}
           /\ task \in {"loop", "headers", "next", "wanted", "swap", "wait", "token", "late",
                       "swapAgain", "send", "ended", "stop", "clear"} \cup Ended
           /\ mode_ = "SNAPSHOT" => task \notin {"next", "ended"})'
      BY <1>1 DEF IndInv, TypeOK, Ended, Capture, handler, camera, net
    <3> QED
      BY <3>1, <3>2, <3>3, Zenon DEF TypeOK
  <2>2. Newer'
    BY <1>1 DEF IndInv, TypeOK, Newer, Ended, Capture, handler, camera, net
  <2>3. Deleted' /\ (waiting <= connected)'
    BY <1>1 DEF IndInv, TypeOK, Deleted, Ended, Capture, handler, camera, net
  <2> QED
    BY <2>1, <2>2, <2>3 DEF IndInv
<1>2. CASE Store
  BY <1>2 DEF IndInv, TypeOK, Newer, Deleted, Ended, Store, handler, camera, net
<1>3. CASE Give
  BY <1>3 DEF IndInv, TypeOK, Newer, Deleted, Ended, Give, handler, camera, net
<1>4. CASE Shutdown
  BY <1>4 DEF IndInv, TypeOK, Newer, Deleted, Ended, Shutdown, handler, camera, net
<1>5. CASE ShutdownClient
  <2>1. TypeOK'
    BY <1>5, ZenonT(40) DEF IndInv, TypeOK, Ended, ShutdownClient, handler, camera, net
  <2>2. Newer'
    BY <1>5 DEF IndInv, TypeOK, Newer, Ended, ShutdownClient, handler, camera, net
  <2>3. Deleted' /\ (waiting <= connected)'
    BY <1>5 DEF IndInv, TypeOK, Deleted, Ended, ShutdownClient, handler, camera, net
  <2> QED
    BY <2>1, <2>2, <2>3 DEF IndInv
<1>6. CASE ShutdownServer
  <2>1. TypeOK'
    <3>1. (client_ \in BOOLEAN /\ server_ \in BOOLEAN /\ frames \in BOOLEAN
           /\ single \in BOOLEAN /\ streaming \in BOOLEAN)'
      BY <1>6, Zenon DEF IndInv, TypeOK, ShutdownServer, handler, camera, net
    <3>2. (/\ mode_ \in {"STREAM", "SNAPSHOT"} /\ captured \in 0..MaxImages
           /\ {image_, image, sent} \subseteq 0..captured
           /\ waiting \in 0..MaxClients /\ connected \in 0..MaxClients)'
      BY <1>6 DEF IndInv, TypeOK, ShutdownServer, handler, camera, net
    <3>3. (/\ semaphore_ \in {"taken", "given", "deleted"}
           /\ main \in {"loop", "store", "give", "client", "server", "task", "semaphore",
                       "down", "restart"}
           /\ task \in {"loop", "headers", "next", "wanted", "swap", "wait", "token", "late",
                       "swapAgain", "send", "ended", "stop", "clear"} \cup Ended
           /\ mode_ = "SNAPSHOT" => task \notin {"next", "ended"})'
      BY <1>6 DEF IndInv, TypeOK, Ended, ShutdownServer, handler, camera, net
    <3> QED
      BY <3>1, <3>2, <3>3, Zenon DEF TypeOK
  <2>2. Newer'
    BY <1>6 DEF IndInv, TypeOK, Newer, Ended, ShutdownServer, handler, camera, net
  <2>3. Deleted' /\ (waiting <= connected)'
    BY <1>6 DEF IndInv, TypeOK, Deleted, Ended, ShutdownServer, handler, camera, net
  <2> QED
    BY <2>1, <2>2, <2>3 DEF IndInv
<1>7. CASE DeleteTask
  BY <1>7 DEF IndInv, TypeOK, Newer, Deleted, Ended, DeleteTask, handler, camera, net
<1>8. CASE DeleteSemaphore
  BY <1>8 DEF IndInv, TypeOK, Newer, Deleted, Ended, DeleteSemaphore, handler, camera, net
<1>9. CASE Connect
  BY <1>9 DEF IndInv, TypeOK, Newer, Deleted, Ended, Connect, handler, camera, net
<1>10. CASE Leave
  <2>1. TypeOK'
    <3>1. (client_ \in BOOLEAN /\ server_ \in BOOLEAN /\ frames \in BOOLEAN
           /\ single \in BOOLEAN /\ streaming \in BOOLEAN)'
      BY <1>10, Zenon DEF IndInv, TypeOK, Leave, handler, camera, net
    <3>2. (/\ mode_ \in {"STREAM", "SNAPSHOT"} /\ captured \in 0..MaxImages
           /\ {image_, image, sent} \subseteq 0..captured
           /\ waiting \in 0..MaxClients /\ connected \in 0..MaxClients)'
      BY <1>10 DEF IndInv, TypeOK, Leave, handler, camera, net
    <3>3. (/\ semaphore_ \in {"taken", "given", "deleted"}
           /\ main \in {"loop", "store", "give", "client", "server", "task", "semaphore",
                       "down", "restart"}
           /\ task \in {"loop", "headers", "next", "wanted", "swap", "wait", "token", "late",
                       "swapAgain", "send", "ended", "stop", "clear"} \cup Ended
           /\ mode_ = "SNAPSHOT" => task \notin {"next", "ended"})'
      BY <1>10 DEF IndInv, TypeOK, Ended, Leave, handler, camera, net
    <3> QED
      BY <3>1, <3>2, <3>3, Zenon DEF TypeOK
  <2>2. Newer'
    BY <1>10 DEF IndInv, TypeOK, Newer, Ended, Leave, handler, camera, net
  <2>3. Deleted' /\ (waiting <= connected)'
    BY <1>10 DEF IndInv, TypeOK, Deleted, Ended, Leave, handler, camera, net
  <2> QED
    BY <2>1, <2>2, <2>3 DEF IndInv
<1> QED
  BY <1>1, <1>2, <1>3, <1>4, <1>5, <1>6, <1>7, <1>8, <1>9, <1>10

\* So does a step that changes nothing, and hence every step.
LEMMA NextPreserves == IndInv /\ [Next]_vars => IndInv'
<1> SUFFICES ASSUME IndInv, [Next]_vars PROVE IndInv'
  OBVIOUS
<1>1. CASE UNCHANGED vars
  BY <1>1 DEF vars, handler, camera, net, IndInv, TypeOK, Newer, Deleted, Ended
<1>2. CASE Next
  BY <1>2, ServerTaskPreserves, MainTaskPreserves DEF Next, ServerTask, MainTask
<1> QED
  BY <1>1, <1>2

\* The inductive invariant holds in every reachable state.
THEOREM Invariance == Spec => []IndInv
<1>1. Init => IndInv
  BY InitEstablishes
<1>2. IndInv /\ [Next]_vars => IndInv'
  BY NextPreserves
<1> QED
  BY <1>1, <1>2, PTL DEF Spec

\* Every variable has its type, and a snapshot never runs the stream's loop.
THEOREM TypeCorrect == Spec => []TypeOK
<1>1. IndInv => TypeOK
  BY DEF IndInv
<1> QED
  BY <1>1, Invariance, PTL

\* Frames are sent once and in the order they were taken, though nothing keeps a
\* store that was decided for one client from meeting the next.
THEOREM FramesOrdered == Spec => []FramesInOrder
<1>1. IndInv => FramesInOrder
  BY DEF IndInv, Newer, FramesInOrder
<1> QED
  BY <1>1, Invariance, PTL

\* on_shutdown deletes the semaphore when the task that takes it is deleted.
THEOREM SemaphoreSafe == Spec => []SemaphoreOutlivesTask
<1>1. IndInv => SemaphoreOutlivesTask
  BY DEF IndInv, Deleted, SemaphoreOutlivesTask, Ended
<1> QED
  BY <1>1, Invariance, PTL

=============================================================================
