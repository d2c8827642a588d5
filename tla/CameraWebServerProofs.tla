----------------------- MODULE CameraWebServerProofs ------------------------
(***************************************************************************)
(* Theorems about CameraWebServer for any number of images: the types, the *)
(* order of the frames and the wait for the semaphore, all three from the  *)
(* inductive invariant IndInv.                                             *)
(***************************************************************************)
EXTENDS CameraWebServer, TLAPS

\* The invariant holds at the start.
LEMMA InitEstablishes == Init => IndInv
<1> SUFFICES ASSUME Init PROVE IndInv
  OBVIOUS
<1> USE CameraWebServerAssumption DEF Init
<1>1. {image_, image, sent} \subseteq 0..captured /\ captured \in 0..MaxImages
  OBVIOUS
<1>2. TypeOK
  BY <1>1 DEF TypeOK
<1>3. Newer
  BY DEF Newer
<1>4. Joined /\ Signalled
  BY DEF Joined, Signalled
<1> QED
  BY <1>2, <1>3, <1>4 DEF IndInv

\* Every step of the HTTP server's task keeps it: an image that is read is newer
\* than the last one sent, and what is in image_ afterwards is newer still.
LEMMA ServerStepPreserves ==
  ASSUME IndInv,
         Request \/ Stop \/ Exit \/ Open \/ Run \/ SendHeader \/ NextFrame
         \/ ReadImage \/ Swap \/ Take \/ TakeTimeout \/ Send \/ Close \/ Closed
  PROVE  IndInv'
<1> USE CameraWebServerAssumption
<1>1. CASE Request
  BY <1>1 DEF IndInv, TypeOK, Newer, Joined, Signalled,
      Request, vars, task, camera, stopping
<1>2. CASE Stop
  BY <1>2 DEF IndInv, TypeOK, Newer, Joined, Signalled,
      Stop, vars, task, camera, stopping
<1>3. CASE Open
  BY <1>3 DEF IndInv, TypeOK, Newer, Joined, Signalled,
      Open, vars, task, camera, stopping
<1>4. CASE Run
  BY <1>4 DEF IndInv, TypeOK, Newer, Joined, Signalled,
      Run, vars, task, camera, stopping
<1>5. CASE SendHeader
  BY <1>5 DEF IndInv, TypeOK, Newer, Joined, Signalled,
      SendHeader, vars, task, camera, stopping
<1>6. CASE NextFrame
  BY <1>6 DEF IndInv, TypeOK, Newer, Joined, Signalled,
      NextFrame, vars, task, camera, stopping
<1>7. CASE ReadImage
  BY <1>7 DEF IndInv, TypeOK, Newer, Joined, Signalled,
      ReadImage, Read, vars, task, camera, stopping
<1>8. CASE Swap
  BY <1>8 DEF IndInv, TypeOK, Newer, Joined, Signalled,
      Swap, Cleared, vars, task, camera, stopping
<1>9. CASE Take
  BY <1>9 DEF IndInv, TypeOK, Newer, Joined, Signalled,
      Take, vars, task, camera, stopping
<1>10. CASE TakeTimeout
  BY <1>10 DEF IndInv, TypeOK, Newer, Joined, Signalled,
      TakeTimeout, vars, task, camera, stopping
<1>11. CASE Send
  BY <1>11 DEF IndInv, TypeOK, Newer, Joined, Signalled,
      Send, vars, task, camera, stopping
<1>12. CASE Close
  BY <1>12 DEF IndInv, TypeOK, Newer, Joined, Signalled,
      Close, vars, task, camera, stopping
<1>13. CASE Closed
  BY <1>13 DEF IndInv, TypeOK, Newer, Joined, Signalled,
      Closed, vars, task, camera, stopping
<1>14. CASE Exit
  BY <1>14 DEF IndInv, TypeOK, Newer, Joined, Signalled,
      Exit, vars, task, camera, stopping
<1> QED
  BY <1>1, <1>2, <1>3, <1>4, <1>5, <1>6, <1>7, <1>8, <1>9, <1>10, <1>11, <1>12, <1>13, <1>14

\* Every step of the main task keeps it: the image about to be stored is newer
\* than all others.
LEMMA MainStepPreserves ==
  ASSUME IndInv,
         Capture \/ Store \/ Give \/ Loop \/ DropImage \/ Shutdown
         \/ ClearImage \/ StopServer \/ Join \/ DeleteSemaphore
  PROVE  IndInv'
<1> USE CameraWebServerAssumption
<1>1. CASE Capture
  BY <1>1 DEF IndInv, TypeOK, Newer, Joined, Signalled,
      Capture, vars, task, camera, stopping
<1>2. CASE Store
  BY <1>2 DEF IndInv, TypeOK, Newer, Joined, Signalled,
      Store, vars, task, camera, stopping
<1>3. CASE Give
  BY <1>3 DEF IndInv, TypeOK, Newer, Joined, Signalled,
      Give, vars, task, camera, stopping
<1>4. CASE Loop
  BY <1>4 DEF IndInv, TypeOK, Newer, Joined, Signalled,
      Loop, vars, task, camera, stopping
<1>5. CASE DropImage
  BY <1>5 DEF IndInv, TypeOK, Newer, Joined, Signalled,
      DropImage, vars, task, camera, stopping
<1>6. CASE Shutdown
  BY <1>6, ZenonT(40) DEF IndInv, TypeOK, Newer, Joined, Signalled,
      Shutdown, vars, task, camera, stopping
<1>7. CASE ClearImage
  BY <1>7 DEF IndInv, TypeOK, Newer, Joined, Signalled,
      ClearImage, vars, task, camera, stopping
<1>8. CASE StopServer
  BY <1>8 DEF IndInv, TypeOK, Newer, Joined, Signalled,
      StopServer, vars, task, camera, stopping
<1>9. CASE DeleteSemaphore
  BY <1>9 DEF IndInv, TypeOK, Newer, Joined, Signalled,
      DeleteSemaphore, vars, task, camera, stopping
<1>10. CASE Join
  BY <1>10 DEF IndInv, TypeOK, Newer, Joined, Signalled,
      Join, vars, task, camera, stopping
<1> QED
  BY <1>1, <1>2, <1>3, <1>4, <1>5, <1>6, <1>7, <1>8, <1>9, <1>10

\* A step that changes nothing keeps it, and so does every step.
LEMMA NextPreserves == IndInv /\ [Next]_vars => IndInv'
<1> SUFFICES ASSUME IndInv, [Next]_vars PROVE IndInv'
  OBVIOUS
<1>1. CASE UNCHANGED vars
  BY <1>1 DEF vars, task, camera, stopping, IndInv, TypeOK, Newer, Joined,
      Signalled
<1>2. CASE Next
  BY <1>2, ServerStepPreserves, MainStepPreserves DEF Next, HandlerStep, MainStep
<1> QED
  BY <1>1, <1>2

\* The inductive invariant holds in every reachable state.
THEOREM Invariance == Spec => []IndInv
<1>1. Init => IndInv
  BY InitEstablishes
<1>2. IndInv /\ [Next]_vars => IndInv'
  BY NextPreserves
<1> QED
  BY <1>1, <1>2, PTL DEF Spec

\* Every variable has its type, and a snapshot never runs the stream's loop.
THEOREM TypeCorrect == Spec => []TypeOK
<1>1. IndInv => TypeOK
  BY DEF IndInv
<1> QED
  BY <1>1, Invariance, PTL

\* Frames are sent once and in the order they were taken, whatever interleaves
\* with the two halves of a swap.
THEOREM FramesOrdered == Spec => []FramesInOrder
<1>1. IndInv => FramesInOrder
  BY DEF IndInv, Newer, FramesInOrder
<1> QED
  BY <1>1, Invariance, PTL

\* A handler that waits has its semaphore, because on_shutdown deletes it only
\* after the task said that it has stopped, and no image is there for it that
\* has not been signalled to it, whichever image it was and whoever stored it.
THEOREM WaitersSignalled == Spec => []WaitIsSignalled
<1>1. IndInv => WaitIsSignalled
  BY DEF IndInv, Joined, Signalled, WaitIsSignalled
<1> QED
  BY <1>1, Invariance, PTL

=============================================================================
