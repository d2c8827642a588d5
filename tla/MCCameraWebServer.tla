------------------------- MODULE MCCameraWebServer --------------------------
(***************************************************************************)
(* CameraWebServer for TLC: the camera takes three images, so that one can *)
(* be sent, one be replaced and one come too late.                         *)
(***************************************************************************)
EXTENDS CameraWebServer

=============================================================================
