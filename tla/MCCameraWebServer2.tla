------------------------- MODULE MCCameraWebServer2 -------------------------
(***************************************************************************)
(* CameraWebServer2 for TLC.                                               *)
(***************************************************************************)
EXTENDS CameraWebServer2

=============================================================================
