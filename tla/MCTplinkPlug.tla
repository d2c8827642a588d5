---------------------------- MODULE MCTplinkPlug ----------------------------
(***************************************************************************)
(* TplinkPlug for TLC, with the limit of the code and one address more.    *)
(***************************************************************************)
EXTENDS TplinkPlug

=============================================================================
