---------------------------- MODULE MCEQ3Climate ----------------------------
(***************************************************************************)
(* An instance of EQ3Climate for TLC.                                      *)
(***************************************************************************)
EXTENDS EQ3Climate

\* Two calls that set the same field, or nothing.
OnlyTarget == <<"target">>
TargetOrNothing == {{"target"}, {}}
Saturday   == <<"saturday">>

=============================================================================
