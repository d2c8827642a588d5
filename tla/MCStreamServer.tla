--------------------------- MODULE MCStreamServer ---------------------------
(***************************************************************************)
(* Instances of StreamServer for TLC.                                      *)
(***************************************************************************)
EXTENDS StreamServer

\* Two clients, walking the list from either end, or all.
EveryLimit == {-2, 2, 0}
NoLimit == {0}

=============================================================================
