------------------------------ MODULE BLESlot -------------------------------
(***************************************************************************)
(* What ESP32BLE::acquire() promises its callers when MAX_CLIENTS is 1:    *)
(* one client at a time, and none while the interface of the last one is   *)
(* still registered.  The module ESP32BLE implements this specification,   *)
(* EQ3Climate is written against it.                                       *)
(***************************************************************************)
VARIABLE slot   \* "Free", "Owned" by a client, or "Draining" after it

Init == slot = "Free"

\* acquire() returns a client.
Acquire == slot = "Free" /\ slot' = "Owned"

\* The client is deleted; its interface is given up by then, or later.
Delete == slot = "Owned" /\ slot' \in {"Free", "Draining"}

\* The last event of the interface arrives.
Drain == slot = "Draining" /\ slot' = "Free"

Next == Acquire \/ Delete \/ Drain

\* The slot is always freed.
Spec == Init /\ [][Next]_slot /\ WF_slot(Drain)

=============================================================================
