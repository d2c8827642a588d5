----------------------------- MODULE MCESP32BLE -----------------------------
(***************************************************************************)
(* Instances of ESP32BLE for TLC: two addresses for clients, two interface *)
(* numbers, one client at a time as in the code.                           *)
(***************************************************************************)
EXTENDS ESP32BLE

\* What concerns the link only ...
LinkEvents == {"OPEN"} \union LinkRequests
\* ... but for one answer that is always in time ...
LinkButDescr == LinkEvents \ {"WRITE_DESCR"}
\* ... everything but the event gattc_ifs is filled by ...
NotRegister == Requests \ {"REG"}
\* ... and everything.
AllRequests == Requests
OnlyRegister == {"REG"}
OnlyClose == {"CLOSE"}
NoEvents == {}

=============================================================================
