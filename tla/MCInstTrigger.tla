--------------------------- MODULE MCInstTrigger ---------------------------
(* A small instance of InstTrigger for TLC. *)
EXTENDS InstTrigger

BothKinds == {"D", "E"}
AllFaults == {"thread", "reaper"}
=============================================================================
