---------------------------- MODULE MCCcastReply ----------------------------
(* Small instances of CcastReply for TLC. *)
EXTENDS CcastReply

NoFaults    == {}
SpuriousToo == {"error", "close", "spurious"}
=============================================================================
