--------------------------- MODULE MCUsbTransfer ---------------------------
(* Small instances of UsbTransfer for TLC. *)
EXTENDS UsbTransfer

CONSTANT c1

OneClient == {c1}
=============================================================================
