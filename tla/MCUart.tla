----------------------------- MODULE MCUart -----------------------------
(* Uart on small rings: bounds and board options come from the .cfg files.  *)
EXTENDS Uart

NoErrors == {}
OneError == {2}
=============================================================================
