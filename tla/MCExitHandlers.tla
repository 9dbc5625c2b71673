--------------------------- MODULE MCExitHandlers ---------------------------
(* Instance of ExitHandlers for TLC *)
EXTENDS ExitInv
=============================================================================
