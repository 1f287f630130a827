--------------------------- MODULE MCPaperSession ---------------------------
(* A small paper session for TLC. *)
EXTENDS PaperSession

CONSTANTS market, leg, stopper, request
=============================================================================
