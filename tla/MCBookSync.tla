----------------------------- MODULE MCBookSync -----------------------------
(***************************************************************************)
(* BookSync for TLC: the cfg files give the constants; this module adds    *)
(* what the comments of the code claim and a run puts to the test.         *)
(***************************************************************************)
EXTENDS BookSync

\* local_book.py:189, of is_ready: "Pronto significa: tem snapshot e não
\* perdeu delta."  No delta handed to observe is missing from a ready book.
ReadyLostNoDelta == IsReady /\ ~replaying => book.last >= cursor - 1
=============================================================================
