--------------------------- MODULE MCExecutionPool ---------------------------
(* A small execution pool for TLC: tasks of one priority, so that the threads *)
(* may take them in any order, and one that goes first.                      *)
EXTENDS ExecutionPool

CONSTANTS urgent, ordinary

Priorities == [t \in Tasks |-> IF t = urgent THEN 1 ELSE 100]
=============================================================================
