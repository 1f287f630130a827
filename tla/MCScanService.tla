---------------------------- MODULE MCScanService ----------------------------
(* Model values for ScanService, and its runs up to renaming. *)
EXTENDS ScanService

CONSTANTS a, b, r1, r2, r3

\* Of the ways to spread three requests over two configurations, up to a
\* renaming of both, two are different: all alike, and one apart.
MCInit == Init /\ key[r1] = a /\ key[r2] = a
MCSpec == MCInit /\ [][Next]_vars /\ Fairness
=============================================================================
