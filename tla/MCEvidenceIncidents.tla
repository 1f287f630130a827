------------------------ MODULE MCEvidenceIncidents ------------------------
(* A small archive and a small runtime for TLC. *)
EXTENDS EvidenceIncidents

CONSTANTS stopper, request

\* PHASE8O_CERTIFICATION_EVIDENCE.md 12 promises the detection of altered records,
\* and the alert says that verification has detected an alteration
\* (certification_evidence_monitor.py 373-376).  Here capture alone writes the
\* archive and nobody alters a record: nobody is to be told so.
UnalteredIsNotAccused == "EVIDENCE_CHAIN_BROKEN" \notin Known(journal)
=============================================================================
