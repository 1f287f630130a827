--------------------------- MODULE EvidenceArchive ---------------------------
(***************************************************************************)
(* The archive of certification evidence and the monitor that reads it     *)
(* (paper/certification_evidence.py, certification_evidence_monitor.py).   *)
(* An archive is a value: the entries, each with the hash of the one       *)
(* before it, and the head of the chain.  A hash is a number nobody used   *)
(* before; nobody edits the file.                                          *)
(***************************************************************************)
EXTENDS Integers, Sequences, SequencesExt

CONSTANTS
  MaxEntries,   \* max_entries: the file keeps the newest ones
  MinEntries,   \* the monitor's min_entries
  Statuses      \* statuses a certification report may have here

ReportStatuses == {"CERTIFIED", "PENDING", "BLOCKED", "NO_DATA"}

ASSUME ArchiveAssumption ==
  /\ MaxEntries \in Nat \ {0}
  /\ MinEntries \in Nat \ {0}
  /\ Statuses \subseteq ReportStatuses

Genesis == 0

EmptyArchive == [entries |-> <<>>, head |-> Genesis]

\* The hash the next entry refers to, and the one the head must be.
LastHash(entries) == IF entries = <<>> THEN Genesis ELSE Last(entries).hash

Entry(entries, status) ==
  [status   |-> status,
   previous |-> LastHash(entries),
   hash     |-> LastHash(entries) + 1]

Newest(entries) ==
  SubSeq(entries, IF Len(entries) > MaxEntries THEN Len(entries) - MaxEntries + 1 ELSE 1,
         Len(entries))

\* capture appends, trims and sets the head.
Capture(archive, status) ==
  LET entry == Entry(archive.entries, status) IN
  [entries |-> Newest(Append(archive.entries, entry)), head |-> entry.hash]

\* verify_state: each entry refers to the one before it, the first to Genesis.
Linked(archive) ==
  /\ \A i \in DOMAIN archive.entries :
       archive.entries[i].previous =
         IF i = 1 THEN Genesis ELSE archive.entries[i - 1].hash
  /\ archive.head = LastHash(archive.entries)

Broken(archive) == ~Linked(archive)

-----------------------------------------------------------------------------
(* The monitor's alerts, one set for each of its three loads *)

Critical == {"EVIDENCE_CHAIN_BROKEN"}
Warning  == {"EVIDENCE_COUNT_LOW", "LATEST_CERTIFICATION_BLOCKED", "EVIDENCE_STALE"}
Info     == {"NO_EVIDENCE_DATA", "LATEST_CERTIFICATION_NOT_FINAL"}
Codes    == Critical \union Warning \union Info

\* From summary: how many entries there are.
CountAlerts(archive) ==
  CASE archive.entries = <<>>                 -> {"NO_EVIDENCE_DATA"}
    [] Len(archive.entries) \in 1..MinEntries - 1 -> {"EVIDENCE_COUNT_LOW"}
    [] OTHER                                  -> {}

\* Mutant: an archive at its limit is taken for a trimmed one.
ChainAlertsAtLimit(archive, counted) ==
  IF Len(archive.entries) = MaxEntries /\ "NO_EVIDENCE_DATA" \notin counted
    THEN {"EVIDENCE_CHAIN_BROKEN"} ELSE {}

\* Mutant: the summary's count is tested the wrong way round.
ChainAlertsInverted(archive, counted) ==
  IF Broken(archive) /\ "NO_EVIDENCE_DATA" \in counted
    THEN {"EVIDENCE_CHAIN_BROKEN"} ELSE {}

\* From verify, unless the summary has counted no entry.
ChainAlerts(archive, counted) ==
  IF Broken(archive) /\ "NO_EVIDENCE_DATA" \notin counted
    THEN {"EVIDENCE_CHAIN_BROKEN"} ELSE {}

\* From latest, if there is one; its age is a matter of the clock.
LatestAlerts(archive, old) ==
  IF archive.entries = <<>> THEN {} ELSE
    LET status == Last(archive.entries).status IN
    (IF status = "BLOCKED" THEN {"LATEST_CERTIFICATION_BLOCKED"} ELSE {})
    \union (IF status \in {"PENDING", "NO_DATA"}
              THEN {"LATEST_CERTIFICATION_NOT_FINAL"} ELSE {})
    \union (IF old THEN {"EVIDENCE_STALE"} ELSE {})

=============================================================================
