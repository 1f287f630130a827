--------------------------- MODULE IncidentJournal ---------------------------
(***************************************************************************)
(* The journal of evidence incidents                                       *)
(* (paper/certification_evidence_incidents.py) as a value: the status of   *)
(* the incident of each alert code, which are acknowledged, and the alert  *)
(* counts of the newest snapshot.  There are fewer codes than the ten      *)
(* incidents the file keeps at least, so none is ever trimmed.             *)
(***************************************************************************)
EXTENDS EvidenceArchive

IncidentStatuses == {"none", "ACTIVE", "RESOLVED"}

\* alert_counts, by severity.
Counts(alerts) ==
  [critical |-> Cardinality(alerts \intersect Critical),
   warning  |-> Cardinality(alerts \intersect Warning),
   info     |-> Cardinality(alerts \intersect Info)]

Journals ==
  [status       : [Codes -> IncidentStatuses],
   acknowledged : SUBSET Codes,
   counts       : [critical : Nat, warning : Nat, info : Nat]]

EmptyJournal ==
  [status       |-> [code \in Codes |-> "none"],
   acknowledged |-> {},
   counts       |-> Counts({})]

Known(j)  == {code \in Codes : j.status[code] # "none"}
Active(j) == {code \in Codes : j.status[code] = "ACTIVE"}

\* Mutant: incidents are not resolved when a snapshot has no alert at all.
CapturedNeverClears(j, alerts) ==
  [j EXCEPT !.status = [code \in Codes |->
                         IF code \in alerts THEN "ACTIVE"
                         ELSE IF j.status[code] = "ACTIVE" /\ alerts # {}
                           THEN "RESOLVED" ELSE j.status[code]],
            !.counts = Counts(alerts)]

\* Mutant: a reactivated incident starts again unacknowledged.
CapturedForgets(j, alerts) ==
  [status |-> [code \in Codes |->
                IF code \in alerts THEN "ACTIVE"
                ELSE IF j.status[code] = "ACTIVE" THEN "RESOLVED" ELSE j.status[code]],
   acknowledged |-> j.acknowledged \ (alerts \ Active(j)),
   counts |-> Counts(alerts)]

\* capture: alerts create or (re)activate incidents, active ones without an alert
\* are resolved.
Captured(j, alerts) ==
  [j EXCEPT !.status = [code \in Codes |->
                         IF code \in alerts THEN "ACTIVE"
                         ELSE IF j.status[code] = "ACTIVE" THEN "RESOLVED"
                         ELSE j.status[code]],
            !.counts = Counts(alerts)]

Acknowledged(j, code) == [j EXCEPT !.acknowledged = @ \union {code}]

=============================================================================
