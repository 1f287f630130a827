----------------------- MODULE EvidenceIncidentsProofs -----------------------
(***************************************************************************)
(* Theorems about EvidenceIncidents, for every number of loops and         *)
(* handlers, every limit of the archive and any number of failures.        *)
(***************************************************************************)
EXTENDS EvidenceIncidents, FiniteSetTheorems, SequenceTheorems, TLAPS

-----------------------------------------------------------------------------
(* Archive and journal *)

Entries == Seq([status : ReportStatuses, previous : Nat, hash : Nat])

\* The hashes in the file are consecutive, and only trimming makes it shorter than
\* the number of captures.
ArchiveIsChain(a) ==
  /\ a.head \in Nat
  /\ a.entries \in Entries
  /\ Len(a.entries) = (IF a.head > MaxEntries THEN MaxEntries ELSE a.head)
  /\ \A i \in 1..Len(a.entries) :
       /\ a.entries[i].hash = a.head - Len(a.entries) + i
       /\ a.entries[i].previous = a.head - Len(a.entries) + i - 1

\* Of an archive that is a chain, LastHash is the head.
LEMMA HeadIsLast ==
  ASSUME NEW a, ArchiveIsChain(a)
  PROVE  LastHash(a.entries) = a.head
<1> DEFINE n == Len(a.entries)
<1>1. n \in Nat /\ a.head \in Nat /\ (a.entries = <<>> <=> n = 0)
  BY DEF ArchiveIsChain, Entries
<1>2. n = 0 <=> a.head = 0
  BY ArchiveAssumption DEF ArchiveIsChain
<1>3. ASSUME n # 0
      PROVE  a.entries[n].hash = a.head
  <2>1. n \in 1..n
    BY <1>1, <1>3
  <2>2. a.entries[n].hash = a.head - n + n
    BY <2>1 DEF ArchiveIsChain
  <2> QED BY <2>2, <1>1
<1> QED BY <1>1, <1>2, <1>3 DEF LastHash, Last, Genesis

\* It is broken exactly when it has been trimmed.
LEMMA BrokenIffTrimmed ==
  ASSUME NEW a, ArchiveIsChain(a)
  PROVE  Broken(a) <=> a.head > MaxEntries
<1> DEFINE n == Len(a.entries)
<1>1. n \in Nat /\ a.head \in Nat /\ DOMAIN a.entries = 1..n
  BY DEF ArchiveIsChain, Entries
<1>2. \A i \in 1..n : /\ a.entries[i].hash = a.head - n + i
                      /\ a.entries[i].previous = a.head - n + i - 1
  BY DEF ArchiveIsChain
<1>3. n = (IF a.head > MaxEntries THEN MaxEntries ELSE a.head)
  BY DEF ArchiveIsChain
<1> HIDE DEF n
<1>4. ASSUME a.head > MaxEntries PROVE Broken(a)
  <2>1. n = MaxEntries /\ 1 \in 1..n
    BY <1>3, <1>4, ArchiveAssumption
  <2>2. a.entries[1].previous # 0
    BY <2>1, <1>2, <1>1, <1>4, ArchiveAssumption
  <2> QED BY <2>1, <2>2, <1>1 DEF Broken, Linked, Genesis
<1>5. ASSUME ~(a.head > MaxEntries) PROVE Linked(a)
  <2>1. n = a.head BY <1>3, <1>5
  <2>2. \A i \in 1..n : a.entries[i].hash = i /\ a.entries[i].previous = i - 1
    BY <2>1, <1>1, <1>2
  <2>3. \A i \in 1..n : i # 1 => i - 1 \in 1..n
    BY <1>1
  <2> QED BY <2>2, <2>3, <1>1, HeadIsLast DEF Linked, Genesis
<1> QED BY <1>4, <1>5 DEF Broken

\* capture keeps the chain and adds one to its head.
LEMMA CaptureKeepsChain ==
  ASSUME NEW a, ArchiveIsChain(a), NEW status \in ReportStatuses
  PROVE  /\ ArchiveIsChain(Capture(a, status))
         /\ Capture(a, status).head = a.head + 1
<1> DEFINE e == Entry(a.entries, status)
           long == Append(a.entries, e)
           n == Len(a.entries)
           new == Newest(long)
<1>1. /\ n \in Nat /\ a.head \in Nat /\ a.entries \in Entries
      /\ n = (IF a.head > MaxEntries THEN MaxEntries ELSE a.head)
  BY DEF ArchiveIsChain, Entries
<1>2. \A i \in 1..n : /\ a.entries[i].hash = a.head - n + i
                      /\ a.entries[i].previous = a.head - n + i - 1
  BY DEF ArchiveIsChain
<1>3. /\ e \in [status : ReportStatuses, previous : Nat, hash : Nat]
      /\ e.hash = a.head + 1 /\ e.previous = a.head
  BY <1>1, HeadIsLast DEF Entry
<1>4. Capture(a, status) = [entries |-> new, head |-> a.head + 1]
  BY <1>3 DEF Capture
<1>5. /\ long \in Entries
      /\ Len(long) = n + 1
      /\ long[n + 1] = e
      /\ \A i \in 1..n : long[i] = a.entries[i]
  BY <1>1, <1>3 DEF Entries
<1> HIDE DEF e, long
<1>6. \A i \in 1..n + 1 : /\ long[i].hash = a.head - n + i
                          /\ long[i].previous = a.head - n + i - 1
  <2> SUFFICES ASSUME NEW i \in 1..n + 1
               PROVE  long[i].hash = a.head - n + i /\ long[i].previous = a.head - n + i - 1
    OBVIOUS
  <2>1. CASE i = n + 1 BY <2>1, <1>1, <1>3, <1>5
  <2>2. CASE i \in 1..n BY <2>2, <1>2, <1>5
  <2> QED BY <2>1, <2>2, <1>1
<1> HIDE DEF n
<1>7. CASE n + 1 > MaxEntries
  <2>1. n = MaxEntries
    BY <1>7, <1>1, ArchiveAssumption
  <2>2. new = SubSeq(long, 2, n + 1)
    <3>1. Len(long) > MaxEntries /\ Len(long) - MaxEntries + 1 = 2 /\ Len(long) = n + 1
      BY <2>1, <1>1, <1>5, ArchiveAssumption
    <3> QED BY <3>1 DEF Newest
  <2>3. /\ new \in Entries
        /\ Len(new) = n
        /\ \A i \in 1..n : new[i] = long[i + 1]
    <3> DEFINE E == [status : ReportStatuses, previous : Nat, hash : Nat]
    <3>1. \A i \in 2..n + 1 : long[i] \in E
      <4>1. long \in Seq(E) BY <1>5 DEF Entries
      <4>2. \A i \in 2..n + 1 : i \in 1..Len(long) BY <1>1, <1>5
      <4> HIDE DEF E
      <4> QED BY <4>1, <4>2, ElementOfSeq
    <3> HIDE DEF new, E
    <3> DEFINE m == 2
               k == n + 1
    <3>4. m \in Int /\ k \in Int /\ \A i \in m..k : long[i] \in E
      BY <1>1, <3>1
    <3> HIDE DEF m, k
    <3>5. /\ SubSeq(long, m, k) \in Seq(E)
          /\ Len(SubSeq(long, m, k)) = IF m <= k THEN k - m + 1 ELSE 0
          /\ \A i \in 1..k - m + 1 : SubSeq(long, m, k)[i] = long[m + i - 1]
      BY <3>4, SubSeqProperties, SMTT(30)
    <3>6. new = SubSeq(long, m, k) BY <2>2 DEF m, k
    <3>7. k - m + 1 = n /\ m <= k /\ \A i \in 1..n : m + i - 1 = i + 1
      BY <1>1, <2>1, ArchiveAssumption DEF m, k
    <3> QED BY <3>5, <3>6, <3>7 DEF Entries, E
  <2> HIDE DEF new
  <2>4. \A i \in 1..n : /\ new[i].hash = a.head - n + (i + 1)
                        /\ new[i].previous = a.head - n + (i + 1) - 1
    <3>1. \A i \in 1..n : i + 1 \in 1..n + 1 BY <1>1
    <3> QED BY <3>1, <2>3, <1>6
  <2>5. \A i \in 1..n : /\ new[i].hash = (a.head + 1) - n + i
                        /\ new[i].previous = (a.head + 1) - n + i - 1
    BY <2>4, <1>1
  <2>6. n = (IF a.head + 1 > MaxEntries THEN MaxEntries ELSE a.head + 1)
    BY <2>1, <1>1, ArchiveAssumption
  <2> QED BY <1>1, <1>4, <2>3, <2>5, <2>6 DEF ArchiveIsChain
<1>8. CASE ~(n + 1 > MaxEntries)
  <2>1. new = long
    BY <1>8, <1>1, <1>5, ArchiveAssumption DEF Newest, Entries
  <2> HIDE DEF new
  <2>2. n = a.head /\ ~(a.head + 1 > MaxEntries)
    BY <1>8, <1>1, ArchiveAssumption
  <2>3. \A i \in 1..n + 1 : /\ new[i].hash = (a.head + 1) - (n + 1) + i
                            /\ new[i].previous = (a.head + 1) - (n + 1) + i - 1
    BY <1>1, <1>6, <2>1
  <2> QED BY <1>1, <1>4, <1>5, <2>1, <2>2, <2>3 DEF ArchiveIsChain
<1> QED BY <1>1, <1>4, <1>7, <1>8, ArchiveAssumption

\* A chain once broken stays so.
LEMMA BrokenStaysBroken ==
  ASSUME NEW a, ArchiveIsChain(a), NEW status \in ReportStatuses, Broken(a)
  PROVE  Broken(Capture(a, status))
<1>1. a.head \in Nat /\ a.head > MaxEntries
  BY BrokenIffTrimmed DEF ArchiveIsChain
<1>2. /\ ArchiveIsChain(Capture(a, status))
      /\ Capture(a, status).head > MaxEntries
  BY <1>1, CaptureKeepsChain, ArchiveAssumption
<1> QED BY <1>2, BrokenIffTrimmed

LEMMA CountsType ==
  ASSUME NEW found \in SUBSET Codes
  PROVE  Counts(found) \in [critical : Nat, warning : Nat, info : Nat]
<1>1. IsFiniteSet(Codes)
  <2>1. IsFiniteSet({}) BY FS_EmptySet
  <2>2. \A c, S : IsFiniteSet(S) => IsFiniteSet(S \union {c}) BY FS_AddElement
  <2>3. Codes = ((((({} \union {"EVIDENCE_CHAIN_BROKEN"}) \union {"EVIDENCE_COUNT_LOW"})
                   \union {"LATEST_CERTIFICATION_BLOCKED"}) \union {"EVIDENCE_STALE"})
                   \union {"NO_EVIDENCE_DATA"}) \union {"LATEST_CERTIFICATION_NOT_FINAL"}
    BY DEF Codes, Critical, Warning, Info
  <2> QED BY <2>1, <2>2, <2>3
<1>2. \A S : IsFiniteSet(found \intersect S)
  BY <1>1, FS_Subset
<1> QED BY <1>2, FS_CardinalityType DEF Counts

\* What capture makes of a journal: alerts are active, and nothing is forgotten.
LEMMA CapturedJournal ==
  ASSUME NEW j \in Journals, NEW found \in SUBSET Codes
  PROVE  /\ Captured(j, found) \in Journals
         /\ Active(Captured(j, found)) = found
         /\ Captured(j, found).counts = Counts(found)
         /\ Known(Captured(j, found)) = Known(j) \union found
         /\ Captured(j, found).acknowledged = j.acknowledged
BY CountsType DEF Captured, Journals, Active, Known, IncidentStatuses

LEMMA AcknowledgedJournal ==
  ASSUME NEW j \in Journals, NEW code \in Codes
  PROVE  /\ Acknowledged(j, code) \in Journals
         /\ Active(Acknowledged(j, code)) = Active(j)
         /\ Acknowledged(j, code).counts = j.counts
         /\ Known(Acknowledged(j, code)) = Known(j)
         /\ j.acknowledged \subseteq Acknowledged(j, code).acknowledged
BY DEF Acknowledged, Journals, Active, Known

LEMMA NoIncidents ==
  /\ EmptyJournal \in Journals
  /\ Active(EmptyJournal) = {}
  /\ EmptyJournal.counts = Counts({})
  /\ Known(EmptyJournal) = {}
BY CountsType DEF EmptyJournal, Journals, Active, Known, IncidentStatuses

\* What the monitor may find.
LEMMA AlertsAreCodes ==
  ASSUME NEW a, NEW found, NEW old
  PROVE  /\ CountAlerts(a) \subseteq Codes \ Critical
         /\ ChainAlerts(a, found) \subseteq Codes
         /\ LatestAlerts(a, old) \subseteq Codes \ Critical
         /\ ChainAlerts(a, found) # {} => Broken(a)
BY DEF CountAlerts, ChainAlerts, LatestAlerts, Codes, Critical, Warning, Info
-----------------------------------------------------------------------------
(* Coroutines, threads and types *)

\* Who is awaited has been asked to end.
TargetsAreStopped == \A s \in Stoppers : target[s] # 0 => target[s] \in stopped

\* A thread works for the coroutine that has the lock, or for a cancelled one.
WorkIsAccounted == \A c \in Callers : stage[c] # "idle" => at[c] = "cycle" \/ c \in cancelled

\* The cycle lock has one holder.
LockIsHeldOnce == \A c, d \in Callers : at[c] = "cycle" /\ at[d] = "cycle" => c = d

RuntimeInv == TypeOK /\ TargetsAreStopped /\ WorkIsAccounted /\ LockIsHeldOnce /\ OneLoop

LEMMA LoopsAreCallers ==
  /\ Loops \subseteq Callers /\ Requests \subseteq Callers /\ Callers \subseteq Threads
  /\ Handler \in Threads /\ Handler \notin Callers
  /\ MaxStarts \in Nat /\ 0 \notin Loops /\ Loops \intersect Requests = {}
  /\ \A n \in 0..MaxStarts : 1..n \subseteq Loops
BY RuntimeAssumption DEF Loops, Callers, Threads

LEMMA RuntimeInit == Init => RuntimeInv
<1> SUFFICES ASSUME Init PROVE RuntimeInv
  OBVIOUS
<1>1. started \in 0..MaxStarts /\ task \in 0..started /\ stopped \subseteq 1..started
      /\ cancelled \subseteq stopped /\ failures \in 0..MaxFailures
  BY RuntimeAssumption DEF Init
<1>2. at \in [Callers -> Waiting \union {"none", "idle", "done"}] /\ stage \in [Threads -> Stages]
  BY DEF Init, Stages
<1>3. target \in [Stoppers -> 0..started]
  BY DEF Init
<1>4. alerts \in [Threads -> SUBSET Codes] /\ doc \in [Threads -> Journals] /\ journal \in Journals
  BY NoIncidents DEF Init
<1>5. TypeOK
  BY <1>1, <1>2, <1>3, <1>4 DEF Init, TypeOK
<1>6. TargetsAreStopped /\ WorkIsAccounted /\ LockIsHeldOnce /\ OneLoop
  BY LoopsAreCallers DEF Init, TargetsAreStopped, WorkIsAccounted, LockIsHeldOnce, OneLoop, Waiting
<1> QED BY <1>5, <1>6 DEF RuntimeInv

\* What the coroutines do to the runtime's own state.
LEMMA RuntimeStep == ASSUME RuntimeInv, [Next]_vars PROVE RuntimeInv'
<1> USE LoopsAreCallers, RuntimeAssumption DEF RuntimeInv, TypeOK, LoopIsFree, Move, Enter
<1>1. CASE Start
  <2>1. PICK first \in {"queued", "wait"} : at' = [at EXCEPT ![started + 1] = first]
    BY <1>1 DEF Start
  <2>2. started + 1 \in Loops /\ started' = started + 1 /\ task' = started + 1
    BY <1>1 DEF Start, Loops
  <2>3. TypeOK'
    BY <1>1, <2>1, <2>2 DEF Start, work, files, Waiting
  <2>4. \A l \in Loops : at[l] \notin Waiting
    BY <1>1 DEF Start, OneLoop, Waiting
  <2>5. OneLoop'
    BY <2>1, <2>2, <2>4 DEF OneLoop
  <2>6. stage[started + 1] = "idle" \/ started + 1 \in cancelled
    BY <2>2, <2>4 DEF WorkIsAccounted, Waiting
  <2>7. (TargetsAreStopped /\ WorkIsAccounted)'
    BY <1>1, <2>1, <2>2, <2>6 DEF Start, work, TargetsAreStopped, WorkIsAccounted
  <2>8. LockIsHeldOnce'
    BY <2>1, <2>2 DEF LockIsHeldOnce
  <2> QED BY <2>3, <2>5, <2>7, <2>8
<1>2. ASSUME NEW r \in Requests, Cycle(r) PROVE RuntimeInv'
  <2>1. stage[r] = "idle" \/ r \in cancelled
    BY <1>2 DEF Cycle, WorkIsAccounted
  <2> QED BY <1>2, <2>1 DEF Cycle, work, files, Waiting, TargetsAreStopped, WorkIsAccounted,
                        LockIsHeldOnce, OneLoop
<1>3. ASSUME NEW c \in Callers, Acquire(c) PROVE RuntimeInv'
  <2>1. stage[c] = "idle"
    BY <1>3 DEF Acquire, WorkIsAccounted
  <2>2. TypeOK'
    BY <1>3, <2>1 DEF Acquire, files, Waiting, Stages
  <2>3. (TargetsAreStopped /\ OneLoop)'
    BY <1>3 DEF Acquire, TargetsAreStopped, OneLoop, Waiting
  <2>4. (WorkIsAccounted /\ LockIsHeldOnce)'
    BY <1>3 DEF Acquire, WorkIsAccounted, LockIsHeldOnce
  <2> QED BY <2>2, <2>3, <2>4
<1>4. ASSUME NEW c \in Callers, Release(c) PROVE RuntimeInv'
  <2>1. PICK where \in {"idle", "done", "wait"} :
          /\ at' = [at EXCEPT ![c] = where]
          /\ c \in Loops => where # "idle"
    BY <1>4 DEF Release
  <2>2. TypeOK'
    BY <1>4, <2>1 DEF Release, files, Waiting, Stages
  <2>3. (TargetsAreStopped /\ OneLoop)'
    BY <1>4, <2>1 DEF Release, TargetsAreStopped, OneLoop, Waiting
  <2>4. (WorkIsAccounted /\ LockIsHeldOnce)'
    BY <1>4, <2>1 DEF Release, WorkIsAccounted, LockIsHeldOnce
  <2> QED BY <2>2, <2>3, <2>4
<1>5. ASSUME NEW l \in Loops, Wake(l) PROVE RuntimeInv'
  <2>1. PICK where \in {"queued", "done"} : at' = [at EXCEPT ![l] = where]
    BY <1>5 DEF Wake
  <2> QED BY <1>5, <2>1 DEF Wake, work, files, Waiting, TargetsAreStopped, WorkIsAccounted,
                            LockIsHeldOnce, OneLoop
<1>6. ASSUME NEW l \in Loops, Cancelled(l) PROVE RuntimeInv'
  <2>1. PICK where \in {"idle", stage[l]} :
          stage' = [stage EXCEPT ![l] = where] /\ (where # stage[l] => stage[l] # "save")
    BY <1>6 DEF Cancelled
  <2>2. TypeOK'
    BY <1>6, <2>1 DEF Cancelled, files, Waiting, Stages
  <2>3. (TargetsAreStopped /\ OneLoop)'
    BY <1>6 DEF Cancelled, TargetsAreStopped, OneLoop, Waiting
  <2>4. (WorkIsAccounted /\ LockIsHeldOnce)'
    BY <1>6, <2>1 DEF Cancelled, WorkIsAccounted, LockIsHeldOnce
  <2> QED BY <2>2, <2>3, <2>4
<1>7. ASSUME NEW s \in Stoppers, Stop(s) PROVE RuntimeInv'
  <2>1. CASE at[task] = "done"
    <3>1. task' = 0 /\ UNCHANGED <<started, stopped, target, cancelled, at, work, files>>
      BY <1>7, <2>1 DEF Stop
    <3>2. TypeOK'
      BY <3>1 DEF work, files
    <3>3. (TargetsAreStopped /\ WorkIsAccounted /\ LockIsHeldOnce)'
      BY <3>1 DEF work, TargetsAreStopped, WorkIsAccounted, LockIsHeldOnce
    <3>4. OneLoop'
      BY <2>1, <3>1 DEF OneLoop, Waiting
    <3> QED BY <3>2, <3>3, <3>4
  <2>2. CASE at[task] # "done"
    <3>1. /\ stopped' = stopped \union {task}
          /\ target' = [target EXCEPT ![s] = task]
          /\ task \in 1..started
      BY <1>7, <2>2 DEF Stop
    <3> QED BY <1>7, <2>2, <3>1 DEF Stop, work, files, TargetsAreStopped, WorkIsAccounted,
                                    LockIsHeldOnce, OneLoop
  <2> QED BY <2>1, <2>2
<1>8. ASSUME NEW s \in Stoppers, StopTimeout(s) PROVE RuntimeInv'
  BY <1>8 DEF StopTimeout, work, files, TargetsAreStopped, WorkIsAccounted, LockIsHeldOnce, OneLoop
<1>9. ASSUME NEW s \in Stoppers, StopReturn(s) PROVE RuntimeInv'
  BY <1>9 DEF StopReturn, work, files, TargetsAreStopped, WorkIsAccounted, LockIsHeldOnce,
              OneLoop, Waiting
<1>10. ASSUME NEW t \in Threads, ThreadStep(t) \/ Fail(t) PROVE RuntimeInv'
  <2>1. UNCHANGED runtime /\ TypeOK'
    <3>1. CASE Summary(t)
      BY <3>1, AlertsAreCodes DEF Summary, Found, runtime, files, Stages
    <3>2. CASE Verify(t)
      BY <3>2, AlertsAreCodes DEF Verify, Found, runtime, files, Stages
    <3>3. CASE Latest(t)
      <4>1. PICK old \in Ages : Found(t, LatestAlerts(archive, old))
        BY <3>3 DEF Latest
      <4> QED BY <3>3, <4>1, AlertsAreCodes DEF Latest, Found, runtime, files, Stages
    <3>4. CASE Load(t)
      <4>1. Captured(journal, alerts[t]) \in Journals
        BY CapturedJournal
      <4> QED BY <3>4, <4>1 DEF Load, runtime, files, Stages
    <3>5. CASE Save(t)
      BY <3>5, NoIncidents DEF Save, Finish, runtime, Stages
    <3>6. CASE Fail(t)
      BY <3>6, NoIncidents DEF Fail, Finish, runtime, files, Stages
    <3> QED BY <1>10, <3>1, <3>2, <3>3, <3>4, <3>5, <3>6 DEF ThreadStep
  <2>2. \E where \in Stages : /\ stage' = [stage EXCEPT ![t] = where]
                              /\ stage[t] # "idle"
    BY <1>10 DEF ThreadStep, Summary, Verify, Latest, Load, Save, Fail, Finish, Stages
  <2> QED BY <2>1, <2>2 DEF runtime, TargetsAreStopped, WorkIsAccounted, LockIsHeldOnce, OneLoop
<1>11. ASSUME NEW status \in Statuses, CaptureEvidence(status) PROVE RuntimeInv'
  BY <1>11 DEF CaptureEvidence, runtime, work, TargetsAreStopped, WorkIsAccounted,
               LockIsHeldOnce, OneLoop
<1>12. ASSUME NEW edited \in Journals, Handle(edited) PROVE RuntimeInv'
  BY <1>12 DEF Handle, runtime, files, Stages, TargetsAreStopped, WorkIsAccounted,
               LockIsHeldOnce, OneLoop
<1>13. CASE CaptureIncidents
  <2>1. PICK old \in Ages :
          LET counted == CountAlerts(archive) IN
          Handle(Captured(journal, counted \union ChainAlerts(archive, counted)
                                           \union LatestAlerts(archive, old)))
    BY <1>13 DEF CaptureIncidents
  <2> QED BY <2>1, <1>12, CapturedJournal, AlertsAreCodes
<1>14. ASSUME NEW code \in Noticed, Acknowledge(code) PROVE RuntimeInv'
  BY <1>14, <1>12, AcknowledgedJournal DEF Acknowledge
<1>15. CASE UNCHANGED vars
  BY <1>15 DEF vars, runtime, work, files, TargetsAreStopped, WorkIsAccounted, LockIsHeldOnce,
               OneLoop
<1> QED
  BY <1>1, <1>2, <1>3, <1>4, <1>5, <1>6, <1>7, <1>8, <1>9, <1>10, <1>11, <1>13, <1>14, <1>15
  DEF Next, CoroutineStep, StopStep

-----------------------------------------------------------------------------
(* The files *)

LEMMA ArchiveInit == Init => ArchiveIsChain(archive)
<1> SUFFICES ASSUME Init PROVE ArchiveIsChain(archive)
  OBVIOUS
<1> DEFINE E == [i \in 1..Recorded |-> [status |-> "CERTIFIED", previous |-> i - 1, hash |-> i]]
<1>1. Recorded \in Nat /\ Recorded <= MaxEntries /\ MaxEntries \in Nat
  BY RuntimeAssumption, ArchiveAssumption
<1>2. E \in Entries /\ Len(E) = Recorded
  BY <1>1 DEF Entries, ReportStatuses
<1>3. archive.entries = E /\ archive.head = Recorded
  BY DEF Init
<1>4. \A i \in 1..Recorded : E[i].hash = i /\ E[i].previous = i - 1
  OBVIOUS
<1> HIDE DEF E
<1>5. \A i \in 1..Recorded : i = Recorded - Recorded + i /\ i - 1 = Recorded - Recorded + i - 1
  BY <1>1
<1> QED BY <1>1, <1>2, <1>3, <1>4, <1>5 DEF ArchiveIsChain

\* Only one step writes the archive.
LEMMA ArchiveChanges ==
  ASSUME [Next]_vars
  PROVE  archive' = archive \/ \E status \in Statuses : archive' = Capture(archive, status)
<1>1. ASSUME NEW status \in Statuses, CaptureEvidence(status)
      PROVE  archive' = Capture(archive, status)
  BY <1>1 DEF CaptureEvidence
<1> QED
  BY <1>1
  DEF Next, CoroutineStep, StopStep, ThreadStep, Start, Cycle, Acquire, Release, Wake,
      Cancelled, Stop, StopTimeout, StopReturn, Summary, Verify, Latest, Load, Save, Fail,
      CaptureIncidents, Acknowledge, Handle, files, vars

LEMMA ArchiveStep ==
  ASSUME ArchiveIsChain(archive), [Next]_vars
  PROVE  ArchiveIsChain(archive)' /\ (Broken(archive) => Broken(archive'))
<1>1. CASE archive' = archive
  BY <1>1 DEF ArchiveIsChain
<1>2. ASSUME NEW status \in Statuses, archive' = Capture(archive, status)
      PROVE  ArchiveIsChain(archive') /\ (Broken(archive) => Broken(archive'))
  BY <1>2, CaptureKeepsChain, BrokenStaysBroken, ArchiveAssumption
<1>3. ArchiveIsChain(archive') => ArchiveIsChain(archive)'
  BY DEF ArchiveIsChain
<1> QED BY <1>1, <1>2, <1>3, ArchiveChanges

\* Every journal there is: in the file or on its way to it.
JournalsNow == {journal} \union {doc[t] : t \in Threads}

\* What a step makes of the journals: each is one there was, an empty one, one of
\* them with alerts captured or with an incident acknowledged.
JournalSource(j) ==
  \/ j \in JournalsNow
  \/ j = EmptyJournal
  \/ \E old \in JournalsNow, t \in Threads : j = Captured(old, alerts[t])
  \/ \E old \in JournalsNow, age \in Ages :
       LET counted == CountAlerts(archive) IN
       j = Captured(old, counted \union ChainAlerts(archive, counted)
                                 \union LatestAlerts(archive, age))
  \/ \E old \in JournalsNow, code \in Codes : j = Acknowledged(old, code)

LEMMA JournalsChange ==
  ASSUME TypeOK, [Next]_vars
  PROVE  \A j \in JournalsNow' : JournalSource(j)
<1> USE DEF TypeOK
<1>1. CASE UNCHANGED <<doc, journal>>
  BY <1>1 DEF JournalsNow, JournalSource
<1>2. ASSUME NEW t \in Threads, Load(t) PROVE \A j \in JournalsNow' : JournalSource(j)
  BY <1>2 DEF Load, files, JournalsNow, JournalSource
<1>3. ASSUME NEW t \in Threads, Save(t) PROVE \A j \in JournalsNow' : JournalSource(j)
  BY <1>3 DEF Save, Finish, JournalsNow, JournalSource
<1>4. ASSUME NEW t \in Threads, Fail(t) PROVE \A j \in JournalsNow' : JournalSource(j)
  BY <1>4 DEF Fail, Finish, files, JournalsNow, JournalSource
<1>5. CASE CaptureIncidents
  <2>1. PICK age \in Ages :
          LET counted == CountAlerts(archive) IN
          Handle(Captured(journal, counted \union ChainAlerts(archive, counted)
                                           \union LatestAlerts(archive, age)))
    BY <1>5 DEF CaptureIncidents
  <2> QED BY <2>1 DEF Handle, files, JournalsNow, JournalSource
<1>6. ASSUME NEW code \in Noticed, Acknowledge(code) PROVE \A j \in JournalsNow' : JournalSource(j)
  BY <1>6, RuntimeAssumption DEF Acknowledge, Handle, files, JournalsNow, JournalSource
<1>7. \/ UNCHANGED <<doc, journal>>
      \/ \E t \in Threads : Load(t) \/ Save(t) \/ Fail(t)
      \/ CaptureIncidents
      \/ \E code \in Noticed : Acknowledge(code)
  BY DEF Next, CoroutineStep, StopStep, ThreadStep, Start, Cycle, Acquire, Release, Wake,
      Cancelled, Stop, StopTimeout, StopReturn, Summary, Verify, Latest, CaptureEvidence,
      work, files, vars
<1> QED BY <1>1, <1>2, <1>3, <1>4, <1>5, <1>6, <1>7

\* The journals are coherent at first, and stay so.
Coherent(j) == j.counts = Counts(Active(j))

LEMMA JournalsType == ASSUME TypeOK PROVE JournalsNow \subseteq Journals
BY DEF TypeOK, JournalsNow

LEMMA CoherentStep ==
  ASSUME TypeOK, JournalIsCoherent, [Next]_vars
  PROVE  JournalIsCoherent'
<1>1. \A j \in JournalsNow : j \in Journals /\ Coherent(j)
  BY JournalsType DEF JournalIsCoherent, JournalsNow, Coherent
<1>2. ASSUME NEW j, JournalSource(j) PROVE Coherent(j)
  <2>1. CASE j \in JournalsNow BY <2>1, <1>1
  <2>2. CASE j = EmptyJournal BY <2>2, NoIncidents DEF Coherent
  <2>3. ASSUME NEW old \in JournalsNow, NEW found \in SUBSET Codes, j = Captured(old, found)
        PROVE  Coherent(j)
    BY <2>3, <1>1, CapturedJournal DEF Coherent
  <2>4. ASSUME NEW old \in JournalsNow, NEW code \in Codes, j = Acknowledged(old, code)
        PROVE  Coherent(j)
    BY <2>4, <1>1, AcknowledgedJournal DEF Coherent
  <2>5. \A t \in Threads : alerts[t] \in SUBSET Codes
    BY DEF TypeOK
  <2>6. \A age \in Ages :
          LET counted == CountAlerts(archive) IN
          counted \union ChainAlerts(archive, counted) \union LatestAlerts(archive, age)
            \in SUBSET Codes
    BY AlertsAreCodes
  <2> QED BY <1>2, <2>1, <2>2, <2>3, <2>4, <2>5, <2>6 DEF JournalSource
<1>3. \A j \in JournalsNow' : Coherent(j)
  BY <1>2, JournalsChange
<1> QED BY <1>3 DEF JournalIsCoherent, JournalsNow, Coherent

\* No thread has found, and no journal holds, an alarm that is false.
Alarm == "EVIDENCE_CHAIN_BROKEN"

LEMMA AlarmStep ==
  ASSUME TypeOK, ArchiveIsChain(archive), NoFalseAlarm, [Next]_vars
  PROVE  NoFalseAlarm'
<1>1. CASE Broken(archive)
  <2>1. Broken(archive')
    BY <1>1, ArchiveStep
  <2> QED BY <2>1 DEF NoFalseAlarm, Broken, Linked
<1>2. CASE ~Broken(archive)
  <2>1. /\ \A t \in Threads : Alarm \notin alerts[t]
        /\ \A j \in JournalsNow : j \in Journals /\ Alarm \notin Known(j)
    BY <1>2, JournalsType DEF NoFalseAlarm, JournalsNow, Alarm
  <2>2. \A found, age : /\ Alarm \notin CountAlerts(archive)
                        /\ Alarm \notin ChainAlerts(archive, found)
                        /\ Alarm \notin LatestAlerts(archive, age)
    BY <1>2, AlertsAreCodes DEF Alarm, Critical
  <2>3. ASSUME NEW j, JournalSource(j) PROVE Alarm \notin Known(j)
    <3>1. CASE j \in JournalsNow BY <3>1, <2>1
    <3>2. CASE j = EmptyJournal BY <3>2, NoIncidents
    <3>3. ASSUME NEW old \in JournalsNow, NEW found \in SUBSET Codes, Alarm \notin found,
                 j = Captured(old, found)
          PROVE  Alarm \notin Known(j)
      BY <3>3, <2>1, CapturedJournal
    <3>4. ASSUME NEW old \in JournalsNow, NEW code \in Codes, j = Acknowledged(old, code)
          PROVE  Alarm \notin Known(j)
      BY <3>4, <2>1, AcknowledgedJournal
    <3>5. \A t \in Threads : alerts[t] \in SUBSET Codes /\ Alarm \notin alerts[t]
      BY <2>1 DEF TypeOK
    <3>6. \A age \in Ages :
            LET counted == CountAlerts(archive)
                found   == counted \union ChainAlerts(archive, counted)
                                   \union LatestAlerts(archive, age) IN
            found \in SUBSET Codes /\ Alarm \notin found
      BY <2>2, AlertsAreCodes
    <3> QED BY <2>3, <3>1, <3>2, <3>3, <3>4, <3>5, <3>6 DEF JournalSource
  <2>4. \A j \in JournalsNow' : Alarm \notin Known(j)
    BY <2>3, JournalsChange
  <2>5. \A t \in Threads : Alarm \notin alerts'[t]
    <3>1. CASE UNCHANGED alerts BY <3>1, <2>1
    <3>2. ASSUME NEW u \in Threads, NEW codes, Found(u, codes), Alarm \notin codes
          PROVE  \A t \in Threads : Alarm \notin alerts'[t]
      BY <3>2, <2>1 DEF Found, TypeOK
    <3>3. ASSUME NEW u \in Threads, Save(u) \/ Fail(u)
          PROVE  \A t \in Threads : Alarm \notin alerts'[t]
      BY <3>3, <2>1 DEF Save, Fail, Finish, TypeOK
    <3>4. \/ UNCHANGED alerts
          \/ \E u \in Threads : Summary(u) \/ Verify(u) \/ Latest(u) \/ Save(u) \/ Fail(u)
      BY DEF Next, CoroutineStep, StopStep, ThreadStep, Start, Cycle, Acquire, Release, Wake,
             Cancelled, Stop, StopTimeout, StopReturn, Load, CaptureEvidence, CaptureIncidents,
             Acknowledge, Handle, work, files, vars
    <3> QED BY <2>2, <3>1, <3>2, <3>3, <3>4 DEF Summary, Verify, Latest
  <2> QED BY <2>4, <2>5 DEF NoFalseAlarm, JournalsNow, Alarm
<1> QED BY <1>1, <1>2

\* A journal about to be written that nobody has overtaken holds what the file holds.
DocsAreFresh ==
  \A t \in Threads : stage[t] = "save" /\ t \notin raced =>
    /\ Known(journal) \subseteq Known(doc[t])
    /\ journal.acknowledged \subseteq doc[t].acknowledged

LEMMA FreshStep ==
  ASSUME TypeOK, DocsAreFresh, [Next]_vars
  PROVE  DocsAreFresh'
<1> USE DEF TypeOK
<1>1. ASSUME NEW t \in Threads, Load(t) PROVE DocsAreFresh'
  <2>1. /\ Known(journal) \subseteq Known(Captured(journal, alerts[t]))
        /\ journal.acknowledged \subseteq Captured(journal, alerts[t]).acknowledged
    BY CapturedJournal
  <2> QED BY <1>1, <2>1 DEF Load, Enter, files, DocsAreFresh
<1>2. ASSUME NEW t \in Threads, Save(t) \/ Fail(t) PROVE DocsAreFresh'
  <2>1. PICK where \in {"idle", "ended"} : stage' = [stage EXCEPT ![t] = where]
    BY <1>2 DEF Save, Fail, Finish, Enter
  <2>2. CASE Save(t)
    BY <2>1, <2>2 DEF Save, Finish, DocsAreFresh
  <2>3. CASE Fail(t)
    BY <2>1, <2>3 DEF Fail, Finish, files, DocsAreFresh
  <2> QED BY <1>2, <2>2, <2>3
<1>3. ASSUME NEW edited, Handle(edited),
             Known(journal) \subseteq Known(edited),
             journal.acknowledged \subseteq edited.acknowledged
      PROVE  DocsAreFresh'
  BY <1>3, LoopsAreCallers DEF Handle, Enter, files, DocsAreFresh
<1>4. CASE CaptureIncidents
  <2>1. PICK age \in Ages :
          LET counted == CountAlerts(archive) IN
          Handle(Captured(journal, counted \union ChainAlerts(archive, counted)
                                           \union LatestAlerts(archive, age)))
    BY <1>4 DEF CaptureIncidents
  <2> QED BY <2>1, <1>3, CapturedJournal, AlertsAreCodes
<1>5. ASSUME NEW code \in Noticed, Acknowledge(code) PROVE DocsAreFresh'
  BY <1>5, <1>3, AcknowledgedJournal, RuntimeAssumption DEF Acknowledge
<1>6. ASSUME UNCHANGED <<doc, journal, raced>>,
             \A t \in Threads : stage'[t] = "save" => stage[t] = "save"
      PROVE  DocsAreFresh'
  BY <1>6 DEF DocsAreFresh
<1>7. ASSUME NEW t \in Threads, Summary(t) \/ Verify(t) \/ Latest(t) PROVE DocsAreFresh'
  BY <1>6, <1>7 DEF Summary, Verify, Latest, Enter, files
<1>8. ASSUME NEW c \in Callers, Acquire(c) \/ Release(c) \/ (c \in Loops /\ Cancelled(c))
      PROVE  DocsAreFresh'
  BY <1>6, <1>8, LoopsAreCallers DEF Acquire, Release, Cancelled, Enter, files
<1>9. \/ UNCHANGED <<stage, doc, journal, raced>>
      \/ \E t \in Threads : ThreadStep(t) \/ Fail(t)
      \/ \E c \in Callers : Acquire(c) \/ Release(c) \/ (c \in Loops /\ Cancelled(c))
      \/ CaptureIncidents
      \/ \E code \in Noticed : Acknowledge(code)
  BY DEF Next, CoroutineStep, StopStep, Start, Cycle, Wake, Stop, StopTimeout, StopReturn,
         CaptureEvidence, work, files, vars
<1> QED BY <1>1, <1>2, <1>4, <1>5, <1>6, <1>7, <1>8, <1>9 DEF ThreadStep

-----------------------------------------------------------------------------
(* The theorems *)

IInv ==
  /\ RuntimeInv
  /\ ArchiveIsChain(archive)
  /\ JournalIsCoherent
  /\ NoFalseAlarm
  /\ DocsAreFresh

LEMMA Invariant == Spec => []IInv
<1>1. Init => IInv
  <2> SUFFICES ASSUME Init PROVE IInv
    OBVIOUS
  <2>1. JournalIsCoherent /\ NoFalseAlarm /\ DocsAreFresh
    BY NoIncidents DEF Init, JournalIsCoherent, NoFalseAlarm, DocsAreFresh
  <2> QED BY <2>1, RuntimeInit, ArchiveInit DEF IInv
<1>2. IInv /\ [Next]_vars => IInv'
  BY RuntimeStep, ArchiveStep, CoherentStep, AlarmStep, FreshStep DEF IInv, RuntimeInv
<1> QED BY <1>1, <1>2, PTL DEF Spec

\* Types of the runtime, the threads and the journals.
THEOREM TypeCorrect == Spec => []TypeOK
<1>1. IInv => TypeOK
  BY DEF IInv, RuntimeInv
<1> QED BY <1>1, Invariant, PTL

\* One loop at most, whatever starts and late stops there are.
THEOREM OneLoopAtMost == Spec => []OneLoop
<1>1. IInv => OneLoop
  BY DEF IInv, RuntimeInv
<1> QED BY <1>1, Invariant, PTL

\* Two cycles at once are never both of coroutines that were not cancelled.
THEOREM CyclesKeepApart == Spec => []CyclesApart
<1>1. IInv => CyclesApart
  BY DEF IInv, RuntimeInv, CyclesApart, WorkIsAccounted, LockIsHeldOnce
<1> QED BY <1>1, Invariant, PTL

\* Every journal's active incidents are those of its newest snapshot.
THEOREM JournalsAreCoherent == Spec => []JournalIsCoherent
<1>1. IInv => JournalIsCoherent
  BY DEF IInv
<1> QED BY <1>1, Invariant, PTL

\* No alarm about a chain that is whole.
THEOREM AlarmsAreTrue == Spec => []NoFalseAlarm
<1>1. IInv => NoFalseAlarm
  BY DEF IInv
<1> QED BY <1>1, Invariant, PTL

\* Incidents and acknowledgements are lost to races only.
THEOREM LossesAreRaces == Spec => LossOnlyByRace
<1>1. IInv /\ [Next]_vars =>
        [\A t \in Threads : Save(t) /\ t \notin raced =>
           /\ Known(journal) \subseteq Known(journal')
           /\ journal.acknowledged \subseteq journal'.acknowledged]_vars
  BY DEF IInv, DocsAreFresh, Save
<1> QED BY <1>1, Invariant, PTL DEF Spec, LossOnlyByRace

=============================================================================
