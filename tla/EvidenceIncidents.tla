-------------------------- MODULE EvidenceIncidents --------------------------
(***************************************************************************)
(* The runtime that turns the monitor's alerts into incidents              *)
(* (paper/certification_evidence_incident_runtime.py), with everything     *)
(* that reads and writes the two files besides it.  The runtime's loops,   *)
(* the manual cycles and the stop handlers are coroutines of one event     *)
(* loop; a cycle's work runs in a thread of its own, which goes on when    *)
(* its coroutine is cancelled.  The journal's own handlers run on the      *)
(* event loop's thread, and nothing else does meanwhile.  Neither file     *)
(* has a lock.  The runtime is enabled.                                    *)
(***************************************************************************)
EXTENDS IncidentJournal

CONSTANTS
  MaxStarts,     \* bound: loops started
  Requests,      \* handlers of /cycle
  Stoppers,      \* handlers of /stop
  Handler,       \* the event loop's thread, in a handler of the journal
  Recorded,      \* entries the evidence file has at first
  MaxCaptures,   \* bound: the evidence ever captured
  MaxFailures,   \* bound: saves that fail
  Noticed,       \* bound: codes whose incidents are acknowledged
  Ages           \* whether evidence may be stale, fresh, or both

Loops   == 1..MaxStarts
Callers == Loops \union Requests
Threads == Callers \union {Handler}

ASSUME RuntimeAssumption ==
  /\ {MaxStarts, MaxCaptures, MaxFailures} \subseteq Nat
  /\ Loops \intersect Requests = {}
  /\ Handler \notin Callers
  /\ Recorded \in 0..MaxEntries
  /\ Noticed \subseteq Codes
  /\ Ages \subseteq BOOLEAN

VARIABLES
  task,       \* self._task, 0 for None
  started,    \* loops started so far
  stopped,    \* loops whose stop event is set
  cancelled,  \* loops whose task has been asked to cancel
  at,         \* where each coroutine is
  target,     \* the loop each stopper waits for, 0 for none
  stage,      \* where each thread is
  alerts,     \* what the monitor has found for it so far
  doc,        \* the journal it is about to write
  raced,      \* history: threads whose journal was loaded before somebody's save
  failures,   \* saves that have failed
  archive,    \* the evidence file
  journal     \* the incidents file

runtime == <<task, started, stopped, cancelled, at, target>>
work    == <<stage, alerts, doc, raced, failures>>
files   == <<archive, journal>>
vars    == <<runtime, work, files>>

Waiting == {"wait", "queued", "cycle"}
Stages  == {"idle", "summary", "verify", "latest", "load", "save", "ended"}

LoopIsFree == stage[Handler] = "idle"

Move(c, where)  == at' = [at EXCEPT ![c] = where]
Enter(t, where) == stage' = [stage EXCEPT ![t] = where]

-----------------------------------------------------------------------------
(* The coroutines of PaperEvidenceIncidentRuntime *)

\* A running loop is left alone; run_immediately decides where the new one begins.
Start ==
  /\ LoopIsFree
  /\ task # 0 => at[task] = "done"
  /\ started < MaxStarts
  /\ started' = started + 1
  /\ task' = started + 1
  /\ \E first \in {"queued", "wait"} : Move(started + 1, first)
  /\ UNCHANGED <<stopped, cancelled, target, work, files>>

\* The interval is over, also if the event is set at that moment; or it is set.
Wake(l) ==
  /\ LoopIsFree
  /\ at[l] = "wait"
  /\ \/ Move(l, "queued")
     \/ l \in stopped /\ Move(l, "done")
  /\ UNCHANGED <<task, started, stopped, cancelled, target, work, files>>

Cycle(r) ==
  /\ LoopIsFree
  /\ at[r] = "idle"
  /\ Move(r, "queued")
  /\ UNCHANGED <<task, started, stopped, cancelled, target, work, files>>

\* Mutant: capture_once does not take the cycle lock.
AcquireNoLock(c) ==
  /\ LoopIsFree
  /\ at[c] = "queued"
  /\ c \notin cancelled
  /\ Move(c, "cycle")
  /\ Enter(c, "summary")
  /\ UNCHANGED <<task, started, stopped, cancelled, target, alerts, doc, raced,
                 failures, files>>

\* capture_once has the cycle lock and hands _capture_sync to a thread.
Acquire(c) ==
  /\ LoopIsFree
  /\ at[c] = "queued"
  /\ c \notin cancelled
  /\ \A d \in Callers : at[d] # "cycle"
  /\ Move(c, "cycle")
  /\ Enter(c, "summary")
  /\ UNCHANGED <<task, started, stopped, cancelled, target, alerts, doc, raced,
                 failures, files>>

\* The thread has returned or raised: the lock is released, and the loop looks at
\* its event before it waits again.
Release(c) ==
  /\ LoopIsFree
  /\ at[c] = "cycle"
  /\ c \notin cancelled
  /\ stage[c] = "ended"
  /\ Enter(c, "idle")
  /\ Move(c, CASE c \in Requests -> "idle" [] c \in stopped -> "done" [] OTHER -> "wait")
  /\ UNCHANGED <<task, started, stopped, cancelled, target, alerts, doc, raced,
                 failures, files>>

\* The loop gives up its place or its lock.  A thread that has begun goes on, work
\* that no thread has taken yet is withdrawn.
Cancelled(l) ==
  /\ LoopIsFree
  /\ l \in cancelled
  /\ at[l] # "done"
  /\ Move(l, "done")
  /\ \/ stage[l] # "ended" /\ UNCHANGED stage
     \/ stage[l] \in {"summary", "ended"} /\ Enter(l, "idle")
  /\ UNCHANGED <<task, started, stopped, cancelled, target, alerts, doc, raced,
                 failures, files>>

\* Mutant: the runtime forgets the task before it has ended.
StopForgets(s) ==
  /\ LoopIsFree
  /\ target[s] = 0
  /\ task # 0
  /\ task' = 0
  /\ IF at[task] = "done"
       THEN UNCHANGED <<stopped, target>>
       ELSE /\ stopped' = stopped \union {task}
            /\ target' = [target EXCEPT ![s] = task]
  /\ UNCHANGED <<started, cancelled, at, work, files>>

\* Mutant: the event is not set.
StopWithoutEvent(s) ==
  /\ LoopIsFree
  /\ target[s] = 0
  /\ task # 0
  /\ IF at[task] = "done"
       THEN task' = 0 /\ UNCHANGED target
       ELSE target' = [target EXCEPT ![s] = task] /\ UNCHANGED task
  /\ UNCHANGED <<started, stopped, cancelled, at, work, files>>

\* stop forgets a loop that has ended, and asks one that has not.
Stop(s) ==
  /\ LoopIsFree
  /\ target[s] = 0
  /\ task # 0
  /\ IF at[task] = "done"
       THEN task' = 0 /\ UNCHANGED <<stopped, target>>
       ELSE /\ stopped' = stopped \union {task}
            /\ target' = [target EXCEPT ![s] = task]
            /\ UNCHANGED task
  /\ UNCHANGED <<started, cancelled, at, work, files>>

\* Thirty seconds are over: only a cycle, or the wait for its turn, takes longer.
StopTimeout(s) ==
  /\ LoopIsFree
  /\ target[s] \notin cancelled \union {0}
  /\ at[target[s]] \in {"queued", "cycle"}
  /\ cancelled' = cancelled \union {target[s]}
  /\ UNCHANGED <<task, started, stopped, at, target, work, files>>

\* Mutant: it waits for the loop the runtime knows by now.
StopReturnRereads(s) ==
  /\ LoopIsFree
  /\ target[s] # 0
  /\ task # 0 => at[task] = "done"
  /\ task' = 0
  /\ target' = [target EXCEPT ![s] = 0]
  /\ UNCHANGED <<started, stopped, cancelled, at, work, files>>

\* The loop has ended; a newer one is not forgotten.
StopReturn(s) ==
  /\ LoopIsFree
  /\ target[s] # 0
  /\ at[target[s]] = "done"
  /\ task' = IF task = target[s] THEN 0 ELSE task
  /\ target' = [target EXCEPT ![s] = 0]
  /\ UNCHANGED <<started, stopped, cancelled, at, work, files>>

-----------------------------------------------------------------------------
(* The threads.  monitor.snapshot loads the evidence file three times. *)

Found(t, codes) == alerts' = [alerts EXCEPT ![t] = @ \union codes]

Summary(t) ==
  /\ stage[t] = "summary"
  /\ Found(t, CountAlerts(archive))
  /\ Enter(t, "verify")
  /\ UNCHANGED <<runtime, doc, raced, failures, files>>

Verify(t) ==
  /\ stage[t] = "verify"
  /\ Found(t, ChainAlerts(archive, alerts[t]))
  /\ Enter(t, "latest")
  /\ UNCHANGED <<runtime, doc, raced, failures, files>>

Latest(t) ==
  /\ stage[t] = "latest"
  /\ \E old \in Ages : Found(t, LatestAlerts(archive, old))
  /\ Enter(t, "load")
  /\ UNCHANGED <<runtime, doc, raced, failures, files>>

\* journal.capture loads the file and works on what it holds.
Load(t) ==
  /\ stage[t] = "load"
  /\ doc' = [doc EXCEPT ![t] = Captured(journal, alerts[t])]
  /\ raced' = raced \ {t}
  /\ Enter(t, "save")
  /\ UNCHANGED <<runtime, alerts, failures, files>>

\* The thread is over; a coroutine that still waits for it will see to it.
Finish(t) ==
  /\ Enter(t, IF t \in Callers /\ at[t] = "cycle" THEN "ended" ELSE "idle")
  /\ alerts' = [alerts EXCEPT ![t] = {}]
  /\ doc' = [doc EXCEPT ![t] = EmptyJournal]

\* The file is replaced as a whole, whatever it has become since.
Save(t) ==
  /\ stage[t] = "save"
  /\ journal' = doc[t]
  /\ raced' = (raced \ {t}) \union {u \in Threads \ {t} : stage[u] = "save"}
  /\ Finish(t)
  /\ UNCHANGED <<runtime, failures, archive>>

\* Nothing is written: the file could not be replaced, or could not be read before,
\* which comes to the same.
Fail(t) ==
  /\ stage[t] = "save"
  /\ failures < MaxFailures
  /\ failures' = failures + 1
  /\ raced' = raced \ {t}
  /\ Finish(t)
  /\ UNCHANGED <<runtime, files>>

-----------------------------------------------------------------------------
(* The event loop's own handlers *)

\* The only writer of the evidence file.
CaptureEvidence(status) ==
  /\ LoopIsFree
  /\ archive.head < MaxCaptures
  /\ archive' = Capture(archive, status)
  /\ UNCHANGED <<runtime, work, journal>>

\* A handler of the journal takes the event loop and loads the journal.
Handle(edited) ==
  /\ LoopIsFree
  /\ doc' = [doc EXCEPT ![Handler] = edited]
  /\ raced' = raced \ {Handler}
  /\ Enter(Handler, "save")
  /\ UNCHANGED <<runtime, alerts, failures, files>>

\* While the handler runs nobody captures evidence: its three loads agree.
CaptureIncidents ==
  \E old \in Ages :
    LET counted == CountAlerts(archive) IN
    Handle(Captured(journal, counted \union ChainAlerts(archive, counted)
                                     \union LatestAlerts(archive, old)))

\* An incident the journal does not know is refused.
Acknowledge(code) ==
  /\ code \in Known(journal)
  /\ Handle(Acknowledged(journal, code))

-----------------------------------------------------------------------------
Init ==
  /\ task = 0
  /\ started = 0
  /\ stopped = {}
  /\ cancelled = {}
  /\ at = [c \in Callers |-> IF c \in Requests THEN "idle" ELSE "none"]
  /\ target = [s \in Stoppers |-> 0]
  /\ stage = [t \in Threads |-> "idle"]
  /\ alerts = [t \in Threads |-> {}]
  /\ doc = [t \in Threads |-> EmptyJournal]
  /\ raced = {}
  /\ failures = 0
  /\ archive = [entries |-> [i \in 1..Recorded |-> [status |-> "CERTIFIED", previous |-> i - 1,
                                                  hash |-> i]],
                head |-> Recorded]
  /\ journal = EmptyJournal

CoroutineStep(c) ==
  \/ Acquire(c) \/ Release(c)
  \/ c \in Loops /\ (Wake(c) \/ Cancelled(c))
StopStep(s)   == StopTimeout(s) \/ StopReturn(s)
ThreadStep(t) == Summary(t) \/ Verify(t) \/ Latest(t) \/ Load(t) \/ Save(t)

Next ==
  \/ Start
  \/ \E r \in Requests : Cycle(r)
  \/ \E c \in Callers : CoroutineStep(c)
  \/ \E s \in Stoppers : Stop(s) \/ StopStep(s)
  \/ \E t \in Threads : ThreadStep(t) \/ Fail(t)
  \/ \E status \in Statuses : CaptureEvidence(status)
  \/ CaptureIncidents
  \/ \E code \in Noticed : Acknowledge(code)

\* Threads are scheduled; the event loop runs what is ready in the order it became
\* ready, also between two handlers, and its lock serves in order.
Fairness ==
  /\ \A t \in Threads : WF_vars(ThreadStep(t))
  /\ \A c \in Callers : SF_vars(CoroutineStep(c))
  /\ \A s \in Stoppers : SF_vars(StopStep(s))

Spec == Init /\ [][Next]_vars /\ Fairness

-----------------------------------------------------------------------------
(* Properties *)

TypeOK ==
  /\ started \in 0..MaxStarts
  /\ task \in 0..started
  /\ stopped \subseteq 1..started
  /\ cancelled \subseteq stopped
  /\ at \in [Callers -> Waiting \union {"none", "idle", "done"}]
  /\ target \in [Stoppers -> 0..started]
  /\ stage \in [Threads -> Stages]
  /\ alerts \in [Threads -> SUBSET Codes]
  /\ doc \in [Threads -> Journals]
  /\ raced \subseteq {t \in Threads : stage[t] = "save"}
  /\ failures \in 0..MaxFailures
  /\ journal \in Journals

\* There is one loop at most, and it is the one the runtime knows: a stop that
\* resumes late forgets neither a newer loop nor one that still runs.
OneLoop == \A l \in Loops : at[l] \in Waiting => task = l

\* The cycle lock keeps cycles apart, but for the threads of cancelled loops: those
\* may write the journal next to the cycle that has the lock.
CyclesApart ==
  \A c, d \in Callers :
    stage[c] # "idle" /\ stage[d] # "idle" /\ c # d => {c, d} \intersect cancelled # {}

\* In the file, and in every journal on its way to it, the active incidents are
\* those of the newest snapshot, also after updates have been lost to a race.
JournalIsCoherent ==
  \A j \in {journal} \union {doc[t] : t \in Threads} : j.counts = Counts(Active(j))

\* Nobody is alarmed about a chain that verification finds whole: not by reading the
\* archive three times while it changes, nor by an incident of a stale journal.
NoFalseAlarm ==
  "EVIDENCE_CHAIN_BROKEN" \in
      Known(journal) \union UNION {alerts[t] \union Known(doc[t]) : t \in Threads}
    => Broken(archive)

\* A save loses incidents or acknowledgements only to a race: if nobody saved since
\* its load, all that was in the file is still there.
LossOnlyByRace ==
  [][\A t \in Threads : Save(t) /\ t \notin raced =>
       /\ Known(journal) \subseteq Known(journal')
       /\ journal.acknowledged \subseteq journal'.acknowledged]_vars

\* Every stop returns.
StopReturns == \A s \in Stoppers : target[s] # 0 ~> target[s] = 0

\* A broken chain that a running loop watches is reported for good, once the
\* journal's own handlers rest: neither a failed save nor a stale journal written
\* over the report can keep it away.  (Every acknowledgement may undo a report.)
BrokenStaysReported ==
  <>[](LoopIsFree /\ Broken(archive) /\ \E l \in Loops : at[l] \in Waiting)
    => <>[]("EVIDENCE_CHAIN_BROKEN" \in Active(journal))
=============================================================================
