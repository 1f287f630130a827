---------------------------- MODULE PaperSession ----------------------------
(***************************************************************************)
(* The automated paper session (paper/paper_session_runtime.py,            *)
(* paper_session.py, paper_risk.py and the pipeline's risk and account     *)
(* stages).  The coroutines of the runtime - its loops, and the handlers   *)
(* that start and stop them - interleave at their awaits; the cycles run   *)
(* in worker threads, and a cycle outlives the loop that was cancelled     *)
(* while it waited for it.  The account is seen as the risk guard sees it: *)
(* what each open position has cost, in the smallest stake.  Its inside,   *)
(* its cash with it, is PaperAccount's.  The guard is enabled.             *)
(***************************************************************************)
EXTENDS Integers, Sequences, SequencesExt

CONSTANTS
  MaxStarts,          \* bound: loops started, each with a stop event of its own
  Stoppers,           \* handlers that call stop
  Requests,           \* handlers that run a cycle without the loop
  Markets,            \* markets of the opportunities
  Legs,               \* the positions of a market: its outcomes on the platforms
  MaxBatch,           \* PAPER_SESSION_MAX_OPPORTUNITIES_PER_CYCLE
  MaxCost,            \* bound: what an opportunity's orders cost, with slippage and fees
  MaxTradeNotional,   \* limits of the risk guard
  MaxTotalExposure,
  MaxMarketExposure,
  MaxOpenPositions,
  WritesFail          \* whether saving the report may raise

Loops   == 1..MaxStarts
Callers == Loops \union Requests

ASSUME SessionAssumption ==
  /\ MaxStarts \in Nat \ {0}
  /\ IsFiniteSet(Requests) /\ IsFiniteSet(Markets) /\ IsFiniteSet(Legs)
  /\ Loops \intersect Requests = {}
  /\ {MaxBatch, MaxCost} \subseteq Nat \ {0}
  /\ {MaxTradeNotional, MaxTotalExposure, MaxMarketExposure, MaxOpenPositions} \subseteq Nat
  /\ WritesFail \in BOOLEAN

VARIABLES
  running,   \* self.running
  task,      \* self.task, 0 for None
  started,   \* loops started so far; the newest one's event is self._stop_event
  stopped,   \* the events that are set
  loop,      \* where each loop is
  target,    \* the loop each stopper waits for, 0 for none
  timedOut,  \* whether its wait has timed out
  stage,     \* where the cycle of each caller is
  batch,     \* opportunities still to be judged, by their market
  approved,  \* opportunities approved
  cost,      \* what each position of the account has cost, 0 for none
  halted     \* the account is past its daily loss, drawdown or trade limit

runtime == <<running, task, started, stopped, loop, target, timedOut>>
cycle   == <<stage, batch, approved>>
account == <<cost, halted>>
vars    == <<runtime, cycle, account>>

Live       == {"ready", "cycle", "cancelling"}
LoopStates == Live \union {"none", "ended", "failed", "cancelled"}
Stages     == {"idle", "guard", "source", "judge", "commit",
               "record", "record failure", "record stop",
               "returned", "risk stopped", "raised"}
Over       == {"returned", "risk stopped", "raised"}

-----------------------------------------------------------------------------
(* The coroutines of PaperSessionRuntime *)

Enter(c, where) == stage' = [stage EXCEPT ![c] = where]

\* A loop that is known is left alone.
Start ==
  /\ ~(running /\ task # 0)
  /\ started < MaxStarts
  /\ started' = started + 1
  /\ running' = TRUE
  /\ task' = started + 1
  /\ loop' = [loop EXCEPT ![started + 1] = "ready"]
  /\ UNCHANGED <<stopped, target, timedOut, cycle, account>>

\* Mutant: the finally forgets the flag.
EndKeepsRunning(l, how) ==
  /\ loop' = [loop EXCEPT ![l] = how]
  /\ task' = 0
  /\ UNCHANGED running

\* The finally of _loop, whichever loop the runtime knows by then.
End(l, how) ==
  /\ loop' = [loop EXCEPT ![l] = how]
  /\ running' = FALSE
  /\ task' = 0

\* Mutant: only the loop the runtime knows heeds the event.
WakeKnownOnly(l) ==
  /\ loop[l] = "ready"
  /\ IF started \in stopped /\ task = l
       THEN End(l, "ended") /\ UNCHANGED stage
       ELSE /\ loop' = [loop EXCEPT ![l] = "cycle"]
            /\ Enter(l, "guard")
            /\ UNCHANGED <<running, task>>
  /\ UNCHANGED <<started, stopped, target, timedOut, batch, approved, account>>

\* The start of an iteration, at first or when the wait is over: stop or timeout.
Wake(l) ==
  /\ loop[l] = "ready"
  /\ IF started \in stopped
       THEN End(l, "ended") /\ UNCHANGED stage
       ELSE /\ loop' = [loop EXCEPT ![l] = "cycle"]
            /\ Enter(l, "guard")
            /\ UNCHANGED <<running, task>>
  /\ UNCHANGED <<started, stopped, target, timedOut, batch, approved, account>>

\* The cycle is over: break, raise, or wait for the next one.
CycleDone(l) ==
  /\ loop[l] = "cycle"
  /\ stage[l] \in Over
  /\ Enter(l, "idle")
  /\ CASE stage[l] = "raised"       -> End(l, "failed")
       [] stage[l] = "risk stopped" -> End(l, "ended")
       [] stage[l] = "returned"     -> /\ loop' = [loop EXCEPT ![l] = "ready"]
                                       /\ UNCHANGED <<running, task>>
  /\ UNCHANGED <<started, stopped, target, timedOut, batch, approved, account>>

\* Its worker thread goes on without it.
Cancelled(l) ==
  /\ loop[l] = "cancelling"
  /\ End(l, "cancelled")
  /\ UNCHANGED <<started, stopped, target, timedOut, cycle, account>>

\* Mutant: the event is set although there may be none.
StopWithoutEvent(s) ==
  /\ target[s] = 0
  /\ stopped' = stopped \union {started}
  /\ target' = [target EXCEPT ![s] = task]
  /\ running' = (running /\ task # 0)
  /\ UNCHANGED <<task, started, loop, timedOut, cycle, account>>

\* stop sets the event and waits for the task it has read, if any.
Stop(s) ==
  /\ target[s] = 0
  /\ started > 0
  /\ stopped' = stopped \union {started}
  /\ target' = [target EXCEPT ![s] = task]
  /\ running' = (running /\ task # 0)
  /\ UNCHANGED <<task, started, loop, timedOut, cycle, account>>

\* The wait is longer than an interval: it is outlasted by a loop in a cycle, and
\* by one that found a newer loop's event at its interval and waits for the next.
StopTimeout(s) ==
  /\ target[s] # 0
  /\ ~timedOut[s]
  /\ \/ loop[target[s]] \in {"cycle", "cancelling"}
     \/ loop[target[s]] = "ready" /\ target[s] # started
  /\ timedOut' = [timedOut EXCEPT ![s] = TRUE]
  /\ loop' = [loop EXCEPT ![target[s]] = "cancelling"]
  /\ UNCHANGED <<running, task, started, stopped, target, cycle, account>>

\* Mutant: it waits for whatever task the runtime has.
StopReturnRereads(s) ==
  /\ target[s] # 0
  /\ task = 0
  /\ running' = FALSE
  /\ target' = [target EXCEPT ![s] = 0]
  /\ timedOut' = [timedOut EXCEPT ![s] = FALSE]
  /\ UNCHANGED <<task, started, stopped, loop, cycle, account>>

\* What the task raised is raised again, also a cancellation by somebody else;
\* otherwise running and task are cleared, whatever they are by now.
StopReturn(s) ==
  /\ target[s] # 0
  /\ loop[target[s]] \notin Live
  /\ IF \/ loop[target[s]] = "ended"
        \/ loop[target[s]] = "cancelled" /\ timedOut[s]
       THEN running' = FALSE /\ task' = 0
       ELSE UNCHANGED <<running, task>>
  /\ target' = [target EXCEPT ![s] = 0]
  /\ timedOut' = [timedOut EXCEPT ![s] = FALSE]
  /\ UNCHANGED <<started, stopped, loop, cycle, account>>

\* run_once, and a cycle with given opportunities.
RunOnce(r) ==
  /\ stage[r] = "idle"
  /\ Enter(r, "guard")
  /\ UNCHANGED <<runtime, batch, approved, account>>

\* Nobody waits for a cancelled loop's cycle; a request has its answer.
Answer(c) ==
  /\ stage[c] \in Over
  /\ c \in Loops => loop[c] \notin {"cycle", "cancelling"}
  /\ Enter(c, "idle")
  /\ UNCHANGED <<runtime, batch, approved, account>>

-----------------------------------------------------------------------------
(* run_cycle, in a worker thread *)

Guard(c) ==
  /\ stage[c] = "guard"
  /\ Enter(c, IF halted THEN "record stop" ELSE "source")
  /\ UNCHANGED <<runtime, batch, approved, account>>

\* The source and the analysis stages: some, none, or an error.
Source(c) ==
  /\ stage[c] = "source"
  /\ \/ \E b \in SeqOf(Markets, MaxBatch) \ {<<>>} :
          batch' = [batch EXCEPT ![c] = b] /\ Enter(c, "judge")
     \/ \E result \in {"record", "record failure"} :
          Enter(c, result) /\ UNCHANGED batch
  /\ UNCHANGED <<runtime, approved, account>>

Count(list, m) == Cardinality({i \in DOMAIN list : list[i] = m})

Sum(f) == FoldFunction(+, 0, f)

MarketExposure(m) == Sum(cost[m])

Exposure == Sum([m \in Markets |-> MarketExposure(m)])

OpenPositions == Cardinality({p \in Markets \X Legs : cost[p[1]][p[2]] > 0})

\* Mutant: the market's own exposure is forgotten.
WithinLimitsNoMarket(m, stake) ==
  /\ ~halted
  /\ stake <= MaxTradeNotional
  /\ Exposure + stake <= MaxTotalExposure
  /\ OpenPositions + 2 <= MaxOpenPositions

WithinLimits(m, stake) ==
  /\ ~halted
  /\ stake <= MaxTradeNotional
  /\ Exposure + stake <= MaxTotalExposure
  /\ MarketExposure(m) + stake <= MaxMarketExposure
  /\ OpenPositions + 2 <= MaxOpenPositions

\* Each is judged by the account as it is, the batch's own purchases unbooked.
\* One within these limits may be refused all the same: for the day's trades, the
\* cash, positions worth more than they cost, its return, confidence or risk.
Judge(c) ==
  /\ stage[c] = "judge"
  /\ batch[c] # <<>>
  /\ batch' = [batch EXCEPT ![c] = Tail(@)]
  /\ \/ /\ \E stake \in 1..MaxTradeNotional : WithinLimits(Head(batch[c]), stake)
        /\ approved' = [approved EXCEPT ![c] = Append(@, Head(batch[c]))]
     \/ UNCHANGED approved
  /\ UNCHANGED <<runtime, stage, account>>

Judged(c) ==
  /\ stage[c] = "judge"
  /\ batch[c] = <<>>
  /\ Enter(c, IF approved[c] = <<>> THEN "record" ELSE "commit")
  /\ UNCHANGED <<runtime, batch, approved, account>>

\* What the orders of these opportunities may cost, position by position: less
\* than their stakes if stages refuse some of them, more with slippage and fees,
\* and nothing if the account refuses them all for want of cash.
Purchases(list) ==
  {bought \in [Markets -> [Legs -> 0..(MaxCost * Len(list))]] :
     \A m \in Markets : Sum(bought[m]) <= MaxCost * Count(list, m)}

\* The account is saved, and whether that works or not the purchases are booked.
Commit(c) ==
  /\ stage[c] = "commit"
  /\ \E bought \in Purchases(approved[c]) :
       cost' = [m \in Markets |-> [k \in Legs |-> cost[m][k] + bought[m][k]]]
  /\ approved' = [approved EXCEPT ![c] = <<>>]
  /\ Enter(c, "record")
  /\ UNCHANGED <<runtime, batch, halted>>

\* _record saves the report.  A save that fails inside the try is a failure of
\* the cycle, which is recorded once more; outside of it run_cycle raises.
Record(c) ==
  \/ /\ stage[c] \in {"record", "record failure"}
     /\ Enter(c, "returned")
     /\ UNCHANGED <<runtime, batch, approved, account>>
  \/ /\ stage[c] = "record stop"
     /\ Enter(c, "risk stopped")
     /\ UNCHANGED <<runtime, batch, approved, account>>

RecordFails(c) ==
  /\ WritesFail
  /\ \/ stage[c] = "record" /\ Enter(c, "record failure")
     \/ stage[c] \in {"record failure", "record stop"} /\ Enter(c, "raised")
  /\ UNCHANGED <<runtime, batch, approved, account>>

-----------------------------------------------------------------------------
(* The account's other users *)

\* A position is sold at its settlement price, but for what was bought of it since
\* settle has looked at it.
Settle(m, k) ==
  /\ cost[m][k] > 0
  /\ \E left \in 0..(cost[m][k] - 1) : cost' = [cost EXCEPT ![m][k] = left]
  /\ UNCHANGED <<runtime, cycle, halted>>

NoPosition == [m \in Markets |-> [k \in Legs |-> 0]]

Reset ==
  /\ cost' = NoPosition
  /\ UNCHANGED <<runtime, cycle, halted>>

\* Prices, trades or a new day move the account across a limit of the session.
Revalue ==
  /\ halted' = ~halted
  /\ UNCHANGED <<runtime, cycle, cost>>

-----------------------------------------------------------------------------
Init ==
  /\ running = FALSE
  /\ task = 0
  /\ started = 0
  /\ stopped = {}
  /\ loop = [l \in Loops |-> "none"]
  /\ target = [s \in Stoppers |-> 0]
  /\ timedOut = [s \in Stoppers |-> FALSE]
  /\ stage = [c \in Callers |-> "idle"]
  /\ batch = [c \in Callers |-> <<>>]
  /\ approved = [c \in Callers |-> <<>>]
  /\ cost = NoPosition
  /\ halted = FALSE

LoopStep(l) == Wake(l) \/ CycleDone(l) \/ Cancelled(l)
StopStep(s) == StopTimeout(s) \/ StopReturn(s)
WorkerStep(c) ==
  \/ Guard(c) \/ Source(c) \/ Judge(c) \/ Judged(c) \/ Commit(c) \/ Record(c)
  \/ RecordFails(c) \/ Answer(c)

Next ==
  \/ Start
  \/ \E l \in Loops : LoopStep(l)
  \/ \E s \in Stoppers : Stop(s) \/ StopStep(s)
  \/ \E r \in Requests : RunOnce(r)
  \/ \E c \in Callers : WorkerStep(c)
  \/ \E m \in Markets, k \in Legs : Settle(m, k)
  \/ Reset
  \/ Revalue

\* The event loop runs what is ready and its timers fire, threads are scheduled;
\* but the source calls out to the markets and may never come back.
Fairness ==
  /\ \A l \in Loops : WF_vars(LoopStep(l))
  /\ \A s \in Stoppers : WF_vars(StopStep(s))
  /\ \A c \in Callers : WF_vars(WorkerStep(c) /\ stage[c] # "source")

Spec == Init /\ [][Next]_vars /\ Fairness

-----------------------------------------------------------------------------
(* Properties *)

TypeOK ==
  /\ running \in BOOLEAN
  /\ started \in 0..MaxStarts
  /\ task \in 0..started
  /\ stopped \subseteq 1..started
  /\ loop \in [Loops -> LoopStates]
  /\ target \in [Stoppers -> 0..started]
  /\ timedOut \in [Stoppers -> BOOLEAN]
  /\ stage \in [Callers -> Stages]
  /\ batch \in [Callers -> Seq(Markets)]
  /\ approved \in [Callers -> Seq(Markets)]
  /\ cost \in [Markets -> [Legs -> Nat]]
  /\ halted \in BOOLEAN

\* A session reported as running has a loop, the newest one: neither the end of
\* an older loop nor a stop that resumes late leaves the flag without its task.
\* The converse fails: a loop may live unknown to the status.
RunningIsLive ==
  /\ running <=> task # 0
  /\ running => task = started /\ loop[task] \in Live

\* What the purchases, booked and approved, can exceed the limits by: cycles
\* overlap, every opportunity of a batch is judged as if it were alone, and a
\* stake is judged without slippage and fees.  It is what all of them cost that
\* can be approved together, less the one stake judged last, and no more.
Slack == MaxCost * (Cardinality(Callers) * MaxBatch) - 1

CapitalBounded ==
  /\ Exposure + MaxCost * Sum([c \in Callers |-> Len(approved[c])])
       <= MaxTotalExposure + Slack
  /\ \A m \in Markets :
       MarketExposure(m) + MaxCost * Sum([c \in Callers |-> Count(approved[c], m)])
         <= MaxMarketExposure + Slack

\* What makes CapitalBounded inductive: a caller holds opportunities only between
\* its source and its commit, never more than a batch of them, and a loop begins
\* a cycle only after its last one.
Cycles ==
  /\ \A l \in Loops : /\ l > started => loop[l] = "none"
                      /\ loop[l] \in {"none", "ready"} => stage[l] = "idle"
  /\ \A c \in Callers :
       /\ stage[c] # "judge" => batch[c] = <<>>
       /\ stage[c] \notin {"judge", "commit"} => approved[c] = <<>>
       /\ Len(batch[c]) + Len(approved[c]) <= MaxBatch

\* A stop that nobody follows with a start is the end of every loop, also of those
\* the runtime has lost sight of, but for one whose source never comes back.
StopEndsEveryLoop ==
  <>[](started \in stopped) =>
    <>[](~running /\ \A l \in Loops : loop[l] \in Live => stage[l] = "source")

\* Every stop returns, even if the cycle it waits for hangs.
StopReturns == \A s \in Stoppers : target[s] # 0 ~> target[s] = 0
=============================================================================
