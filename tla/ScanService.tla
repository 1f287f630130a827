----------------------------- MODULE ScanService -----------------------------
(***************************************************************************)
(* RealOpportunityScanService (real_markets/opportunity_scan_service.py):  *)
(* one cache and one collection per configuration, shared by the handlers  *)
(* of the event loop and by the collector's thread, which runs a loop of   *)
(* its own.  A request is one call of scan(): its synchronous part, the    *)
(* locked decision, and what follows an await.  One action is one critical *)
(* section of _state_lock or one resumption.  A payload is the             *)
(* configuration it was collected for and its generation.                  *)
(***************************************************************************)
EXTENDS Integers

CONSTANTS
  Requests,      \* calls of scan()
  Keys,          \* normalised configurations
  Nobody,        \* not a request: no collection in flight
  TimeToLive,    \* cache_ttl_seconds
  Cooldown,      \* REAL_OPPORTUNITY_FORCE_REFRESH_COOLDOWN_SECONDS
  MaxTime        \* bound: the clock

ASSUME ScanAssumption ==
  /\ Nobody \notin Requests
  /\ {TimeToLive, Cooldown, MaxTime} \subseteq Nat

VARIABLES
  now,           \* monotonic()
  cache,         \* _cache
  latest,        \* _latest_entry
  generation,    \* _cache_generation
  inflight,      \* _inflight: the request that owns the future
  forcedAt,      \* _last_forced_at, -1 when absent
  stage,         \* where each request is
  key,           \* its configuration, fixed from the start
  force,         \* its force_refresh, after the cooldown
  since,         \* its starting_generation
  completed,     \* its completed_at
  future,        \* the state of the future it owns
  joined,        \* the owner of the future it waits for
  payload,       \* what it answers, or will
  asked          \* history: _cache_generation when it was called

shared   == <<cache, latest, generation, inflight>>
own      == <<key, force, since, asked>>
vars == <<now, shared, forcedAt, stage, own, completed, future, joined, payload>>

Empty     == [none |-> TRUE]
NoPayload == [none |-> TRUE]
Policies  == {"read", "force", "collect"}   \* cached, forced, forced by the collector
Failures  == {"failed", "cancelled"}
Ended     == {"answered"} \union Failures
Stages    == {"idle", "called", "collecting", "publishing", "waiting"} \union Ended
Scanning  == {"collecting", "publishing"}

Goto(r, label) == stage' = [stage EXCEPT ![r] = label]

-----------------------------------------------------------------------------
(* The call, before the coroutine runs *)

RetryAfter(k) == forcedAt[k] >= 0 /\ now - forcedAt[k] < Cooldown

Call(r, policy) ==
  LET k      == key[r]
      forced == policy = "collect" \/ (policy = "force" /\ ~RetryAfter(k))
  IN  /\ stage[r] = "idle"
      /\ Goto(r, "called")
      /\ force' = [force EXCEPT ![r] = forced]
      /\ since' = [since EXCEPT ![r] = IF cache[k] = Empty THEN 0
                                       ELSE cache[k].payload.generation]
      /\ asked' = [asked EXCEPT ![r] = generation]
      /\ forcedAt' = IF forced THEN [forcedAt EXCEPT ![k] = now] ELSE forcedAt
      /\ UNCHANGED <<now, shared, key, completed, future, joined, payload>>

-----------------------------------------------------------------------------
(* The locked decision: the cache, somebody else's collection, or one's own *)

\* Mutant: the generation seen at the call counts as an advance.
UsableAlready(r) ==
  /\ cache[key[r]] # Empty
  /\ force[r] => cache[key[r]].payload.generation >= since[r]

\* The cached payload answers a read, or a forced request it is newer than.
Usable(r) ==
  /\ cache[key[r]] # Empty
  /\ force[r] => cache[key[r]].payload.generation > since[r]

Expired(k) == now - cache[k].at > TimeToLive

ServeCached(r) ==
  /\ stage[r] = "called"
  /\ Usable(r)
  /\ ~Expired(key[r])
  /\ payload' = [payload EXCEPT ![r] = cache[key[r]].payload]
  /\ Goto(r, "answered")
  /\ UNCHANGED <<now, shared, forcedAt, own, completed, future, joined>>

\* A usable entry found expired is dropped on the way.
Dropped(r) == IF Usable(r) THEN [cache EXCEPT ![key[r]] = Empty] ELSE cache

MustCollect(r) ==
  /\ stage[r] = "called"
  /\ Usable(r) => Expired(key[r])
  /\ cache' = Dropped(r)

Join(r) ==
  /\ MustCollect(r)
  /\ inflight[key[r]] # Nobody
  /\ joined' = [joined EXCEPT ![r] = inflight[key[r]]]
  /\ Goto(r, "waiting")
  /\ UNCHANGED <<now, latest, generation, inflight, forcedAt, own, completed,
                 future, payload>>

\* Mutant: the collection in flight is looked up before the lock is taken.
OwnAnyway(r) ==
  /\ MustCollect(r)
  /\ inflight' = [inflight EXCEPT ![key[r]] = r]
  /\ future' = [future EXCEPT ![r] = "pending"]
  /\ Goto(r, "collecting")
  /\ UNCHANGED <<now, latest, generation, forcedAt, own, completed, joined, payload>>

Own(r) ==
  /\ MustCollect(r)
  /\ inflight[key[r]] = Nobody
  /\ inflight' = [inflight EXCEPT ![key[r]] = r]
  /\ future' = [future EXCEPT ![r] = "pending"]
  /\ Goto(r, "collecting")
  /\ UNCHANGED <<now, latest, generation, forcedAt, own, completed, joined, payload>>

-----------------------------------------------------------------------------
(* The owner: monitor.scan, then the result or the exception for everybody *)

\* The clock is read before the lock is taken.
Collected(r) ==
  /\ stage[r] = "collecting"
  /\ completed' = [completed EXCEPT ![r] = now]
  /\ Goto(r, "publishing")
  /\ UNCHANGED <<now, shared, forcedAt, own, future, joined, payload>>

\* set_result and set_exception only on a future that is not done.
Settled(r, outcome) == IF future[r] = "pending" THEN [future EXCEPT ![r] = outcome]
                                                ELSE future

\* Mutant: an entry completed earlier does not become the latest one, though
\* the cache of its configuration takes it.
Newest(entry) == IF latest # Empty /\ latest.at >= entry.at THEN latest ELSE entry

\* _latest_entry is simply replaced.
Latest(entry) == entry

Publish(r) ==
  LET fresh == [key |-> key[r], generation |-> generation + 1]
      entry == [at |-> completed[r], payload |-> fresh]
  IN  /\ stage[r] = "publishing"
      /\ generation' = generation + 1
      /\ cache' = [cache EXCEPT ![key[r]] = entry]
      /\ latest' = Latest(entry)
      /\ inflight' = [inflight EXCEPT ![key[r]] = Nobody]
      /\ future' = Settled(r, "result")
      /\ payload' = [payload EXCEPT ![r] = fresh]
      /\ Goto(r, "answered")
      /\ UNCHANGED <<now, forcedAt, own, completed, joined>>

\* Mutant: the exception is raised without being handed to those who wait.
AbandonSilently(r, outcome) ==
  /\ stage[r] = "collecting"
  /\ inflight' = [inflight EXCEPT ![key[r]] = Nobody]
  /\ Goto(r, outcome)
  /\ UNCHANGED <<now, cache, latest, generation, forcedAt, own, completed, future,
                 joined, payload>>

\* The monitor raises, or the owner's task is cancelled while it waits for it.
Abandon(r, outcome) ==
  /\ stage[r] = "collecting"
  /\ inflight' = [inflight EXCEPT ![key[r]] = Nobody]
  /\ future' = Settled(r, outcome)
  /\ Goto(r, outcome)
  /\ UNCHANGED <<now, cache, latest, generation, forcedAt, own, completed,
                 joined, payload>>

-----------------------------------------------------------------------------
(* Those who wait *)

\* Mutant: whatever became of the future, its owner's payload is the answer.
ResumeAnyway(r) ==
  /\ stage[r] = "waiting"
  /\ future[joined[r]] # "pending"
  /\ payload' = [payload EXCEPT ![r] = payload[joined[r]]]
  /\ Goto(r, "answered")
  /\ UNCHANGED <<now, shared, forcedAt, own, completed, future, joined>>

Resume(r) ==
  /\ stage[r] = "waiting"
  /\ \/ /\ future[joined[r]] = "result"
        /\ payload' = [payload EXCEPT ![r] = payload[joined[r]]]
        /\ Goto(r, "answered")
     \/ /\ future[joined[r]] \in Failures
        /\ Goto(r, future[joined[r]])
        /\ UNCHANGED payload
  /\ UNCHANGED <<now, shared, forcedAt, own, completed, future, joined>>

\* The task is cancelled before it runs, or while it waits: then wrap_future
\* cancels the shared future too.
Cancel(r) ==
  /\ \/ stage[r] = "called" /\ UNCHANGED future
     \/ stage[r] = "waiting" /\ future' = Settled(joined[r], "cancelled")
  /\ Goto(r, "cancelled")
  /\ UNCHANGED <<now, shared, forcedAt, own, completed, joined, payload>>

-----------------------------------------------------------------------------

ClearCache ==
  /\ cache' = [k \in Keys |-> Empty]
  /\ latest' = Empty
  /\ forcedAt' = [k \in Keys |-> -1]
  /\ UNCHANGED <<now, generation, inflight, stage, own, completed, future, joined,
                 payload>>

Tick ==
  /\ now < MaxTime
  /\ now' = now + 1
  /\ UNCHANGED <<shared, forcedAt, stage, own, completed, future, joined, payload>>

Init ==
  /\ now = 0
  /\ cache = [k \in Keys |-> Empty]
  /\ latest = Empty
  /\ generation = 0
  /\ inflight = [k \in Keys |-> Nobody]
  /\ forcedAt = [k \in Keys |-> -1]
  /\ stage = [r \in Requests |-> "idle"]
  /\ key \in [Requests -> Keys]
  /\ force = [r \in Requests |-> FALSE]
  /\ since = [r \in Requests |-> 0]
  /\ completed = [r \in Requests |-> 0]
  /\ future = [r \in Requests |-> "none"]
  /\ joined = [r \in Requests |-> Nobody]
  /\ payload = [r \in Requests |-> NoPayload]
  /\ asked = [r \in Requests |-> 0]

Enter(r)  == ServeCached(r) \/ Join(r) \/ Own(r)
Upstream(r) == Collected(r) \/ Abandon(r, "failed")

Next ==
  \/ \E r \in Requests, policy \in Policies : Call(r, policy)
  \/ \E r \in Requests :
       \/ ServeCached(r) \/ Join(r) \/ Own(r)
       \/ Collected(r) \/ Publish(r) \/ \E outcome \in Failures : Abandon(r, outcome)
       \/ Resume(r) \/ Cancel(r)
  \/ ClearCache
  \/ Tick

Spec == Init /\ [][Next]_vars

\* The loops run what is ready; monitor.scan, whose requests have timeouts, ends.
Fairness ==
  \A r \in Requests :
    /\ WF_vars(Enter(r))
    /\ WF_vars(Upstream(r))
    /\ WF_vars(Publish(r))
    /\ WF_vars(Resume(r))

FairSpec == Spec /\ Fairness

-----------------------------------------------------------------------------
(* Properties *)

Payloads == [key : Keys, generation : Nat]
Entries  == [at : Nat, payload : Payloads]

TypeOK ==
  /\ now \in Nat
  /\ cache \in [Keys -> Entries \union {Empty}]
  /\ latest \in Entries \union {Empty}
  /\ generation \in Nat
  /\ inflight \in [Keys -> Requests \union {Nobody}]
  /\ forcedAt \in [Keys -> Nat \union {-1}]
  /\ stage \in [Requests -> Stages]
  /\ key \in [Requests -> Keys]
  /\ force \in [Requests -> BOOLEAN]
  /\ since \in [Requests -> Nat]
  /\ completed \in [Requests -> Nat]
  /\ future \in [Requests -> {"none", "pending", "result"} \union Failures]
  /\ joined \in [Requests -> Requests \union {Nobody}]
  /\ payload \in [Requests -> Payloads \union {NoPayload}]
  /\ asked \in [Requests -> Nat]
  /\ \A r \in Requests :
       /\ stage[r] = "answered" => payload[r] # NoPayload
       /\ stage[r] = "waiting" => joined[r] # Nobody
       /\ future[r] = "result" => stage[r] = "answered"

\* However the threads and loops interleave, whatever is cancelled or fails, a
\* configuration is collected by the request registered as in flight and by no
\* other, and nothing is registered that is not being collected.
OneCollection ==
  \A k \in Keys, r \in Requests :
    inflight[k] = r <=> stage[r] \in Scanning /\ key[r] = k

\* An answer is for the configuration that was asked for, and a forced one was
\* published after scan() was called, whether it comes from the cache, from a
\* collection in flight or from the request's own, although the generation
\* remembered is that of one entry and may have been dropped meanwhile.
Newer(r, p) == p.key = key[r] /\ (force[r] => p.generation > asked[r])

AnswersTheRequest ==
  \A r \in Requests : stage[r] = "answered" => Newer(r, payload[r])

\* What latest_snapshot would show for a configuration.
Snapshot(k) == IF cache[k] # Empty THEN cache[k] ELSE latest

Shown(k) == IF Snapshot(k) = Empty THEN 0 ELSE Snapshot(k).payload.generation

\* Readers of the snapshot never see an older collection than before, although
\* they read the entry of their configuration or, when it was dropped, the
\* latest of any; only clear_cache takes it away.
SnapshotNeverGoesBack ==
  [][ClearCache \/ \A k \in Keys : Shown(k) <= Shown(k)']_vars

\* What makes them inductive: entries are of their configuration and older than
\* the latest, which is the last one published; what a forced request may still
\* take from the cache, and what it waits for, is newer than its call.
Versions ==
  /\ \A k \in Keys : cache[k] # Empty =>
       /\ latest # Empty
       /\ cache[k].payload.key = k
       /\ cache[k].payload.generation <= generation
  /\ latest # Empty => latest.payload.generation = generation
  /\ \A r \in Requests : asked[r] <= generation

CalledMayUse ==
  \A r \in Requests :
    stage[r] = "called" /\ Usable(r) => Newer(r, cache[key[r]].payload)

Awaits(r) ==
  /\ stage[r] \in Scanning => future[r] # "result"
  /\ stage[r] = "waiting" =>
       /\ key[joined[r]] = key[r]
       /\ future[joined[r]] = "result" => Newer(r, payload[joined[r]])

WaitsForItsOwn == \A r \in Requests : Awaits(r)

\* Every request ends: nobody waits for a collection that failed, was
\* cancelled, or was published before the wait began.
RequestsEnd == \A r \in Requests : stage[r] = "called" ~> stage[r] \in Ended

=============================================================================
