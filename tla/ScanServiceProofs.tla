-------------------------- MODULE ScanServiceProofs --------------------------
(***************************************************************************)
(* Theorems about ScanService, for every set of requests, configurations   *)
(* and times.                                                              *)
(***************************************************************************)
EXTENDS ScanService, TLAPS

-----------------------------------------------------------------------------
(* Absent values are not records *)

LEMMA EmptyIsNoEntry == Empty \notin Entries
<1>1. DOMAIN Empty = {"none"}
  BY DEF Empty
<1>2. \A entry \in Entries : "at" \in DOMAIN entry
  BY DEF Entries
<1> QED
  BY <1>1, <1>2

LEMMA NoPayloadIsNone == NoPayload \notin Payloads
<1>1. DOMAIN NoPayload = {"none"}
  BY DEF NoPayload
<1>2. \A p \in Payloads : "key" \in DOMAIN p
  BY DEF Payloads
<1> QED
  BY <1>1, <1>2

-----------------------------------------------------------------------------
(* Types *)

LEMMA TypeInit == Init => TypeOK
BY ScanAssumption DEF Init, TypeOK, Stages

LEMMA TypeNext == TypeOK /\ [Next]_vars => TypeOK'
<1> SUFFICES ASSUME TypeOK, [Next]_vars
             PROVE  TypeOK'
  OBVIOUS
<1> USE DEF Goto, shared, own, Stages, Failures, Ended
<1>1. ASSUME NEW r \in Requests, NEW policy \in Policies, Call(r, policy)
      PROVE  TypeOK'
  <2>1. key[r] \in Keys
    BY DEF TypeOK
  <2>2. since' \in [Requests -> Nat]
    BY <1>1, <2>1 DEF Call, TypeOK, Entries, Payloads
  <2>3. force' \in [Requests -> BOOLEAN] /\ forcedAt' \in [Keys -> Nat \union {-1}]
    BY <1>1, <2>1 DEF Call, TypeOK
  <2> QED
    BY <1>1, <2>2, <2>3 DEF Call, TypeOK
<1>2. ASSUME NEW r \in Requests, ServeCached(r)
      PROVE  TypeOK'
  <2>1. cache[key[r]].payload \in Payloads
    BY <1>2 DEF ServeCached, Usable, TypeOK, Entries
  <2> QED
    BY <1>2, <2>1, NoPayloadIsNone DEF ServeCached, TypeOK
<1>3. ASSUME NEW r \in Requests, Join(r)
      PROVE  TypeOK'
  <2>1. cache' \in [Keys -> Entries \union {Empty}]
    BY <1>3 DEF Join, MustCollect, Dropped, TypeOK
  <2>2. inflight[key[r]] \in Requests
    BY <1>3 DEF Join, TypeOK
  <2> QED
    BY <1>3, <2>1, <2>2, ScanAssumption DEF Join, MustCollect, TypeOK
<1>4. ASSUME NEW r \in Requests, Own(r)
      PROVE  TypeOK'
  <2>1. cache' \in [Keys -> Entries \union {Empty}]
    BY <1>4 DEF Own, MustCollect, Dropped, TypeOK
  <2> QED
    BY <1>4, <2>1 DEF Own, MustCollect, TypeOK
<1>5. ASSUME NEW r \in Requests, Collected(r)
      PROVE  TypeOK'
  BY <1>5 DEF Collected, TypeOK
<1>6. ASSUME NEW r \in Requests, Publish(r)
      PROVE  TypeOK'
  <2> DEFINE fresh == [key |-> key[r], generation |-> generation + 1]
             entry == [at |-> completed[r], payload |-> fresh]
  <2>1. fresh \in Payloads /\ entry \in Entries
    BY DEF TypeOK, Payloads, Entries
  <2>2. /\ cache' = [cache EXCEPT ![key[r]] = entry]
        /\ latest' = entry
        /\ payload' = [payload EXCEPT ![r] = fresh]
    BY <1>6 DEF Publish, Latest
  <2> HIDE DEF fresh, entry
  <2> QED
    BY <1>6, <2>1, <2>2, NoPayloadIsNone DEF Publish, Settled, TypeOK
<1>7. ASSUME NEW r \in Requests, NEW outcome \in Failures, Abandon(r, outcome)
      PROVE  TypeOK'
  BY <1>7 DEF Abandon, Settled, TypeOK
<1>8. ASSUME NEW r \in Requests, Resume(r)
      PROVE  TypeOK'
  <2>1. joined[r] \in Requests
    BY <1>8 DEF Resume, TypeOK
  <2> QED
    BY <1>8, <2>1 DEF Resume, TypeOK
<1>9. ASSUME NEW r \in Requests, Cancel(r)
      PROVE  TypeOK'
  BY <1>9 DEF Cancel, Settled, TypeOK
<1>10. ASSUME ClearCache
       PROVE  TypeOK'
  BY <1>10 DEF ClearCache, TypeOK
<1>11. ASSUME Tick
       PROVE  TypeOK'
  BY <1>11 DEF Tick, TypeOK
<1>12. ASSUME UNCHANGED vars
       PROVE  TypeOK'
  BY <1>12 DEF vars, TypeOK
<1> QED
  BY <1>1, <1>2, <1>3, <1>4, <1>5, <1>6, <1>7, <1>8, <1>9, <1>10, <1>11, <1>12
  DEF Next

\* The types, that who answers has a payload, who waits has somebody to wait
\* for, and that a future holds a result only when its owner has answered.
THEOREM TypeCorrect == Spec => []TypeOK
BY TypeInit, TypeNext, PTL DEF Spec

-----------------------------------------------------------------------------
(* One collection per configuration *)

LEMMA OneInit == Init => OneCollection
BY ScanAssumption DEF Init, OneCollection, Scanning

LEMMA OneNext == TypeOK /\ OneCollection /\ [Next]_vars => OneCollection'
<1> SUFFICES ASSUME TypeOK, OneCollection, [Next]_vars
             PROVE  OneCollection'
  OBVIOUS
<1> USE DEF Goto, shared, own, Scanning
<1>1. ASSUME NEW r \in Requests, Own(r)
      PROVE  OneCollection'
  BY <1>1, ScanAssumption DEF Own, MustCollect, OneCollection, TypeOK
<1>2. ASSUME NEW r \in Requests, Publish(r)
      PROVE  OneCollection'
  BY <1>2, ScanAssumption DEF Publish, OneCollection, TypeOK
<1>3. ASSUME NEW r \in Requests, NEW outcome \in Failures, Abandon(r, outcome)
      PROVE  OneCollection'
  BY <1>3, ScanAssumption DEF Abandon, Failures, OneCollection, TypeOK
<1>4. ASSUME NEW r \in Requests, Resume(r)
      PROVE  OneCollection'
  <2>1. stage[r] \notin Scanning /\ \E label \in Ended : stage' = [stage EXCEPT ![r] = label]
    BY <1>4 DEF Resume, Ended
  <2>2. \A s \in Requests : stage'[s] \in Scanning <=> stage[s] \in Scanning
    BY <2>1 DEF Ended, Failures, TypeOK
  <2> QED
    BY <1>4, <2>2 DEF Resume, OneCollection
<1>5. ASSUME \E r \in Requests : \/ \E policy \in Policies : Call(r, policy)
                                 \/ ServeCached(r) \/ Join(r) \/ Collected(r) \/ Cancel(r)
      PROVE  OneCollection'
  <2>1. \A s \in Requests : stage'[s] \in Scanning <=> stage[s] \in Scanning
    BY <1>5 DEF Call, ServeCached, Join, MustCollect, Collected, Cancel, TypeOK
  <2>2. UNCHANGED <<inflight, key>>
    BY <1>5 DEF Call, ServeCached, Join, MustCollect, Collected, Cancel
  <2> QED
    BY <2>1, <2>2 DEF OneCollection
<1>6. ASSUME ClearCache \/ Tick \/ UNCHANGED vars
      PROVE  OneCollection'
  BY <1>6 DEF ClearCache, Tick, vars, OneCollection
<1> QED
  BY <1>1, <1>2, <1>3, <1>4, <1>5, <1>6 DEF Next

\* Threads, loops, failures and cancellations notwithstanding, a configuration
\* is collected by the registered request alone, and a registered request is
\* really collecting (_inflight, written under _state_lock).
THEOREM SingleFlight == Spec => []OneCollection
<1>1. Init => TypeOK /\ OneCollection
  BY TypeInit, OneInit
<1>2. TypeOK /\ OneCollection /\ [Next]_vars => (TypeOK /\ OneCollection)'
  BY TypeNext, OneNext
<1> QED
  BY <1>1, <1>2, PTL DEF Spec

-----------------------------------------------------------------------------
(* What requests are answered, and what readers are shown *)

AnswerInv ==
  TypeOK /\ OneCollection /\ Versions /\ CalledMayUse /\ WaitsForItsOwn
         /\ AnswersTheRequest

LEMMA AnswerInit == Init => AnswerInv
BY TypeInit, OneInit
DEF Init, AnswerInv, Versions, CalledMayUse, WaitsForItsOwn, Awaits, AnswersTheRequest,
    Scanning

\* A step that leaves the entries as they are, or drops some.
LEMMA VersionsDrop ==
  ASSUME TypeOK, Versions, UNCHANGED <<latest, generation, asked>>,
         \A k \in Keys : cache'[k] \in {cache[k], Empty}
  PROVE  Versions'
BY DEF Versions

\* Requests that neither move nor lose what they rely on keep their promises.
LEMMA AnswersKept ==
  ASSUME AnswerInv, TypeOK', OneCollection', Versions', NEW r \in Requests,
         UNCHANGED own,
         \A k \in Keys : cache'[k] \in {cache[k], Empty},
         \A s \in Requests \ {r} :
           stage'[s] = stage[s] /\ joined'[s] = joined[s] /\ payload'[s] = payload[s],
         \A s \in Requests : future'[s] = "result" <=> future[s] = "result",
         stage[r] # "answered",
         stage'[r] \in {"collecting", "publishing"} \union Failures,
         stage'[r] \in Scanning => future[r] # "result"
  PROVE  AnswerInv'
<1>1. CalledMayUse'
  <2> SUFFICES ASSUME NEW s \in Requests, stage'[s] = "called", Usable(s)'
               PROVE  Newer(s, cache[key[s]].payload)'
    BY DEF CalledMayUse
  <2>1. s # r /\ stage[s] = "called"
    BY DEF Failures
  <2>2. UNCHANGED <<key, force, since, asked>> /\ key[s] \in Keys
    BY DEF own, AnswerInv, TypeOK
  <2>3. cache'[key[s]] # Empty
    BY <2>2 DEF Usable
  <2>4. cache'[key[s]] = cache[key[s]]
    BY <2>2, <2>3
  <2>5. Usable(s)
    BY <2>2, <2>4 DEF Usable
  <2>6. Newer(s, cache[key[s]].payload)
    BY <2>1, <2>5 DEF AnswerInv, CalledMayUse
  <2> QED
    BY <2>2, <2>4, <2>6 DEF Newer
<1>2. WaitsForItsOwn'
  <2> SUFFICES ASSUME NEW s \in Requests
               PROVE  Awaits(s)'
    BY DEF WaitsForItsOwn
  <2>1. stage'[s] \in Scanning => future'[s] # "result"
    BY DEF AnswerInv, WaitsForItsOwn, Awaits, Scanning
  <2>2. ASSUME stage'[s] = "waiting"
        PROVE  /\ key'[joined'[s]] = key'[s]
               /\ future'[joined'[s]] = "result" => Newer(s, payload[joined[s]])
               /\ s # r /\ joined'[s] = joined[s] /\ joined[s] \in Requests
    BY <2>2 DEF AnswerInv, WaitsForItsOwn, Awaits, own, Failures, TypeOK
  <2>3. ASSUME stage'[s] = "waiting", future'[joined'[s]] = "result"
        PROVE  payload'[joined'[s]] = payload[joined[s]]
    BY <2>2, <2>3 DEF AnswerInv, TypeOK
  <2> QED
    BY <2>1, <2>2, <2>3 DEF Awaits, Newer, own
<1>3. AnswersTheRequest'
  BY DEF AnswerInv, AnswersTheRequest, Newer, own, Failures
<1> QED
  BY <1>1, <1>2, <1>3 DEF AnswerInv

LEMMA AnswerNext == AnswerInv /\ [Next]_vars => AnswerInv'
<1> SUFFICES ASSUME AnswerInv, [Next]_vars
             PROVE  AnswerInv'
  OBVIOUS
<1>a. TypeOK' /\ OneCollection'
  BY TypeNext, OneNext DEF AnswerInv
<1>b. TypeOK
  BY DEF AnswerInv
<1> USE DEF Goto, shared
<1>1. ASSUME NEW r \in Requests, NEW policy \in Policies, Call(r, policy)
      PROVE  AnswerInv'
  <2>1. /\ UNCHANGED <<cache, latest, generation, key, future, joined, payload>>
        /\ stage[r] = "idle" /\ stage' = [stage EXCEPT ![r] = "called"]
        /\ asked' = [asked EXCEPT ![r] = generation]
        /\ \A s \in Requests \ {r} : force'[s] = force[s] /\ since'[s] = since[s]
        /\ cache[key[r]] # Empty => since'[r] = cache[key[r]].payload.generation
    BY <1>1, <1>b DEF Call, TypeOK
  <2>2. Versions'
    BY <2>1, <1>b DEF AnswerInv, Versions, TypeOK
  <2>3. CalledMayUse'
    <3> SUFFICES ASSUME NEW s \in Requests, stage'[s] = "called", Usable(s)'
                 PROVE  Newer(s, cache[key[s]].payload)'
      BY DEF CalledMayUse
    <3>1. CASE s = r
      <4>1. cache[key[r]] # Empty /\ key[r] \in Keys
        BY <2>1, <3>1, <1>b DEF Usable, TypeOK
      <4>2. cache[key[r]].payload.key = key[r] /\ cache[key[r]].payload.generation \in Nat
        BY <4>1, <1>b DEF AnswerInv, Versions, TypeOK, Entries, Payloads
      <4>3. ~force'[r]
        BY <2>1, <3>1, <4>1, <4>2 DEF Usable
      <4> QED
        BY <2>1, <3>1, <4>2, <4>3 DEF Newer
    <3>2. CASE s # r
      <4>1. stage[s] = "called" /\ Usable(s)
        BY <2>1, <3>2 DEF Usable
      <4>2. Newer(s, cache[key[s]].payload)
        BY <4>1 DEF AnswerInv, CalledMayUse
      <4> QED
        BY <2>1, <3>2, <4>2, <1>b DEF Newer, TypeOK
    <3> QED
      BY <3>1, <3>2
  <2>4. WaitsForItsOwn'
    <3> SUFFICES ASSUME NEW s \in Requests
                 PROVE  Awaits(s)'
      BY DEF WaitsForItsOwn
    <3>1. CASE s = r
      BY <2>1, <3>1, <1>b DEF Awaits, Scanning, TypeOK
    <3>2. CASE s # r
      <4>1. Awaits(s)
        BY DEF AnswerInv, WaitsForItsOwn
      <4>2. stage'[s] = stage[s] /\ force'[s] = force[s] /\ asked'[s] = asked[s]
        BY <2>1, <3>2, <1>b DEF TypeOK
      <4> QED
        BY <2>1, <4>1, <4>2 DEF Awaits, Newer
    <3> QED
      BY <3>1, <3>2
  <2>5. AnswersTheRequest'
    BY <2>1, <1>b DEF AnswerInv, AnswersTheRequest, Newer, TypeOK
  <2> QED
    BY <1>a, <2>2, <2>3, <2>4, <2>5 DEF AnswerInv
<1>2. ASSUME NEW r \in Requests, NEW p, Newer(r, p),
             stage[r] \in {"called", "waiting"},
             payload' = [payload EXCEPT ![r] = p],
             stage' = [stage EXCEPT ![r] = "answered"],
             UNCHANGED <<cache, latest, generation, own, future, joined>>
      PROVE  AnswerInv'
  <2>1. Versions' /\ CalledMayUse'
    BY <1>2, <1>b DEF AnswerInv, Versions, CalledMayUse, Usable, Newer, own, TypeOK
  <2>2. WaitsForItsOwn'
    <3> SUFFICES ASSUME NEW s \in Requests
                 PROVE  Awaits(s)'
      BY DEF WaitsForItsOwn
    <3>1. Awaits(s)
      BY DEF AnswerInv, WaitsForItsOwn
    <3>2. stage'[s] \in Scanning \union {"waiting"} => stage'[s] = stage[s]
      BY <1>2, <1>b DEF TypeOK, Scanning
    <3>3. stage'[s] = "waiting" /\ future[joined[s]] = "result" =>
            payload'[joined[s]] = payload[joined[s]]
      BY <1>2, <1>b, <3>2 DEF TypeOK
    <3> QED
      BY <1>2, <3>1, <3>2, <3>3 DEF Awaits, Newer, own
  <2>3. AnswersTheRequest'
    BY <1>2, <1>b DEF AnswerInv, AnswersTheRequest, Newer, own, TypeOK
  <2> QED
    BY <1>a, <2>1, <2>2, <2>3 DEF AnswerInv
<1>3. ASSUME NEW r \in Requests, ServeCached(r)
      PROVE  AnswerInv'
  <2>1. Newer(r, cache[key[r]].payload)
    BY <1>3 DEF ServeCached, AnswerInv, CalledMayUse
  <2> QED
    BY <1>2, <1>3, <2>1 DEF ServeCached
<1>4. ASSUME NEW r \in Requests, Resume(r)
      PROVE  AnswerInv'
  <2>1. CASE future[joined[r]] = "result"
    <3>1. Newer(r, payload[joined[r]])
      BY <1>4, <2>1 DEF Resume, AnswerInv, WaitsForItsOwn, Awaits
    <3> QED
      BY <1>2, <1>4, <2>1, <3>1 DEF Resume, Failures
  <2>2. CASE future[joined[r]] # "result"
    <3>1. Versions'
      BY <1>4, <1>b, VersionsDrop DEF Resume, AnswerInv, own
    <3> QED
      BY <1>4, <1>a, <1>b, <2>2, <3>1, AnswersKept DEF Resume, TypeOK, Failures, Scanning
  <2> QED
    BY <2>1, <2>2
<1>5. ASSUME NEW r \in Requests, Join(r)
      PROVE  AnswerInv'
  <2>1. /\ inflight[key[r]] \in Requests /\ key[r] \in Keys
        /\ stage[inflight[key[r]]] \in Scanning
        /\ key[inflight[key[r]]] = key[r]
    BY <1>5, <1>b DEF Join, AnswerInv, OneCollection, TypeOK
  <2>2. \A k \in Keys : cache'[k] \in {cache[k], Empty}
    BY <1>5, <1>b DEF Join, MustCollect, Dropped, TypeOK
  <2>3. Versions'
    BY <1>5, <1>b, <2>2, VersionsDrop DEF Join, AnswerInv, own
  <2>4. CalledMayUse'
    <3> SUFFICES ASSUME NEW s \in Requests, stage'[s] = "called", Usable(s)'
                 PROVE  Newer(s, cache[key[s]].payload)'
      BY DEF CalledMayUse
    <3>1. stage[s] = "called" /\ key[s] \in Keys
      BY <1>5, <1>b DEF Join, MustCollect, TypeOK
    <3>2. UNCHANGED <<key, force, since, asked>>
      BY <1>5 DEF Join, own
    <3>3. cache'[key[s]] = cache[key[s]]
      BY <2>2, <3>1, <3>2 DEF Usable
    <3>4. Usable(s)
      BY <3>2, <3>3 DEF Usable
    <3> QED
      BY <3>1, <3>2, <3>3, <3>4 DEF AnswerInv, CalledMayUse, Newer
  <2>5. WaitsForItsOwn'
    <3> SUFFICES ASSUME NEW s \in Requests
                 PROVE  Awaits(s)'
      BY DEF WaitsForItsOwn
    <3>1. Awaits(s) /\ Awaits(inflight[key[r]])
      BY <2>1 DEF AnswerInv, WaitsForItsOwn
    <3>2. UNCHANGED <<key, force, asked, future, payload>>
      BY <1>5 DEF Join, own
    <3>3. CASE s = r
      <4>1. stage'[s] = "waiting" /\ joined'[s] = inflight[key[r]]
        BY <1>5, <1>b, <3>3 DEF Join, MustCollect, TypeOK
      <4> QED
        BY <2>1, <3>1, <3>2, <3>3, <4>1 DEF Awaits, Scanning
    <3>4. CASE s # r
      <4>1. stage'[s] = stage[s] /\ joined'[s] = joined[s]
        BY <1>5, <1>b, <3>4 DEF Join, TypeOK
      <4> QED
        BY <3>1, <3>2, <4>1 DEF Awaits, Newer
    <3> QED
      BY <3>3, <3>4
  <2>6. AnswersTheRequest'
    BY <1>5, <1>b DEF Join, MustCollect, own, AnswerInv, AnswersTheRequest, Newer, TypeOK
  <2> QED
    BY <1>a, <2>3, <2>4, <2>5, <2>6 DEF AnswerInv
<1>6. ASSUME NEW r \in Requests,
             \/ Own(r) \/ Collected(r) \/ Cancel(r)
             \/ \E outcome \in Failures : Abandon(r, outcome)
      PROVE  AnswerInv'
  <2>1. \A k \in Keys : cache'[k] \in {cache[k], Empty}
    BY <1>6, <1>b DEF Own, MustCollect, Dropped, Collected, Cancel, Abandon, TypeOK
  <2>2. UNCHANGED own /\ UNCHANGED <<latest, generation, asked, joined, payload>>
    BY <1>6 DEF Own, Collected, Cancel, Abandon, own
  <2>3. /\ stage[r] # "answered"
        /\ \E label \in {"collecting", "publishing"} \union Failures :
             stage' = [stage EXCEPT ![r] = label]
    BY <1>6 DEF Own, MustCollect, Collected, Cancel, Abandon, Failures
  <2>4. \A s \in Requests : future'[s] = "result" <=> future[s] = "result"
    BY <1>6, <1>b DEF Own, MustCollect, Collected, Cancel, Abandon, Settled, Failures, TypeOK
  <2>5. future[r] # "result"
    BY <2>3, <1>b DEF TypeOK
  <2>6. Versions'
    BY <2>1, <2>2, <1>b, VersionsDrop DEF AnswerInv
  <2> QED
    BY <1>a, <1>b, <2>1, <2>2, <2>3, <2>4, <2>5, <2>6, AnswersKept DEF TypeOK
<1>7. ASSUME NEW r \in Requests, Publish(r)
      PROVE  AnswerInv'
  <2> DEFINE fresh == [key |-> key[r], generation |-> generation + 1]
             entry == [at |-> completed[r], payload |-> fresh]
  <2>1. /\ stage[r] = "publishing" /\ stage' = [stage EXCEPT ![r] = "answered"]
        /\ generation' = generation + 1
        /\ cache' = [cache EXCEPT ![key[r]] = entry]
        /\ latest' = entry
        /\ payload' = [payload EXCEPT ![r] = fresh]
        /\ UNCHANGED <<key, force, since, asked, joined>>
        /\ \A s \in Requests \ {r} : future'[s] = future[s]
    BY <1>7, <1>b DEF Publish, Latest, Settled, own, TypeOK
  <2>2. entry.payload = fresh /\ fresh.key = key[r] /\ fresh.generation = generation + 1
        /\ entry # Empty
    <3>1. entry \in Entries
      BY <1>b DEF TypeOK, Entries, Payloads
    <3> QED
      BY <3>1, EmptyIsNoEntry
  <2> HIDE DEF fresh, entry
  <2>3. generation \in Nat /\ \A s \in Requests : asked[s] \in Nat /\ asked[s] <= generation
    BY <1>b DEF AnswerInv, Versions, TypeOK
  <2>4. \A s \in Requests : key[s] = key[r] => Newer(s, fresh)
    BY <2>2, <2>3 DEF Newer
  <2>5. Versions'
    <3>1. \A k \in Keys : cache[k] # Empty => cache[k].payload.generation \in Nat
      BY <1>b DEF TypeOK, Entries, Payloads
    <3> QED
      BY <2>1, <2>2, <2>3, <3>1, <1>b DEF AnswerInv, Versions, TypeOK
  <2>6. CalledMayUse'
    <3> SUFFICES ASSUME NEW s \in Requests, stage'[s] = "called", Usable(s)'
                 PROVE  Newer(s, cache[key[s]].payload)'
      BY DEF CalledMayUse
    <3>1. stage[s] = "called" /\ key[s] \in Keys
      BY <2>1, <1>b DEF TypeOK
    <3>2. CASE key[s] = key[r]
      BY <2>1, <2>2, <2>4, <3>1, <3>2, <1>b DEF Newer, TypeOK
    <3>3. CASE key[s] # key[r]
      <4>1. cache'[key[s]] = cache[key[s]]
        BY <2>1, <3>1, <3>3, <1>b DEF TypeOK
      <4>2. Usable(s)
        BY <2>1, <4>1 DEF Usable
      <4> QED
        BY <2>1, <3>1, <4>1, <4>2 DEF AnswerInv, CalledMayUse, Newer
    <3> QED
      BY <3>2, <3>3
  <2>7. WaitsForItsOwn'
    <3> SUFFICES ASSUME NEW s \in Requests
                 PROVE  Awaits(s)'
      BY DEF WaitsForItsOwn
    <3>1. Awaits(s)
      BY DEF AnswerInv, WaitsForItsOwn
    <3>2. stage'[s] \in Scanning \union {"waiting"} => s # r /\ stage'[s] = stage[s]
      BY <2>1, <1>b DEF TypeOK, Scanning
    <3>3. ASSUME stage'[s] = "waiting", future'[joined[s]] = "result"
          PROVE  Newer(s, payload'[joined[s]])
      <4>1. CASE joined[s] = r
        BY <2>1, <2>4, <3>1, <3>2, <3>3, <4>1, <1>b DEF Awaits, TypeOK
      <4>2. CASE joined[s] # r
        BY <2>1, <3>1, <3>2, <3>3, <4>2, <1>b DEF Awaits, TypeOK
      <4> QED
        BY <4>1, <4>2
    <3> QED
      BY <2>1, <3>1, <3>2, <3>3 DEF Awaits, Newer
  <2>8. AnswersTheRequest'
    BY <2>1, <2>4, <1>b DEF AnswerInv, AnswersTheRequest, Newer, TypeOK
  <2> QED
    BY <1>a, <2>5, <2>6, <2>7, <2>8 DEF AnswerInv
<1>8. ASSUME ClearCache
      PROVE  AnswerInv'
  <2>1. UNCHANGED <<generation, stage, key, force, since, asked, future, joined, payload>>
        /\ latest' = Empty /\ \A k \in Keys : cache'[k] = Empty
    BY <1>8 DEF ClearCache, own
  <2>2. Versions' /\ CalledMayUse'
    BY <2>1, <1>b DEF AnswerInv, Versions, CalledMayUse, Usable, TypeOK
  <2>3. WaitsForItsOwn' /\ AnswersTheRequest'
    BY <2>1 DEF AnswerInv, WaitsForItsOwn, Awaits, AnswersTheRequest, Newer
  <2> QED
    BY <1>a, <2>2, <2>3 DEF AnswerInv
<1>9. ASSUME Tick \/ UNCHANGED vars
      PROVE  AnswerInv'
  <2>1. UNCHANGED <<cache, latest, generation, stage, key, force, since, asked, future,
                    joined, payload>>
    BY <1>9 DEF Tick, vars, own
  <2> QED
    BY <2>1, <1>a DEF AnswerInv, Versions, CalledMayUse, Usable, WaitsForItsOwn, Awaits,
       AnswersTheRequest, Newer
<1> QED
  BY <1>1, <1>3, <1>4, <1>5, <1>6, <1>7, <1>8, <1>9 DEF Next

\* A request is answered with a collection of its own configuration, and a
\* forced one with a collection published after it was called: for any number
\* of threads, loops, cancellations and cache drops (starting_generation and
\* generation_advanced of _execute_scan, the futures of _inflight).
THEOREM ForcedAnswersAreNewer == Spec => []AnswersTheRequest
<1>1. AnswerInv => AnswersTheRequest
  BY DEF AnswerInv
<1> QED
  BY AnswerInit, AnswerNext, <1>1, PTL DEF Spec

\* What readers are shown, in terms of the entries.
ShownWell ==
  \A k \in Keys :
    /\ Shown(k) \in Nat /\ Shown(k) <= generation
    /\ latest # Empty /\ cache[k] = Empty => Shown(k) = generation
    /\ latest = Empty => Shown(k) = 0
    /\ cache[k] # Empty => Shown(k) = cache[k].payload.generation

LEMMA ShownFacts == TypeOK /\ Versions => ShownWell
<1> SUFFICES ASSUME TypeOK, Versions, NEW k \in Keys
             PROVE  /\ Shown(k) \in Nat /\ Shown(k) <= generation
                    /\ latest # Empty /\ cache[k] = Empty => Shown(k) = generation
                    /\ latest = Empty => Shown(k) = 0
                    /\ cache[k] # Empty => Shown(k) = cache[k].payload.generation
  BY DEF ShownWell
<1>1. cache[k] # Empty => cache[k].payload.generation \in Nat
  BY DEF TypeOK, Entries, Payloads
<1>2. generation \in Nat
  BY DEF TypeOK
<1>3. CASE cache[k] # Empty
  BY <1>1, <1>2, <1>3 DEF Shown, Snapshot, Versions
<1>4. CASE cache[k] = Empty
  BY <1>2, <1>4 DEF Shown, Snapshot, Versions
<1> QED
  BY <1>3, <1>4

LEMMA ShownFactsNext == (TypeOK /\ Versions => ShownWell)'
BY ShownFacts, PTL

LEMMA ShownNext ==
  AnswerInv /\ [Next]_vars => [ClearCache \/ \A k \in Keys : Shown(k) <= Shown(k)']_vars
<1> SUFFICES ASSUME AnswerInv, [Next]_vars, ~ClearCache, NEW k \in Keys
             PROVE  Shown(k) <= Shown(k)'
  BY Zenon
<1>a. TypeOK /\ Versions /\ ShownWell /\ ShownWell'
  BY AnswerNext, ShownFacts, ShownFactsNext DEF AnswerInv
<1>b. generation \in Nat /\ generation' \in {generation, generation + 1}
  BY <1>a
  DEF TypeOK, Next, Call, ServeCached, Join, MustCollect, Own, Collected, Publish, Abandon,
      Resume, Cancel, Tick, vars, shared
<1>1. CASE UNCHANGED <<cache, latest>>
  <2>1. Shown(k)' = Shown(k)
    BY <1>1 DEF Shown, Snapshot
  <2> QED
    BY <2>1, <1>a DEF ShownWell
<1>2. CASE \E r \in Requests : MustCollect(r) /\ UNCHANGED <<latest, generation>>
  <2>1. cache'[k] \in {cache[k], Empty}
    BY <1>2, <1>a DEF MustCollect, Dropped, TypeOK
  <2> QED
    BY <1>2, <1>a, <1>b, <2>1 DEF ShownWell, Versions
<1>3. ASSUME NEW r \in Requests, Publish(r)
      PROVE  Shown(k) <= Shown(k)'
  <2> DEFINE fresh == [key |-> key[r], generation |-> generation + 1]
             entry == [at |-> completed[r], payload |-> fresh]
  <2>1. generation' = generation + 1 /\ latest' = entry
        /\ cache' = [cache EXCEPT ![key[r]] = entry]
    BY <1>3 DEF Publish, Latest
  <2>2. entry \in Entries /\ entry.payload.generation = generation + 1
    BY <1>a DEF TypeOK, Entries, Payloads
  <2> HIDE DEF entry
  <2>3. cache'[k] \in {cache[k], entry} /\ latest' # Empty /\ entry # Empty
    BY <2>1, <2>2, <1>a, EmptyIsNoEntry DEF TypeOK
  <2> QED
    BY <1>a, <1>b, <2>1, <2>2, <2>3 DEF ShownWell
<1> QED
  BY <1>1, <1>2, <1>3
  DEF Next, Call, ServeCached, Join, Own, Collected, Abandon, Resume, Cancel, Tick, vars, shared

\* Readers of latest_snapshot never see an older collection than one before,
\* unless clear_cache came between, although expired entries are dropped and
\* other configurations replace the latest entry.
THEOREM ReadersNeverGoBack == Spec => SnapshotNeverGoesBack
BY AnswerInit, AnswerNext, ShownNext, PTL DEF Spec, SnapshotNeverGoesBack
=============================================================================
