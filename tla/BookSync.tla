------------------------------ MODULE BookSync ------------------------------
(***************************************************************************)
(* A local order book kept in step with a venue (crypto_arbitrage/          *)
(* market_data): LocalOrderBook validates and applies deltas,              *)
(* BookStreamManager turns its errors into outcomes, BookSynchronizer      *)
(* buffers the stream until a snapshot arrives and replays the buffer.     *)
(*                                                                         *)
(* Data abstraction.  A price level holds the version of the venue update  *)
(* that wrote it last, which stands for its quantity (an emptied level     *)
(* included): two books are equal exactly when every level was written by  *)
(* the same update.  A message is the interval of venue updates it covers, *)
(* and carries the final value of every level touched in that interval.    *)
(***************************************************************************)
EXTENDS Integers, Sequences

CONSTANTS
  Levels,           \* price levels of the instrument
  Mode,             \* SequenceMode of the adapter
  MaxBuffer,        \* max_buffer of the synchroniser
  PushesSnapshots,  \* the venue pushes snapshots on its stream (OKX, Bybit)
  OmitsIds,         \* a delta may come without the id Mode needs
  OmitsSnapshotIds, \* a snapshot may come without its update id
  RestLags,         \* REST may answer with less than the stream delivered
  CrossedVersions,  \* venue versions whose published book is crossed
  MaxVersion,       \* bound: venue updates
  MaxFaults         \* bound: lost, unparsable or repeated messages, drops

Modes == {"STRICT_INCREMENT", "RANGE", "PREVIOUS_MATCH", "MONOTONIC", "NONE"}

ASSUME ConstantsAssumption ==
  /\ Mode \in Modes
  /\ MaxBuffer \in Nat \ {0}
  /\ PushesSnapshots \in BOOLEAN
  /\ OmitsIds \in BOOLEAN
  /\ OmitsSnapshotIds \in BOOLEAN
  /\ RestLags \in BOOLEAN
  /\ CrossedVersions \subseteq Nat
  /\ MaxVersion \in Nat
  /\ MaxFaults \in Nat

VARIABLES
  venue,          \* venue[v]: the venue's book after its update v
  head,           \* the venue's latest version
  cursor,         \* the first update the next stream message will cover
  rest,           \* the REST snapshot in flight: no element or one
  faults,         \* faults so far
  state,          \* BookSynchronizer.state
  buffer,         \* BookSynchronizer._buffer
  firstBuffered,  \* BookSynchronizer._first_buffered_update_id
  replaying,      \* _replay is running
  pending,        \* its local list of messages still to replay
  book            \* LocalOrderBook: ready, resync, last, levels; anchored is
                  \* a history field: its snapshot carried an update id

venueVars == <<venue, head>>
syncVars  == <<state, buffer, firstBuffered, replaying, pending>>
vars == <<venueVars, cursor, rest, faults, syncVars, book>>

NoId == -1

-----------------------------------------------------------------------------
(* LocalOrderBook *)

\* A stream delta covers the updates first..final; numbered says whether it
\* carries the id its mode checks (previous_update_id for PREVIOUS_MATCH).
Delta(first, final, numbered) ==
  [first |-> first, final |-> final, numbered |-> numbered]

\* A snapshot shows the venue's book at a version; update_id may be None.
Snapshot(version, numbered) == [version |-> version, numbered |-> numbered]
UpdateId(s) == IF s.numbered THEN s.version ELSE NoId

IsReady == book.ready /\ ~book.resync

\* Mutant: the snapshot is not tested for crossing.
SnapshotBookUntested(s) ==
  [ready |-> TRUE, resync |-> FALSE, last |-> UpdateId(s),
   anchored |-> s.numbered, levels |-> venue[s.version]]

SnapshotBook(s) ==
  [ready |-> TRUE, resync |-> s.version \in CrossedVersions,
   last |-> UpdateId(s), anchored |-> s.numbered, levels |-> venue[s.version]]

\* Changes are absolute quantities: a level touched within the interval ends
\* with the value the venue gave it at the end of the interval.
Merge(levels, m) ==
  [l \in Levels |-> IF venue[m.final][l] >= m.first THEN venue[m.final][l]
                                                    ELSE levels[l]]

\* _check_sequence compares nothing: in mode NONE, and after a snapshot without
\* an update id until a delta brings one.
Unchecked(b) == Mode = "NONE" \/ b.last = NoId

Misnumbered(b, m) == ~Unchecked(b) /\ ~m.numbered

\* Mutant: the first missing update of a hole goes unnoticed.
ContinuesOverHole(b, m) ==
  Unchecked(b) \/ (m.first <= b.last + 2 /\ b.last < m.final)

\* Mutant: a repeated delta is applied again.
ContinuesBackwards(b, m) == Unchecked(b) \/ m.first <= b.last + 1

Continues(b, m) ==
  \/ Unchecked(b)
  \/ Mode = "PREVIOUS_MATCH"   /\ m.first - 1 = b.last
  \/ Mode = "MONOTONIC"        /\ m.final > b.last
  \/ Mode = "STRICT_INCREMENT" /\ m.final = b.last + 1
  \/ Mode = "RANGE"            /\ m.first <= b.last + 1 /\ b.last < m.final

\* The verdict of apply_update on delta m.  Only GAP makes the book itself ask
\* for a resync: REFUSED already asked, and MISNUMBERED raises without asking.
Verdict(b, m) ==
  CASE ~b.ready \/ b.resync -> "REFUSED"
    [] b.ready /\ ~b.resync /\ Misnumbered(b, m) -> "MISNUMBERED"
    [] b.ready /\ ~b.resync /\ ~Misnumbered(b, m) ->
         IF Continues(b, m) THEN "APPLIED"
         ELSE IF m.final <= b.last THEN "IGNORED" ELSE "GAP"

\* A venue book is crossed at the CrossedVersions; of levels that are no book
\* of the venue, best bid and best ask may or may not cross.
CrossedOutcomes(levels, v) ==
  IF levels = venue[v] THEN {v \in CrossedVersions} ELSE BOOLEAN

\* last_update_id moves only to an id the delta carries.
LastAfter(b, m) ==
  IF m.numbered \/ Mode = "PREVIOUS_MATCH" THEN m.final ELSE b.last

\* Mutant: a gap is reported, but the book does not remember it.
UpdatedForgetsGap(b, m, crossed) ==
  IF Verdict(b, m) = "APPLIED"
    THEN [b EXCEPT !.levels = Merge(@, m), !.last = LastAfter(b, m),
                   !.resync = crossed]
    ELSE b

Updated(b, m, crossed) ==
  CASE Verdict(b, m) = "APPLIED" ->
         [b EXCEPT !.levels = Merge(@, m), !.last = LastAfter(b, m),
                   !.resync = crossed]
    [] Verdict(b, m) = "GAP" -> [b EXCEPT !.resync = TRUE]
    [] Verdict(b, m) \notin {"APPLIED", "GAP"} -> b

\* BookStreamManager._apply_delta: the outcome is RESYNC_REQUIRED.
ResyncRequired(b, m, crossed) ==
  \/ Verdict(b, m) \in {"REFUSED", "MISNUMBERED", "GAP"}
  \/ Verdict(b, m) = "APPLIED" /\ crossed

-----------------------------------------------------------------------------
(* BookSynchronizer *)

ClearBuffer == buffer' = <<>> /\ firstBuffered' = NoId

EnterSynced    == state' = "SYNCED"    /\ ClearBuffer
EnterBuffering == state' = "BUFFERING" /\ ClearBuffer
Fail           == state' = "FAILED"    /\ ClearBuffer

\* The id step 3 of the procedure compares the snapshot with.
BufferedId(m) ==
  IF Mode = "RANGE" THEN m.first
  ELSE IF m.numbered \/ Mode = "PREVIOUS_MATCH" THEN m.final ELSE NoId

SnapshotReachesBuffer(s) ==
  firstBuffered = NoId \/ (s.numbered /\ s.version >= firstBuffered)

\* Mutant: the resync the manager asks for is not answered.
LiveDeltaStaysSynced(m) ==
  /\ state = "SYNCED"
  /\ \E crossed \in CrossedOutcomes(Merge(book.levels, m), m.final) :
       book' = Updated(book, m, crossed)
  /\ UNCHANGED <<state, buffer, firstBuffered>>

\* observe, in SYNCED: the manager applies the delta.
LiveDelta(m) ==
  /\ state = "SYNCED"
  /\ \E crossed \in CrossedOutcomes(Merge(book.levels, m), m.final) :
       /\ book' = Updated(book, m, crossed)
       /\ IF ResyncRequired(book, m, crossed)
            THEN EnterBuffering
            ELSE UNCHANGED <<state, buffer, firstBuffered>>

\* Mutant: the buffer has no limit.
BufferWithoutLimit(m) ==
  /\ state # "SYNCED"
  /\ buffer' = Append(buffer, m)
  /\ firstBuffered' = IF firstBuffered = NoId THEN BufferedId(m)
                                              ELSE firstBuffered
  /\ UNCHANGED <<state, book>>

\* observe, otherwise (FAILED too): the delta is kept for the replay.
BufferDelta(m) ==
  /\ state # "SYNCED"
  /\ IF Len(buffer) >= MaxBuffer
       THEN Fail
       ELSE /\ buffer' = Append(buffer, m)
            /\ firstBuffered' = IF firstBuffered = NoId THEN BufferedId(m)
                                                        ELSE firstBuffered
            /\ UNCHANGED state
  /\ UNCHANGED book

ObserveDelta(k, numbered) ==
  /\ ~replaying
  /\ cursor <= k
  /\ numbered \/ OmitsIds
  /\ LiveDelta(Delta(cursor, k, numbered))
     \/ BufferDelta(Delta(cursor, k, numbered))
  /\ cursor' = k + 1
  /\ UNCHANGED <<venueVars, rest, faults, replaying, pending>>

\* Mutant: a pushed snapshot does not end the buffering.
ObserveSnapshotStaysBuffering(numbered) ==
  /\ ~replaying
  /\ PushesSnapshots
  /\ numbered \/ OmitsSnapshotIds
  /\ book' = SnapshotBook(Snapshot(head, numbered))
  /\ IF head \in CrossedVersions /\ state = "SYNCED"
       THEN EnterBuffering
       ELSE UNCHANGED <<state, buffer, firstBuffered>>
  /\ cursor' = head + 1
  /\ UNCHANGED <<venueVars, rest, faults, replaying, pending>>

\* observe with a pushed snapshot: applied in every state; a crossed one
\* leaves a synchroniser that is still buffering as it was.
ObserveSnapshot(numbered) ==
  /\ ~replaying
  /\ PushesSnapshots
  /\ numbered \/ OmitsSnapshotIds
  /\ book' = SnapshotBook(Snapshot(head, numbered))
  /\ IF head \in CrossedVersions
       THEN IF state = "SYNCED" THEN EnterBuffering
                                ELSE UNCHANGED <<state, buffer, firstBuffered>>
       ELSE IF state = "SYNCED" THEN UNCHANGED <<state, buffer, firstBuffered>>
                                ELSE EnterSynced
  /\ cursor' = head + 1
  /\ UNCHANGED <<venueVars, rest, faults, replaying, pending>>

\* Mutant: the buffer is cleared before it is copied for the replay.
ApplyRestSnapshotOnly ==
  /\ ~replaying
  /\ \E s \in rest : /\ SnapshotReachesBuffer(s)
                     /\ book' = SnapshotBook(s)
  /\ rest' = {}
  /\ replaying' = TRUE
  /\ pending' = <<>>
  /\ ClearBuffer
  /\ UNCHANGED <<venueVars, cursor, faults, state>>

\* apply_rest_snapshot up to the call of _replay.
ApplyRestSnapshot ==
  /\ ~replaying
  /\ rest' = {}
  /\ \E s \in rest :
       \/ /\ ~SnapshotReachesBuffer(s)
          /\ UNCHANGED <<syncVars, book>>
       \/ /\ SnapshotReachesBuffer(s)
          /\ book' = SnapshotBook(s)
          /\ IF s.version \in CrossedVersions
               THEN Fail /\ UNCHANGED <<replaying, pending>>
               ELSE /\ replaying' = TRUE
                    /\ pending' = buffer
                    /\ buffer' = <<>>
                    /\ UNCHANGED <<state, firstBuffered>>
  /\ UNCHANGED <<venueVars, cursor, faults>>

\* One turn of the loop of _replay: no other handler runs until it ends.
ReplayNext ==
  /\ replaying
  /\ pending # <<>>
  /\ LET m == Head(pending)
     IN  \E crossed \in CrossedOutcomes(Merge(book.levels, m), m.final) :
           /\ book' = Updated(book, m, crossed)
           /\ IF ResyncRequired(book, m, crossed)
                THEN Fail /\ pending' = <<>> /\ replaying' = FALSE
                ELSE /\ pending' = Tail(pending)
                     /\ UNCHANGED <<state, buffer, firstBuffered, replaying>>
  /\ UNCHANGED <<venueVars, cursor, rest, faults>>

ReplayEnd ==
  /\ replaying
  /\ pending = <<>>
  /\ EnterSynced
  /\ replaying' = FALSE
  /\ UNCHANGED <<venueVars, cursor, rest, faults, pending, book>>

\* restart, called when the socket drops: the new stream starts at the head,
\* a REST answer still in flight is not cancelled.
Restart ==
  /\ ~replaying
  /\ faults < MaxFaults
  /\ faults' = faults + 1
  /\ book' = [book EXCEPT !.resync = TRUE]
  /\ EnterBuffering
  /\ cursor' = head + 1
  /\ UNCHANGED <<venueVars, rest, replaying, pending>>

-----------------------------------------------------------------------------
(* The venue, the network and the caller *)

Publish(touched) ==
  /\ head < MaxVersion
  /\ head' = head + 1
  /\ venue' = [v \in 0..(head + 1) |->
                 IF v <= head THEN venue[v]
                 ELSE [l \in Levels |-> IF l \in touched THEN head + 1
                                                         ELSE venue[head][l]]]
  /\ UNCHANGED <<cursor, rest, faults, syncVars, book>>

\* Messages are lost, skipped because they do not parse (outcome ERROR, the
\* book untouched), or delivered again.
StreamDisturbed(next) ==
  /\ faults < MaxFaults
  /\ next # cursor
  /\ cursor' = next
  /\ faults' = faults + 1
  /\ UNCHANGED <<venueVars, rest, syncVars, book>>

\* The caller asks for a REST snapshot while the book is not synced; the
\* venue's REST side may lag behind its stream.
RequestSnapshot(v, numbered) ==
  /\ ~PushesSnapshots
  /\ ~replaying
  /\ state # "SYNCED"
  /\ numbered \/ OmitsSnapshotIds
  /\ RestLags \/ v >= cursor - 1
  /\ rest = {}
  /\ rest' = {Snapshot(v, numbered)}
  /\ UNCHANGED <<venueVars, cursor, faults, syncVars, book>>

Init ==
  /\ head = 0
  /\ venue = [v \in {0} |-> [l \in Levels |-> 0]]
  /\ cursor = 1
  /\ rest = {}
  /\ faults = 0
  /\ state = "BUFFERING"
  /\ buffer = <<>>
  /\ firstBuffered = NoId
  /\ replaying = FALSE
  /\ pending = <<>>
  /\ book = [ready |-> FALSE, resync |-> FALSE, last |-> NoId,
             anchored |-> FALSE, levels |-> [l \in Levels |-> 0]]

Next ==
  \/ \E touched \in SUBSET Levels \ {{}} : Publish(touched)
  \/ \E k \in 1..head, numbered \in BOOLEAN : ObserveDelta(k, numbered)
  \/ \E numbered \in BOOLEAN : ObserveSnapshot(numbered)
  \/ \E v \in 0..head, numbered \in BOOLEAN : RequestSnapshot(v, numbered)
  \/ ApplyRestSnapshot
  \/ ReplayNext
  \/ ReplayEnd
  \/ Restart
  \/ \E next \in 1..(head + 1) : StreamDisturbed(next)

Spec == Init /\ [][Next]_vars

\* The event loop runs its handlers; messages and answers that are not lost
\* arrive; a caller that keeps asking gets a current, numbered snapshot in the
\* end.  Nothing makes the venue publish, nor a fault happen.
Fairness ==
  /\ WF_vars(\E k \in 1..head, numbered \in BOOLEAN : ObserveDelta(k, numbered))
  /\ WF_vars(ApplyRestSnapshot)
  /\ WF_vars(ReplayNext \/ ReplayEnd)
  /\ WF_vars(state # "SYNCED" /\ \E numbered \in BOOLEAN : ObserveSnapshot(numbered))
  /\ SF_vars(RequestSnapshot(head, TRUE))

FairSpec == Spec /\ Fairness

-----------------------------------------------------------------------------
(* Properties *)

Books    == [Levels -> Nat]
Messages ==
  {m \in [first : 1..head, final : 1..head, numbered : BOOLEAN] :
     m.first <= m.final /\ (m.numbered \/ OmitsIds)}

Snapshots  ==
  {s \in [version : 0..head, numbered : BOOLEAN] : s.numbered \/ OmitsSnapshotIds}
LocalBooks ==
  [ready : BOOLEAN, resync : BOOLEAN, last : {NoId} \union (0..head),
   anchored : BOOLEAN, levels : Books]

\* Types, the limits of the two message lists and of the requests in flight,
\* and that every id kept anywhere is one the venue has already issued.
TypeOK ==
  /\ head \in Nat
  /\ venue \in [0..head -> Books]
  /\ cursor \in 1..(head + 1)
  /\ rest \in SUBSET Snapshots /\ \A s, t \in rest : s = t
  /\ faults \in Nat
  /\ state \in {"BUFFERING", "SYNCED", "FAILED"}
  /\ buffer \in Seq(Messages) /\ Len(buffer) <= MaxBuffer
  /\ firstBuffered \in {NoId} \union Nat
  /\ replaying \in BOOLEAN
  /\ pending \in Seq(Messages) /\ Len(pending) <= MaxBuffer
  /\ book \in LocalBooks /\ (book.anchored => book.last # NoId)

\* A book that may be priced (is_ready, the test of snapshot_for_pricing) is,
\* level by level, the book the venue had at its last_update_id: neither the
\* gap between snapshot and stream, nor lost, repeated or overlapping
\* messages, nor the replay ever leave it quietly diverged.  It is said of a
\* book whose snapshot carried its id: a numbered snapshot makes it true again
\* of a book that had accepted deltas unchecked.
Mirror == IsReady /\ book.anchored => book.levels = venue[book.last]

\* Book and synchroniser agree: what prices looks at (the book) is ready only
\* while the synchroniser forwards deltas to it, and a synchroniser that
\* forwards never feeds a book that refuses them.
ReadyAgreesWithSynced ==
  /\ state = "SYNCED" => IsReady
  /\ IsReady => state = "SYNCED" \/ replaying

\* A book the venue published crossed is never shown as ready, whichever way
\* it was reached: snapshot, live delta or replay.
ReadyIsNotCrossed ==
  IsReady /\ book.anchored => book.last \notin CrossedVersions

\* Every delta handed to observe is in a synced book: nothing received before,
\* while or after the snapshot was taken is missing, as long as the network
\* lost nothing (and the buffer was never full).
SyncedMissesNothing ==
  state = "SYNCED" /\ book.anchored /\ faults = 0 => book.last >= cursor - 1

\* The subsystem keeps the promise of BookMirror.
shown == IF IsReady /\ book.anchored
           THEN [visible |-> TRUE, at |-> book.last, levels |-> book.levels]
           ELSE [visible |-> FALSE]
Promise == INSTANCE BookMirror WITH history <- venue
ImplementsMirror == Promise!MirrorSpec

\* What makes the invariants above inductive: the venue's levels only change by
\* being written again; a REST answer is awaited only while unsynced, and the
\* replay runs on a ready book.
GapDetecting == Mode \in {"STRICT_INCREMENT", "RANGE", "PREVIOUS_MATCH"}

History ==
  \A a, b \in 0..head : a <= b =>
    \A l \in Levels : /\ venue[a][l] <= a
                      /\ venue[b][l] <= a => venue[a][l] = venue[b][l]

Control ==
  /\ rest # {} => ~PushesSnapshots /\ ~replaying /\ state # "SYNCED"
  /\ replaying => IsReady /\ state # "SYNCED"

\* From version h of the venue and the last fault f on, nothing is lost any
\* more, and the venue published at least once.
CalmSince(f, h) ==
  /\ <>(faults = f /\ head = h)
  /\ <>[](faults = f /\ head > h /\ head \notin CrossedVersions)

\* Whatever was lost, repeated or cut off before: once faults have stopped and
\* the venue published again, the hole is noticed, a snapshot fetched, and the
\* book is synchronised for good at the venue's latest version.
EventuallyCurrent ==
  \A f \in 0..MaxFaults, h \in 0..MaxVersion :
    CalmSince(f, h) =>
      <>[](state = "SYNCED" /\ IsReady /\ (book.anchored => book.last = head))
=============================================================================
