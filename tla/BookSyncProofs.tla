--------------------------- MODULE BookSyncProofs ---------------------------
(***************************************************************************)
(* Theorems about BookSync, for every set of levels, every buffer size,    *)
(* every history of the venue and any number of faults.                    *)
(***************************************************************************)
EXTENDS BookSync, SequenceTheorems, TLAPS

-----------------------------------------------------------------------------
(* Operators *)

LEMMA MergeType ==
  ASSUME TypeOK, NEW m \in Messages
  PROVE  Merge(book.levels, m) \in Books
<1>1. m.final \in 0..head /\ book.levels \in Books
  BY DEF TypeOK, LocalBooks, Messages
<1>2. venue[m.final] \in Books
  BY <1>1 DEF TypeOK
<1> QED
  BY <1>1, <1>2 DEF Merge, Books

\* An id that is the one a delta carries, or stays.
LEMMA LastAfterType ==
  ASSUME TypeOK, NEW m \in Messages
  PROVE  /\ LastAfter(book, m) \in {NoId} \union (0..head)
         /\ book.last # NoId => LastAfter(book, m) # NoId
<1>1. m.final \in 0..head /\ m.final # NoId
  BY DEF TypeOK, Messages, NoId
<1> QED
  BY <1>1 DEF LastAfter, TypeOK, LocalBooks

LEMMA UpdatedType ==
  ASSUME TypeOK, NEW m \in Messages, NEW crossed \in BOOLEAN
  PROVE  /\ Updated(book, m, crossed) \in LocalBooks
         /\ Updated(book, m, crossed).anchored = book.anchored
         /\ book.last # NoId => Updated(book, m, crossed).last # NoId
<1>1. Merge(book.levels, m) \in Books
  BY MergeType
<1>2. /\ LastAfter(book, m) \in {NoId} \union (0..head)
      /\ book.last # NoId => LastAfter(book, m) # NoId
  BY LastAfterType
<1>3. book \in LocalBooks
  BY DEF TypeOK
<1>4. CASE Verdict(book, m) = "APPLIED"
  <2>1. Updated(book, m, crossed) =
          [book EXCEPT !.levels = Merge(@, m), !.last = LastAfter(book, m),
                       !.resync = crossed]
    BY <1>4 DEF Updated
  <2> QED
    BY <1>1, <1>2, <1>3, <2>1 DEF LocalBooks
<1>5. CASE Verdict(book, m) = "GAP"
  BY <1>3, <1>5 DEF Updated, LocalBooks
<1>6. CASE Verdict(book, m) \notin {"APPLIED", "GAP"}
  BY <1>3, <1>6 DEF Updated
<1> QED
  BY <1>4, <1>5, <1>6

LEMMA CrossedType ==
  ASSUME NEW levels, NEW v, NEW crossed \in CrossedOutcomes(levels, v)
  PROVE  crossed \in BOOLEAN
BY DEF CrossedOutcomes

LEMMA SnapshotType ==
  ASSUME TypeOK, NEW s \in Snapshots
  PROVE  /\ SnapshotBook(s) \in LocalBooks
         /\ SnapshotBook(s).anchored => SnapshotBook(s).last # NoId
<1>1. s.version \in 0..head /\ s.numbered \in BOOLEAN /\ s.version # NoId
  BY DEF Snapshots, TypeOK, NoId
<1>2. venue[s.version] \in Books
  BY <1>1 DEF TypeOK
<1>3. UpdateId(s) \in {NoId} \union (0..head) /\ (s.numbered => UpdateId(s) # NoId)
  BY <1>1 DEF UpdateId
<1>4. (s.version \in CrossedVersions) \in BOOLEAN
  OBVIOUS
<1> QED
  BY <1>1, <1>2, <1>3, <1>4 DEF SnapshotBook, LocalBooks

LEMMA SnapshotIsOne ==
  ASSUME TypeOK, NEW v \in 0..head, NEW n \in BOOLEAN, n \/ OmitsSnapshotIds
  PROVE  /\ Snapshot(v, n) \in Snapshots
         /\ Snapshot(v, n).version = v /\ Snapshot(v, n).numbered = n
BY DEF Snapshot, Snapshots

LEMMA EmptyBuffer == <<>> \in Seq(Messages) /\ Len(<<>>) <= MaxBuffer
<1>1. <<>> \in Seq(Messages) /\ Len(<<>>) = 0
  BY EmptySeq
<1>2. MaxBuffer \in Nat
  BY ConstantsAssumption
<1> QED
  BY <1>1, <1>2

LEMMA SameMessages ==
  head' = head => /\ Messages' = Messages /\ Snapshots' = Snapshots
                  /\ LocalBooks' = LocalBooks
BY DEF Messages, Snapshots, LocalBooks, Books

BookType(b) == b \in LocalBooks /\ (b.anchored => b.last # NoId)

-----------------------------------------------------------------------------
(* Type correctness *)

LEMMA DeltaType ==
  ASSUME TypeOK, NEW k \in 1..head, NEW n \in BOOLEAN, cursor <= k, n \/ OmitsIds
  PROVE  Delta(cursor, k, n) \in Messages
BY DEF Delta, Messages, TypeOK

LEMMA TypeInit == Init => TypeOK
<1>1. <<>> \in Seq(Messages) /\ Len(<<>>) <= MaxBuffer
  BY EmptyBuffer
<1>2. 0..0 = {0}
  OBVIOUS
<1>3. Init => venue \in [0..head -> Books] /\ head \in Nat
  BY <1>2 DEF Init, Books
<1>4. Init => book \in LocalBooks /\ ~book.anchored
  BY <1>2 DEF Init, LocalBooks, Books, NoId
<1>5. Init => cursor \in 1..(head + 1) /\ rest = {} /\ faults \in Nat
  BY DEF Init
<1>7. Init => /\ state \in {"BUFFERING", "SYNCED", "FAILED"}
              /\ firstBuffered = NoId /\ replaying \in BOOLEAN
  BY Zenon DEF Init
<1>6. Init => buffer = <<>> /\ pending = <<>>
  BY DEF Init
<1> QED
  BY <1>1, <1>3, <1>4, <1>5, <1>6, <1>7 DEF TypeOK

LEMMA TypeLiveDelta ==
  ASSUME TypeOK, NEW m \in Messages, LiveDelta(m), head' = head
  PROVE  /\ state' \in {"BUFFERING", "SYNCED", "FAILED"}
         /\ buffer' \in Seq(Messages) /\ Len(buffer') <= MaxBuffer
         /\ firstBuffered' \in {NoId} \union Nat
         /\ BookType(book')
<1>1. PICK crossed \in CrossedOutcomes(Merge(book.levels, m), m.final) :
        /\ book' = Updated(book, m, crossed)
        /\ IF ResyncRequired(book, m, crossed)
             THEN EnterBuffering
             ELSE UNCHANGED <<state, buffer, firstBuffered>>
  BY DEF LiveDelta
<1>2. crossed \in BOOLEAN
  BY CrossedType
<1>3. BookType(book')
  BY <1>1, <1>2, UpdatedType DEF BookType, TypeOK
<1> QED
  BY <1>1, <1>3, EmptyBuffer, ConstantsAssumption
  DEF TypeOK, EnterBuffering, ClearBuffer

LEMMA TypeBufferDelta ==
  ASSUME TypeOK, NEW m \in Messages, BufferDelta(m), head' = head
  PROVE  /\ state' \in {"BUFFERING", "SYNCED", "FAILED"}
         /\ buffer' \in Seq(Messages) /\ Len(buffer') <= MaxBuffer
         /\ firstBuffered' \in {NoId} \union Nat
         /\ book' = book
<1>1. CASE Len(buffer) >= MaxBuffer
  BY <1>1, EmptyBuffer, ConstantsAssumption
  DEF BufferDelta, Fail, ClearBuffer, TypeOK
<1>2. CASE ~(Len(buffer) >= MaxBuffer)
  <2>1. buffer' = Append(buffer, m) /\ UNCHANGED state /\ book' = book
    BY <1>2 DEF BufferDelta
  <2>2. buffer' \in Seq(Messages) /\ Len(buffer') = Len(buffer) + 1
    BY <2>1, AppendProperties DEF TypeOK
  <2>3. Len(buffer') <= MaxBuffer
    BY <1>2, <2>2, LenProperties, ConstantsAssumption DEF TypeOK
  <2>4. firstBuffered' \in {NoId} \union Nat
    BY <1>2 DEF BufferDelta, BufferedId, TypeOK, Messages
  <2> QED
    BY <2>1, <2>2, <2>3, <2>4 DEF TypeOK
<1> QED
  BY <1>1, <1>2

LEMMA TypeNext == TypeOK /\ [Next]_vars => TypeOK'
<1> SUFFICES ASSUME TypeOK, [Next]_vars PROVE TypeOK'
  OBVIOUS
<1> USE ConstantsAssumption
<1>0. BookType(book)
  BY DEF TypeOK, BookType
<1>1. ASSUME NEW touched \in SUBSET Levels \ {{}}, Publish(touched)
      PROVE  TypeOK'
  <2>1. Messages \subseteq Messages' /\ Snapshots \subseteq Snapshots'
    BY <1>1 DEF Publish, Messages, Snapshots, TypeOK
  <2>2. buffer' \in Seq(Messages') /\ pending' \in Seq(Messages')
    BY <1>1, <2>1, SeqMonotonic DEF Publish, syncVars, TypeOK
  <2>3. head' \in Nat /\ venue' \in [0..head' -> Books]
    BY <1>1 DEF Publish, TypeOK, Books
  <2>4. book' \in LocalBooks' /\ (book'.anchored => book'.last # NoId)
    BY <1>1 DEF Publish, TypeOK, LocalBooks, Books
  <2>5. rest' \in SUBSET Snapshots' /\ \A s, t \in rest' : s = t
    BY <1>1, <2>1 DEF Publish, TypeOK
  <2> QED
    BY <1>1, <2>2, <2>3, <2>4, <2>5 DEF Publish, syncVars, TypeOK, NoId, Books
<1>a. ASSUME head' = head, venue' = venue, BookType(book'),
             cursor' \in 1..(head + 1), faults' \in Nat,
             rest' \in SUBSET Snapshots, \A s, t \in rest' : s = t,
             state' \in {"BUFFERING", "SYNCED", "FAILED"},
             buffer' \in Seq(Messages), Len(buffer') <= MaxBuffer,
             firstBuffered' \in {NoId} \union Nat,
             replaying' \in BOOLEAN,
             pending' \in Seq(Messages), Len(pending') <= MaxBuffer
      PROVE  TypeOK'
  BY <1>a, SameMessages DEF TypeOK, BookType, Books
<1>2. ASSUME NEW k \in 1..head, NEW n \in BOOLEAN, ObserveDelta(k, n)
      PROVE  TypeOK'
  <2> DEFINE m == Delta(cursor, k, n)
  <2>1. m \in Messages
    BY <1>2, DeltaType DEF ObserveDelta
  <2>2. UNCHANGED <<venue, head, rest, faults, replaying, pending>> /\ cursor' = k + 1
    BY <1>2 DEF ObserveDelta, venueVars
  <2>3. CASE LiveDelta(m)
    BY <1>a, <2>1, <2>2, <2>3, TypeLiveDelta DEF TypeOK
  <2>4. CASE BufferDelta(m)
    BY <1>0, <1>a, <2>1, <2>2, <2>4, TypeBufferDelta DEF TypeOK
  <2> QED
    BY <1>2, <2>3, <2>4 DEF ObserveDelta
<1>3. ASSUME NEW n \in BOOLEAN, ObserveSnapshot(n)
      PROVE  TypeOK'
  <2>1. UNCHANGED <<venue, head, rest, faults, replaying, pending>> /\ cursor' = head + 1
    BY <1>3 DEF ObserveSnapshot, venueVars
  <2>2. BookType(book')
    BY <1>3, SnapshotType, SnapshotIsOne DEF ObserveSnapshot, TypeOK, BookType
  <2>3. /\ state' \in {"BUFFERING", "SYNCED", "FAILED"}
        /\ buffer' \in Seq(Messages) /\ Len(buffer') <= MaxBuffer
        /\ firstBuffered' \in {NoId} \union Nat
    BY <1>3, EmptyBuffer
    DEF ObserveSnapshot, EnterBuffering, EnterSynced, ClearBuffer, TypeOK
  <2> QED
    BY <1>a, <2>1, <2>2, <2>3 DEF TypeOK
<1>4. ASSUME NEW v \in 0..head, NEW n \in BOOLEAN, RequestSnapshot(v, n)
      PROVE  TypeOK'
  <2>1. rest' = {Snapshot(v, n)} /\ Snapshot(v, n) \in Snapshots
    BY <1>4, SnapshotIsOne DEF RequestSnapshot
  <2>2. UNCHANGED <<venue, head, cursor, faults, syncVars, book>>
    BY <1>4 DEF RequestSnapshot, venueVars
  <2> QED
    BY <1>0, <1>a, <2>1, <2>2 DEF syncVars, TypeOK
<1>5. CASE ApplyRestSnapshot
  <2>1. UNCHANGED <<venue, head, cursor, faults>> /\ rest' = {}
    BY <1>5 DEF ApplyRestSnapshot, venueVars
  <2>2. PICK s \in rest :
          \/ /\ ~SnapshotReachesBuffer(s)
             /\ UNCHANGED <<syncVars, book>>
          \/ /\ SnapshotReachesBuffer(s)
             /\ book' = SnapshotBook(s)
             /\ IF s.version \in CrossedVersions
                  THEN Fail /\ UNCHANGED <<replaying, pending>>
                  ELSE /\ replaying' = TRUE
                       /\ pending' = buffer
                       /\ buffer' = <<>>
                       /\ UNCHANGED <<state, firstBuffered>>
    BY <1>5 DEF ApplyRestSnapshot
  <2>3. CASE UNCHANGED <<syncVars, book>>
    BY <1>0, <1>a, <2>1, <2>3 DEF syncVars, TypeOK
  <2>4. CASE SnapshotReachesBuffer(s)
    <3>1. BookType(book')
      BY <2>2, <2>4, SnapshotType DEF TypeOK, BookType
    <3>2. /\ state' \in {"BUFFERING", "SYNCED", "FAILED"}
          /\ buffer' \in Seq(Messages) /\ Len(buffer') <= MaxBuffer
          /\ firstBuffered' \in {NoId} \union Nat
          /\ replaying' \in BOOLEAN
          /\ pending' \in Seq(Messages) /\ Len(pending') <= MaxBuffer
      BY <2>2, <2>4, EmptyBuffer DEF Fail, ClearBuffer, TypeOK
    <3> QED
      BY <1>a, <2>1, <3>1, <3>2 DEF TypeOK
  <2> QED
    BY <2>2, <2>3, <2>4
<1>6. CASE ReplayNext
  <2> DEFINE m == Head(pending)
  <2>1. UNCHANGED <<venue, head, cursor, rest, faults>>
    BY <1>6 DEF ReplayNext, venueVars
  <2>2. /\ m \in Messages
        /\ Tail(pending) \in Seq(Messages) /\ Len(Tail(pending)) = Len(pending) - 1
    BY <1>6, HeadTailProperties DEF ReplayNext, TypeOK
  <2>3. PICK crossed \in CrossedOutcomes(Merge(book.levels, m), m.final) :
          /\ book' = Updated(book, m, crossed)
          /\ IF ResyncRequired(book, m, crossed)
               THEN Fail /\ pending' = <<>> /\ replaying' = FALSE
               ELSE /\ pending' = Tail(pending)
                    /\ UNCHANGED <<state, buffer, firstBuffered, replaying>>
    BY <1>6 DEF ReplayNext
  <2>4. BookType(book')
    BY <2>2, <2>3, CrossedType, UpdatedType DEF BookType, TypeOK
  <2>5. /\ state' \in {"BUFFERING", "SYNCED", "FAILED"}
        /\ buffer' \in Seq(Messages) /\ Len(buffer') <= MaxBuffer
        /\ firstBuffered' \in {NoId} \union Nat
        /\ replaying' \in BOOLEAN
        /\ pending' \in Seq(Messages) /\ Len(pending') <= MaxBuffer
    <3>1. Len(pending) \in Nat /\ Len(pending) <= MaxBuffer /\ MaxBuffer \in Nat
      BY LenProperties DEF TypeOK
    <3>2. CASE ResyncRequired(book, m, crossed)
      BY <2>3, <3>2, EmptyBuffer DEF Fail, ClearBuffer, TypeOK
    <3>3. CASE ~ResyncRequired(book, m, crossed)
      <4>1. pending' = Tail(pending) /\ UNCHANGED <<state, buffer, firstBuffered, replaying>>
        BY <2>3, <3>3
      <4>2. Len(pending') <= MaxBuffer
        BY <2>2, <3>1, <4>1
      <4> QED
        BY <2>2, <4>1, <4>2 DEF TypeOK
    <3> QED
      BY <3>2, <3>3
  <2> QED
    BY <1>a, <2>1, <2>4, <2>5 DEF TypeOK
<1>7. CASE ReplayEnd
  BY <1>0, <1>7, <1>a, EmptyBuffer
  DEF ReplayEnd, EnterSynced, ClearBuffer, venueVars, TypeOK
<1>8. CASE Restart
  <2>1. /\ UNCHANGED <<venue, head, rest, replaying, pending>>
        /\ faults' \in Nat /\ cursor' \in 1..(head + 1)
    BY <1>8 DEF Restart, venueVars, TypeOK
  <2>2. /\ state' = "BUFFERING" /\ buffer' = <<>> /\ firstBuffered' = NoId
    BY <1>8 DEF Restart, EnterBuffering, ClearBuffer
  <2>3. BookType(book')
    BY <1>8 DEF Restart, TypeOK, BookType, LocalBooks
  <2> QED
    BY <1>a, <2>1, <2>2, <2>3, EmptyBuffer DEF TypeOK
<1>9. ASSUME NEW next \in 1..(head + 1), StreamDisturbed(next)
      PROVE  TypeOK'
  BY <1>0, <1>9, <1>a DEF StreamDisturbed, venueVars, syncVars, TypeOK
<1>10. CASE UNCHANGED vars
  BY <1>0, <1>10, <1>a DEF vars, venueVars, syncVars, TypeOK
<1> QED
  BY <1>1, <1>2, <1>3, <1>4, <1>5, <1>6, <1>7, <1>8, <1>9, <1>10 DEF Next

\* The types of the subsystem's state, the limits of its message lists, and
\* that no id it keeps is beyond what the venue issued.
THEOREM TypeCorrect == Spec => []TypeOK
<1>1. Init => TypeOK
  BY TypeInit
<1>2. TypeOK /\ [Next]_vars => TypeOK'
  BY TypeNext
<1> QED
  BY <1>1, <1>2, PTL DEF Spec

-----------------------------------------------------------------------------
(* A ready book is the venue's book *)

LEMMA HistoryInit == Init => History
<1> SUFFICES ASSUME Init PROVE History
  OBVIOUS
<1>1. 0..head = {0}
  BY DEF Init
<1>2. \A l \in Levels : venue[0][l] = 0
  BY DEF Init
<1> QED
  BY <1>1, <1>2 DEF History

LEMMA HistoryNext == TypeOK /\ History /\ [Next]_vars => History'
<1> SUFFICES ASSUME TypeOK, History, [Next]_vars PROVE History'
  OBVIOUS
<1>1. ASSUME NEW touched \in SUBSET Levels \ {{}}, Publish(touched)
      PROVE  History'
  <2> SUFFICES ASSUME NEW a \in 0..(head + 1), NEW b \in 0..(head + 1), a <= b,
                      NEW l \in Levels
               PROVE  /\ venue'[a][l] <= a
                      /\ venue'[b][l] <= a => venue'[a][l] = venue'[b][l]
    BY <1>1 DEF Publish, History
  <2>1. head \in Nat
    BY DEF TypeOK
  <2>2. \A v \in 0..head : venue'[v] = venue[v]
    BY <1>1, <2>1 DEF Publish
  <2>3. venue'[head + 1][l] = head + 1 \/ venue'[head + 1][l] = venue[head][l]
    BY <1>1, <2>1 DEF Publish
  <2>4. venue[head][l] <= head /\ venue[head][l] \in Nat
    BY <2>1 DEF History, TypeOK, Books
  <2>5. CASE b <= head
    BY <2>1, <2>2, <2>5 DEF History
  <2>6. CASE a <= head /\ b = head + 1
    <3>1. /\ venue[a][l] <= a
          /\ venue[head][l] <= a => venue[a][l] = venue[head][l]
      BY <2>1, <2>6 DEF History
    <3> QED
      BY <2>1, <2>2, <2>3, <2>6, <3>1
  <2>7. CASE a = head + 1 /\ b = head + 1
    BY <2>1, <2>3, <2>4, <2>7
  <2> QED
    BY <2>1, <2>5, <2>6, <2>7
<1>2. CASE UNCHANGED <<venue, head>>
  BY <1>2 DEF History
<1>3. (\A touched \in SUBSET Levels \ {{}} : ~Publish(touched)) => UNCHANGED <<venue, head>>
  BY DEF Next, vars, venueVars, ObserveDelta, ObserveSnapshot, RequestSnapshot,
         ApplyRestSnapshot, ReplayNext, ReplayEnd, Restart, StreamDisturbed
<1> QED
  BY <1>1, <1>2, <1>3

LEMMA ContinuesCovers ==
  ASSUME GapDetecting, TypeOK, book.last # NoId, NEW m \in Messages,
         Continues(book, m)
  PROVE  m.first <= book.last + 1 /\ book.last < m.final
<1>1. /\ m.first \in Nat /\ m.final \in Nat /\ m.first <= m.final
      /\ book.last \in Nat
  BY DEF Messages, TypeOK, LocalBooks
<1>2. ~Unchecked(book)
  BY DEF Unchecked, GapDetecting
<1>3. CASE Mode = "RANGE"
  BY <1>1, <1>2, <1>3 DEF Continues
<1>4. CASE Mode = "PREVIOUS_MATCH"
  BY <1>1, <1>2, <1>4 DEF Continues
<1>5. CASE Mode = "STRICT_INCREMENT"
  BY <1>1, <1>2, <1>5 DEF Continues
<1> QED
  BY <1>3, <1>4, <1>5 DEF GapDetecting

\* Absolute changes that start no later than the next update and end beyond
\* the last one turn the venue's book at last into its book at final.
LEMMA MergeReachesVenue ==
  ASSUME TypeOK, History, book.last # NoId, NEW m \in Messages,
         m.first <= book.last + 1, book.last < m.final,
         book.levels = venue[book.last]
  PROVE  Merge(book.levels, m) = venue[m.final]
<1>1. /\ book.last \in 0..head /\ m.final \in 0..head /\ m.first \in Nat
      /\ head \in Nat
  BY DEF TypeOK, Messages, LocalBooks
<1>2. venue[m.final] \in Books /\ venue[book.last] \in Books
  BY <1>1 DEF TypeOK
<1>3. ASSUME NEW l \in Levels, ~(venue[m.final][l] >= m.first)
      PROVE  book.levels[l] = venue[m.final][l]
  <2>1. venue[m.final][l] \in Nat
    BY <1>2 DEF Books
  <2>2. venue[m.final][l] <= book.last
    BY <1>1, <1>3, <2>1
  <2> QED
    BY <1>1, <2>2 DEF History
<1>4. Merge(book.levels, m) = [l \in Levels |-> venue[m.final][l]]
  BY <1>3 DEF Merge
<1> QED
  BY <1>2, <1>4 DEF Books

LEMMA UpdatedMirrors ==
  ASSUME GapDetecting, TypeOK, History, Mirror, ReadyIsNotCrossed,
         NEW m \in Messages,
         NEW crossed \in CrossedOutcomes(Merge(book.levels, m), m.final),
         NEW nb, nb = Updated(book, m, crossed),
         nb.ready, ~nb.resync, nb.anchored
  PROVE  /\ IsReady /\ book.anchored
         /\ nb.levels = venue[nb.last] /\ nb.last \notin CrossedVersions
         /\ nb.last >= book.last
<1>1. book \in LocalBooks /\ (book.anchored => book.last # NoId)
  BY DEF TypeOK
<1>a. book.anchored /\ book.last # NoId /\ book.last \in Nat
  BY <1>1, UpdatedType, CrossedType DEF LocalBooks
<1>2. CASE Verdict(book, m) = "APPLIED"
  <2>1. IsReady /\ Continues(book, m) /\ ~Misnumbered(book, m)
    BY <1>2 DEF Verdict, IsReady
  <2>2. m.first <= book.last + 1 /\ book.last < m.final
    BY <1>a, <2>1, ContinuesCovers
  <2>3. Merge(book.levels, m) = venue[m.final]
    BY <1>a, <2>1, <2>2, MergeReachesVenue DEF Mirror
  <2>4. crossed = (m.final \in CrossedVersions)
    BY <2>3 DEF CrossedOutcomes
  <2>9. LastAfter(book, m) = m.final
    BY <1>a, <2>1 DEF Misnumbered, Unchecked, GapDetecting, LastAfter
  <2>10. nb = [book EXCEPT !.levels = Merge(@, m), !.last = LastAfter(book, m),
                           !.resync = crossed]
    BY <1>2 DEF Updated
  <2>5. nb.levels = venue[m.final] /\ nb.last = m.final /\ nb.resync = crossed
    BY <1>1, <2>3, <2>9, <2>10 DEF LocalBooks
  <2>6. m.final \in Nat
    BY DEF Messages
  <2>7. m.final \notin CrossedVersions
    BY <2>4, <2>5, Zenon
  <2>8. m.final >= book.last
    BY <1>a, <2>2, <2>6
  <2> QED
    BY <1>a, <2>1, <2>5, <2>7, <2>8
<1>3. CASE Verdict(book, m) = "GAP"
  <2>1. nb = [book EXCEPT !.resync = TRUE]
    BY <1>3 DEF Updated
  <2> QED
    BY <1>1, <2>1 DEF LocalBooks
<1>4. CASE Verdict(book, m) \notin {"APPLIED", "GAP"}
  <2>1. nb = book
    BY <1>4 DEF Updated
  <2> QED
    BY <1>1, <1>a, <2>1 DEF IsReady, Mirror, ReadyIsNotCrossed
<1> QED
  BY <1>2, <1>3, <1>4

-----------------------------------------------------------------------------
(* Book and synchroniser agree *)

LEMMA UpdatedAgrees ==
  ASSUME TypeOK, ~OmitsIds, IsReady, NEW m \in Messages, NEW crossed \in BOOLEAN,
         NEW nb, nb = Updated(book, m, crossed)
  PROVE  nb.ready /\ (nb.resync <=> ResyncRequired(book, m, crossed))
<1>1. book \in LocalBooks
  BY DEF TypeOK
<1>2. m.numbered
  BY DEF Messages
<1>3. Verdict(book, m) \in {"APPLIED", "IGNORED", "GAP"}
  BY <1>2 DEF IsReady, Verdict, Misnumbered
<1>4. CASE Verdict(book, m) = "APPLIED"
  <2>0. nb = [book EXCEPT !.levels = Merge(@, m), !.last = LastAfter(book, m),
                          !.resync = crossed]
    BY <1>4 DEF Updated
  <2>1. nb.ready = book.ready /\ nb.resync = crossed
    BY <1>1, <2>0 DEF LocalBooks
  <2>2. ResyncRequired(book, m, crossed) <=> crossed
    BY <1>4 DEF ResyncRequired
  <2> QED
    BY <2>1, <2>2, Zenon DEF IsReady
<1>5. CASE Verdict(book, m) = "GAP"
  <2>1. nb.ready = book.ready /\ nb.resync = TRUE
    BY <1>1, <1>5 DEF Updated, LocalBooks
  <2> QED
    BY <2>1, <1>5 DEF IsReady, ResyncRequired
<1>6. CASE Verdict(book, m) = "IGNORED"
  <2>1. nb = book
    BY <1>6 DEF Updated
  <2> QED
    BY <2>1, <1>6 DEF IsReady, ResyncRequired
<1> QED
  BY <1>3, <1>4, <1>5, <1>6

LEMMA AgreementInit == Init => Control /\ ReadyAgreesWithSynced
BY DEF Init, Control, ReadyAgreesWithSynced, IsReady, NoId

LEMMA AgreementNext ==
  ~OmitsIds /\ TypeOK /\ Control /\ ReadyAgreesWithSynced /\ [Next]_vars
    => Control' /\ ReadyAgreesWithSynced'
<1> SUFFICES ASSUME ~OmitsIds, TypeOK, Control, ReadyAgreesWithSynced, [Next]_vars
             PROVE  Control' /\ ReadyAgreesWithSynced'
  OBVIOUS
<1> USE DEF Control, ReadyAgreesWithSynced
<1>1. ASSUME NEW touched \in SUBSET Levels \ {{}}, Publish(touched)
      PROVE  Control' /\ ReadyAgreesWithSynced'
  BY <1>1 DEF Publish, syncVars, IsReady
<1>2. ASSUME NEW k \in 1..head, NEW n \in BOOLEAN, ObserveDelta(k, n)
      PROVE  Control' /\ ReadyAgreesWithSynced'
  <2> DEFINE m == Delta(cursor, k, n)
  <2>1. m \in Messages
    BY <1>2, DeltaType DEF ObserveDelta
  <2>2. ~replaying /\ UNCHANGED <<rest, replaying>>
    BY <1>2 DEF ObserveDelta
  <2>3. CASE LiveDelta(m)
    <3>1. state = "SYNCED" /\ IsReady
      BY <2>3 DEF LiveDelta
    <3>2. PICK crossed \in CrossedOutcomes(Merge(book.levels, m), m.final) :
            /\ book' = Updated(book, m, crossed)
            /\ IF ResyncRequired(book, m, crossed)
                 THEN EnterBuffering
                 ELSE UNCHANGED <<state, buffer, firstBuffered>>
      BY <2>3 DEF LiveDelta
    <3>3. book'.ready /\ (book'.resync <=> ResyncRequired(book, m, crossed))
      BY <2>1, <3>1, <3>2, CrossedType, UpdatedAgrees
    <3> QED
      BY <2>2, <3>1, <3>2, <3>3 DEF EnterBuffering, IsReady
  <2>4. CASE BufferDelta(m)
    BY <2>2, <2>4 DEF BufferDelta, Fail, IsReady
  <2> QED
    BY <1>2, <2>3, <2>4 DEF ObserveDelta
<1>3. ASSUME NEW n \in BOOLEAN, ObserveSnapshot(n)
      PROVE  Control' /\ ReadyAgreesWithSynced'
  <2>1. ~replaying /\ rest = {} /\ UNCHANGED <<rest, replaying>>
    BY <1>3 DEF ObserveSnapshot
  <2>2. IsReady' <=> head \notin CrossedVersions
    BY <1>3 DEF ObserveSnapshot, SnapshotBook, Snapshot, IsReady
  <2>3. state' = "SYNCED" <=> head \notin CrossedVersions
    BY <1>3, <2>1 DEF ObserveSnapshot, EnterBuffering, EnterSynced
  <2> QED
    BY <2>1, <2>2, <2>3
<1>4. ASSUME NEW v \in 0..head, NEW n \in BOOLEAN, RequestSnapshot(v, n)
      PROVE  Control' /\ ReadyAgreesWithSynced'
  BY <1>4 DEF RequestSnapshot, syncVars, IsReady
<1>5. CASE ApplyRestSnapshot
  <2>1. ~replaying /\ rest' = {} /\ rest # {}
    BY <1>5 DEF ApplyRestSnapshot
  <2>4. state # "SYNCED"
    BY <2>1
  <2>2. PICK s \in rest :
          \/ /\ ~SnapshotReachesBuffer(s)
             /\ UNCHANGED <<syncVars, book>>
          \/ /\ SnapshotReachesBuffer(s)
             /\ book' = SnapshotBook(s)
             /\ IF s.version \in CrossedVersions
                  THEN Fail /\ UNCHANGED <<replaying, pending>>
                  ELSE /\ replaying' = TRUE
                       /\ pending' = buffer
                       /\ buffer' = <<>>
                       /\ UNCHANGED <<state, firstBuffered>>
    BY <1>5 DEF ApplyRestSnapshot
  <2>3. CASE UNCHANGED <<syncVars, book>>
    BY <2>1, <2>3, <2>4 DEF syncVars, IsReady
  <2>5. CASE SnapshotReachesBuffer(s)
    <3>0. book' = SnapshotBook(s)
      BY <2>2, <2>5 DEF SnapshotBook
    <3>1. IsReady' <=> s.version \notin CrossedVersions
      BY <3>0 DEF SnapshotBook, IsReady
    <3> QED
      BY <2>1, <2>2, <2>4, <2>5, <3>1 DEF Fail, IsReady
  <2> QED
    BY <2>2, <2>3, <2>5
<1>6. CASE ReplayNext
  <2> DEFINE m == Head(pending)
  <2>1. m \in Messages
    BY <1>6, HeadTailProperties DEF ReplayNext, TypeOK
  <2>2. replaying /\ IsReady /\ state # "SYNCED" /\ rest = {} /\ rest' = rest
    BY <1>6 DEF ReplayNext
  <2>3. PICK crossed \in CrossedOutcomes(Merge(book.levels, m), m.final) :
          /\ book' = Updated(book, m, crossed)
          /\ IF ResyncRequired(book, m, crossed)
               THEN Fail /\ pending' = <<>> /\ replaying' = FALSE
               ELSE /\ pending' = Tail(pending)
                    /\ UNCHANGED <<state, buffer, firstBuffered, replaying>>
    BY <1>6 DEF ReplayNext
  <2>4. book'.ready /\ (book'.resync <=> ResyncRequired(book, m, crossed))
    BY <2>1, <2>2, <2>3, CrossedType, UpdatedAgrees
  <2> QED
    BY <2>2, <2>3, <2>4 DEF Fail, IsReady
<1>7. CASE ReplayEnd
  BY <1>7 DEF ReplayEnd, EnterSynced, IsReady
<1>8. CASE Restart
  <2>1. ~replaying' /\ rest' = rest /\ state' = "BUFFERING"
    BY <1>8 DEF Restart, EnterBuffering
  <2>2. ~IsReady'
    BY <1>8 DEF Restart, IsReady, TypeOK, LocalBooks
  <2> QED
    BY <1>8, <2>1, <2>2 DEF Restart
<1>9. ASSUME NEW next \in 1..(head + 1), StreamDisturbed(next)
      PROVE  Control' /\ ReadyAgreesWithSynced'
  BY <1>9 DEF StreamDisturbed, syncVars, IsReady
<1>10. CASE UNCHANGED vars
  BY <1>10 DEF vars, syncVars, IsReady
<1> QED
  BY <1>1, <1>2, <1>3, <1>4, <1>5, <1>6, <1>7, <1>8, <1>9, <1>10 DEF Next

\* Pricing reads the book, the stream is fed through the synchroniser: a ready
\* book is one whose synchroniser forwards deltas, and conversely, provided
\* every delta carries the id its mode checks.
THEOREM Agreement ==
  ASSUME ~OmitsIds
  PROVE  Spec => []ReadyAgreesWithSynced
<1>1. Init => TypeOK /\ Control /\ ReadyAgreesWithSynced
  BY TypeInit, AgreementInit
<1>2. TypeOK /\ Control /\ ReadyAgreesWithSynced /\ [Next]_vars
        => TypeOK' /\ Control' /\ ReadyAgreesWithSynced'
  BY TypeNext, AgreementNext
<1> QED
  BY <1>1, <1>2, PTL DEF Spec

-----------------------------------------------------------------------------
(* What is shown *)

\* A step that leaves the book ready leaves it on a version of the venue, and
\* moves it only forwards if it was ready before.
LEMMA ReadyStep ==
  ASSUME GapDetecting, TypeOK, History, Control, ReadyAgreesWithSynced, Mirror,
         ReadyIsNotCrossed, [Next]_vars, IsReady', book'.anchored
  PROVE  /\ book'.levels = venue'[book'.last]
         /\ book'.last \notin CrossedVersions
         /\ book'.last \in 0..head
         /\ IsReady /\ book.anchored => book'.last >= book.last
         /\ book' # book => UNCHANGED <<venue, head>>
<1> DEFINE Goal == /\ book'.levels = venue'[book'.last]
                   /\ book'.last \notin CrossedVersions
                   /\ book'.last \in 0..head
                   /\ IsReady /\ book.anchored => book'.last >= book.last
                   /\ book' # book => UNCHANGED <<venue, head>>
<1>0. /\ book.last \in {NoId} \union (0..head) /\ head \in Nat
      /\ book.anchored => book.last \in 0..head
  BY DEF TypeOK, LocalBooks
<1>1. ASSUME NEW touched \in SUBSET Levels \ {{}}, Publish(touched)
      PROVE  Goal
  <2>1. book' = book /\ (book.anchored => venue'[book.last] = venue[book.last])
    BY <1>0, <1>1 DEF Publish
  <2>2. IsReady /\ book.anchored
    BY <2>1 DEF IsReady
  <2> QED
    BY <1>0, <2>1, <2>2 DEF Mirror, ReadyIsNotCrossed
<1>2. ASSUME UNCHANGED book, UNCHANGED <<venue, head>>
      PROVE  Goal
  BY <1>0, <1>2 DEF IsReady, Mirror, ReadyIsNotCrossed
<1>3. ASSUME NEW m \in Messages,
             NEW crossed \in CrossedOutcomes(Merge(book.levels, m), m.final),
             book' = Updated(book, m, crossed), UNCHANGED <<venue, head>>
      PROVE  Goal
  <2>1. book' \in LocalBooks /\ (book'.anchored => book'.last # NoId)
    BY <1>3, CrossedType, UpdatedType DEF TypeOK
  <2>2. book'.ready /\ ~book'.resync
    BY DEF IsReady
  <2>3. /\ book'.levels = venue[book'.last] /\ book'.last \notin CrossedVersions
        /\ book'.last >= book.last
    BY <1>3, <2>2, UpdatedMirrors
  <2> QED
    BY <1>3, <2>1, <2>3 DEF LocalBooks
<1>4. ASSUME NEW v \in 0..head, NEW n \in BOOLEAN, UNCHANGED <<venue, head>>,
             book' = SnapshotBook(Snapshot(v, n)),
             IsReady => v >= book.last
      PROVE  Goal
  <2>1. /\ book'.resync = (v \in CrossedVersions) /\ book'.last = v
        /\ book'.levels = venue[v]
    BY <1>4 DEF SnapshotBook, Snapshot, UpdateId
  <2>2. ~book'.resync
    BY DEF IsReady
  <2>3. v \notin CrossedVersions
    BY <2>1, <2>2, Zenon
  <2> QED
    BY <1>4, <2>1, <2>3
<1>5. ASSUME NEW k \in 1..head, NEW n \in BOOLEAN, ObserveDelta(k, n)
      PROVE  Goal
  <2>1. Delta(cursor, k, n) \in Messages
    BY <1>5, DeltaType DEF ObserveDelta
  <2>2. UNCHANGED <<venue, head>>
    BY <1>5 DEF ObserveDelta, venueVars
  <2> QED
    BY <1>2, <1>3, <1>5, <2>1, <2>2 DEF ObserveDelta, LiveDelta, BufferDelta
<1>6. ASSUME NEW n \in BOOLEAN, ObserveSnapshot(n)
      PROVE  Goal
  <2>1. book' = SnapshotBook(Snapshot(head, n)) /\ UNCHANGED <<venue, head>>
    BY <1>6 DEF ObserveSnapshot, venueVars
  <2>2. head >= book.last /\ head \in 0..head
    BY <1>0 DEF NoId
  <2> QED
    BY <1>4, <2>1, <2>2
<1>7. CASE ApplyRestSnapshot
  <2>1. ~IsReady /\ UNCHANGED <<venue, head>>
    BY <1>7 DEF ApplyRestSnapshot, Control, ReadyAgreesWithSynced, venueVars
  <2>2. PICK s \in rest : book' = SnapshotBook(s) \/ UNCHANGED book
    BY <1>7 DEF ApplyRestSnapshot
  <2>3. s.version \in 0..head /\ s.numbered \in BOOLEAN /\ s = Snapshot(s.version, s.numbered)
    BY DEF TypeOK, Snapshots, Snapshot
  <2> QED
    BY <1>2, <1>4, <2>1, <2>2, <2>3
<1>8. CASE ReplayNext
  <2>1. Head(pending) \in Messages
    BY <1>8, HeadTailProperties DEF ReplayNext, TypeOK
  <2>2. UNCHANGED <<venue, head>>
    BY <1>8 DEF ReplayNext, venueVars
  <2> QED
    BY <1>3, <1>8, <2>1, <2>2 DEF ReplayNext
<1>9. CASE Restart
  BY <1>9 DEF Restart, IsReady, TypeOK, LocalBooks
<1>10. ASSUME NEW v \in 0..head, NEW n \in BOOLEAN, RequestSnapshot(v, n)
       PROVE  Goal
  BY <1>2, <1>10 DEF RequestSnapshot, venueVars
<1>11. CASE ReplayEnd
  BY <1>2, <1>11 DEF ReplayEnd, venueVars
<1>12. ASSUME NEW next \in 1..(head + 1), StreamDisturbed(next)
       PROVE  Goal
  BY <1>2, <1>12 DEF StreamDisturbed, venueVars
<1>13. CASE UNCHANGED vars
  BY <1>2, <1>13 DEF vars, venueVars
<1> QED
  BY <1>1, <1>5, <1>6, <1>7, <1>8, <1>9, <1>10, <1>11, <1>12, <1>13 DEF Next

IInv == /\ TypeOK /\ History /\ Control
        /\ ReadyAgreesWithSynced /\ Mirror /\ ReadyIsNotCrossed

LEMMA InvariantInit == Init => IInv
<1>1. Init => Mirror /\ ReadyIsNotCrossed
  BY DEF Init, Mirror, ReadyIsNotCrossed, IsReady
<1> QED
  BY <1>1, TypeInit, HistoryInit, AgreementInit DEF IInv

LEMMA InvariantNext ==
  ASSUME GapDetecting, ~OmitsIds
  PROVE  IInv /\ [Next]_vars => IInv'
<1> SUFFICES ASSUME IInv, [Next]_vars PROVE IInv'
  OBVIOUS
<1>1. TypeOK' /\ History' /\ Control' /\ ReadyAgreesWithSynced'
  BY TypeNext, HistoryNext, AgreementNext DEF IInv
<1>2. Mirror' /\ ReadyIsNotCrossed'
  BY ReadyStep DEF IInv, Mirror, ReadyIsNotCrossed
<1> QED
  BY <1>1, <1>2 DEF IInv

\* In every mode that detects gaps, whatever is lost, repeated, delayed or
\* overtaken, a ready book is level by level the book the venue had at the
\* book's last_update_id, and never one the venue published crossed.  Snapshots
\* without an update id may come at any time; what is claimed is claimed of a
\* book from the next numbered snapshot on.
THEOREM MirrorCorrect ==
  ASSUME GapDetecting, ~OmitsIds
  PROVE  Spec => [](Mirror /\ ReadyIsNotCrossed)
<1>1. Init => IInv
  BY InvariantInit
<1>2. IInv /\ [Next]_vars => IInv'
  BY InvariantNext
<1>3. IInv => Mirror /\ ReadyIsNotCrossed
  BY DEF IInv
<1> QED
  BY <1>1, <1>2, <1>3, PTL DEF Spec

\* A book the venue published crossed is not priced, whether a snapshot, a live
\* delta or the replay led to it.
THEOREM NeverPricesCrossed ==
  ASSUME GapDetecting, ~OmitsIds
  PROVE  Spec => []ReadyIsNotCrossed
<1>1. Mirror /\ ReadyIsNotCrossed => ReadyIsNotCrossed
  OBVIOUS
<1> QED
  BY <1>1, MirrorCorrect, PTL

LEMMA RefinementInit == Init => Promise!MirrorInit
<1> SUFFICES ASSUME Init PROVE Promise!MirrorInit
  OBVIOUS
<1>1. venue \in [{0} -> [Levels -> Nat]]
  BY DEF Init
<1>2. shown = Promise!Hidden
  BY DEF Init, shown, IsReady, Promise!Hidden
<1> QED
  BY <1>1, <1>2 DEF Promise!MirrorInit, Promise!Book

LEMMA RefinementNext ==
  ASSUME GapDetecting, IInv, [Next]_vars
  PROVE  [Promise!MirrorNext]_(Promise!mirrorVars)
<1>0. head \in Nat /\ DOMAIN venue = 0..head
  BY DEF IInv, TypeOK
<1>1. ASSUME NEW touched \in SUBSET Levels \ {{}}, Publish(touched)
      PROVE  Promise!VenueMoves
  <2>1. DOMAIN venue' = 0..(head + 1) /\ \A v \in 0..head : venue'[v] = venue[v]
    BY <1>0, <1>1 DEF Publish
  <2>2. shown' = shown
    BY <1>1 DEF Publish, shown, IsReady
  <2> QED
    BY <1>0, <2>1, <2>2 DEF Promise!VenueMoves
<1>2. ASSUME UNCHANGED venue, ~(IsReady' /\ book'.anchored)
      PROVE  Promise!Hide
  BY <1>2 DEF Promise!Hide, Promise!Hidden, shown
<1>3. ASSUME UNCHANGED venue, IsReady', book'.anchored
      PROVE  Promise!Show(book'.last) /\ book'.last \in DOMAIN venue
  <2>1. /\ book'.levels = venue[book'.last]
        /\ book'.last \in 0..head
        /\ IsReady /\ book.anchored => book'.last >= book.last
    BY <1>3, ReadyStep DEF IInv
  <2>2. shown' = Promise!View(book'.last, venue[book'.last])
    BY <1>3, <2>1 DEF shown, Promise!View
  <2>3. shown.visible => IsReady /\ book.anchored /\ shown.at = book.last
    BY DEF shown
  <2> QED
    BY <1>0, <1>3, <2>1, <2>2, <2>3 DEF Promise!Show
<1>4. (\A touched \in SUBSET Levels \ {{}} : ~Publish(touched)) => UNCHANGED venue
  BY DEF Next, vars, venueVars, ObserveDelta, ObserveSnapshot, RequestSnapshot,
         ApplyRestSnapshot, ReplayNext, ReplayEnd, Restart, StreamDisturbed
<1> QED
  BY <1>1, <1>2, <1>3, <1>4 DEF Promise!MirrorNext

\* BookSync implements BookMirror: pricing sees no book, or a version of the
\* venue's book that only moves forwards while it stays visible.
THEOREM Refinement ==
  ASSUME GapDetecting, ~OmitsIds
  PROVE  Spec => ImplementsMirror
<1>1. Init => IInv /\ Promise!MirrorInit
  BY InvariantInit, RefinementInit
<1>2. IInv /\ [Next]_vars => IInv'
  BY InvariantNext
<1>3. IInv /\ [Next]_vars => [Promise!MirrorNext]_(Promise!mirrorVars)
  BY RefinementNext
<1> QED
  BY <1>1, <1>2, <1>3, PTL DEF Spec, ImplementsMirror, Promise!MirrorSpec

-----------------------------------------------------------------------------
(* Nothing is missed *)

\* Each delta starts where the one before it ended.
Consecutive(s) == \A i \in 1..(Len(s) - 1) : s[i + 1].first = s[i].final + 1

\* The last delta of the list is the last one the stream delivered.
UpToCursor(s) == s # <<>> => s[Len(s)].final = cursor - 1

\* While nothing is lost or refused: what is not in the book yet is, without a
\* hole, in the list of messages that will reach it, and that list starts no
\* later than the update after the snapshot.
Complete ==
  /\ state # "FAILED"
  /\ IsReady => book.anchored
  /\ Consecutive(buffer) /\ UpToCursor(buffer)
  /\ Consecutive(pending) /\ UpToCursor(pending)
  /\ buffer # <<>> => firstBuffered # NoId /\ firstBuffered >= buffer[1].first
  /\ ~replaying /\ state # "SYNCED" /\ buffer = <<>>
       => cursor = 1 /\ firstBuffered = NoId
  /\ replaying \/ state = "SYNCED" => buffer = <<>>
  /\ ~replaying => pending = <<>>
  /\ replaying /\ pending # <<>> => pending[1].first <= book.last + 1
  /\ (replaying /\ pending = <<>>) \/ state = "SYNCED" => book.last >= cursor - 1
  /\ PushesSnapshots => ~replaying /\ (state = "SYNCED" => book.last = cursor - 1)

\* A delta may overlap the snapshot (Binance, Bybit), or it cannot because both
\* come on one stream (OKX).
ToleratesOverlap ==
  \/ Mode \in {"RANGE", "MONOTONIC"}
  \/ Mode = "PREVIOUS_MATCH" /\ PushesSnapshots

\* A delta that is still to come finds room in the buffer.
Room == cursor <= head => Len(buffer) < MaxBuffer

CompleteInv ==
  /\ TypeOK /\ History /\ Control /\ ReadyAgreesWithSynced
  /\ faults = 0 => Mirror /\ Complete

LEMMA ConsecutiveAppend ==
  ASSUME TypeOK, NEW m \in Messages, m.first = cursor,
         Consecutive(buffer), UpToCursor(buffer)
  PROVE  /\ Consecutive(Append(buffer, m))
         /\ Append(buffer, m)[Len(Append(buffer, m))] = m
         /\ Append(buffer, m) # <<>>
         /\ Append(buffer, m)[1] = IF buffer = <<>> THEN m ELSE buffer[1]
<1> DEFINE s == Append(buffer, m)
           n == Len(buffer)
<1>1. /\ s \in Seq(Messages) /\ n \in Nat /\ Len(s) = n + 1 /\ s # <<>>
      /\ \A i \in 1..n : s[i] = buffer[i]
      /\ s[n + 1] = m
      /\ buffer = <<>> <=> n = 0
  BY AppendProperties, LenProperties, EmptySeq DEF TypeOK
<1>2. cursor \in Nat
  BY DEF TypeOK
<1>3. ASSUME NEW i \in 1..n
      PROVE  s[i + 1].first = s[i].final + 1
  <2>1. CASE i < n
    <3>1. i + 1 \in 1..n /\ i \in 1..(n - 1)
      BY <1>1, <2>1
    <3> QED
      BY <1>1, <3>1 DEF Consecutive
  <2>2. CASE i = n
    <3>1. buffer # <<>> /\ s[i] = buffer[n] /\ s[i + 1] = m
      BY <1>1, <2>2
    <3> QED
      BY <1>2, <3>1 DEF UpToCursor
  <2> QED
    BY <1>1, <2>1, <2>2
<1>4. Consecutive(s)
  BY <1>1, <1>3 DEF Consecutive
<1>5. s[1] = IF buffer = <<>> THEN m ELSE buffer[1]
  BY <1>1
<1> QED
  BY <1>1, <1>4, <1>5

LEMMA ConsecutiveTail ==
  ASSUME NEW s \in Seq(Messages), s # <<>>, Consecutive(s)
  PROVE  /\ Consecutive(Tail(s))
         /\ Tail(s) # <<>> => /\ Tail(s)[Len(Tail(s))] = s[Len(s)]
                             /\ Tail(s)[1].first = s[1].final + 1
         /\ Tail(s) = <<>> => s[1] = s[Len(s)]
         /\ Head(s) = s[1]
<1>1. /\ Len(s) \in Nat \ {0} /\ Len(Tail(s)) = Len(s) - 1 /\ Head(s) = s[1]
      /\ \A i \in 1..(Len(s) - 1) : Tail(s)[i] = s[i + 1]
      /\ Tail(s) \in Seq(Messages)
  BY HeadTailProperties, LenProperties, EmptySeq
<1>a. Tail(s) = <<>> <=> Len(Tail(s)) = 0
  BY <1>1, EmptySeq
<1>2. ASSUME NEW i \in 1..(Len(s) - 2)
      PROVE  Tail(s)[i + 1].first = Tail(s)[i].final + 1
  <2>1. i \in 1..(Len(s) - 1) /\ i + 1 \in 1..(Len(s) - 1)
    BY <1>1
  <2> QED
    BY <1>1, <2>1 DEF Consecutive
<1>3. Consecutive(Tail(s))
  <2>1. Len(Tail(s)) - 1 = Len(s) - 2
    BY <1>1
  <2> QED
    BY <1>2, <2>1 DEF Consecutive
<1>4. ASSUME Tail(s) # <<>>
      PROVE  /\ Tail(s)[Len(Tail(s))] = s[Len(s)]
             /\ Tail(s)[1].first = s[1].final + 1
  <2>1. 1 \in 1..(Len(s) - 1) /\ Len(s) - 1 \in 1..(Len(s) - 1)
    BY <1>1, <1>a, <1>4
  <2> QED
    BY <1>1, <2>1 DEF Consecutive
<1>5. Tail(s) = <<>> => s[1] = s[Len(s)]
  BY <1>1, <1>a
<1> QED
  BY <1>1, <1>3, <1>4, <1>5

\* A delta that starts no later than the update after the last one leaves a
\* ready book ready, and brings it to the delta's end if it was not beyond it.
LEMMA DeltaApplies ==
  ASSUME TypeOK, History, Mirror, ToleratesOverlap, ~OmitsIds, CrossedVersions = {},
         IsReady, book.anchored, NEW m \in Messages, m.first <= book.last + 1,
         PushesSnapshots => m.first = book.last + 1,
         NEW crossed \in CrossedOutcomes(Merge(book.levels, m), m.final),
         NEW nb, nb = Updated(book, m, crossed)
  PROVE  /\ ~ResyncRequired(book, m, crossed)
         /\ nb.ready /\ ~nb.resync /\ nb.anchored
         /\ nb.last >= m.final
         /\ m.first = book.last + 1 => nb.last = m.final
         /\ nb.levels = venue[nb.last]
<1>1. book \in LocalBooks /\ book.last # NoId
  BY DEF TypeOK
<1>2. /\ m.final \in Nat /\ m.first \in Nat /\ m.first <= m.final
      /\ book.last \in Nat /\ m.numbered
  BY <1>1 DEF Messages, TypeOK, LocalBooks
<1>3. /\ book.ready /\ ~book.resync /\ ~Misnumbered(book, m) /\ ~Unchecked(book)
      /\ LastAfter(book, m) = m.final
  BY <1>1, <1>2 DEF IsReady, Misnumbered, Unchecked, ToleratesOverlap, LastAfter
<1>4. Continues(book, m) <=> book.last < m.final
  <2>1. CASE Mode = "RANGE"
    BY <1>3, <2>1 DEF Continues
  <2>2. CASE Mode = "MONOTONIC"
    BY <1>2, <1>3, <2>2 DEF Continues
  <2>3. CASE Mode = "PREVIOUS_MATCH" /\ PushesSnapshots
    BY <1>2, <1>3, <2>3 DEF Continues
  <2> QED
    BY <2>1, <2>2, <2>3 DEF ToleratesOverlap
<1>5. CASE book.last < m.final
  <2>1. Verdict(book, m) = "APPLIED"
    BY <1>3, <1>4, <1>5 DEF Verdict
  <2>2. Merge(book.levels, m) = venue[m.final]
    BY <1>1, <1>5, MergeReachesVenue DEF Mirror
  <2>3. crossed = FALSE
    BY <2>2 DEF CrossedOutcomes
  <2>4. nb = [book EXCEPT !.levels = Merge(@, m), !.last = LastAfter(book, m),
                          !.resync = crossed]
    BY <2>1 DEF Updated
  <2>5. /\ nb.ready = book.ready /\ nb.resync = crossed /\ nb.last = m.final
        /\ nb.levels = venue[m.final] /\ nb.anchored
    BY <1>1, <1>3, <2>2, <2>4 DEF LocalBooks
  <2> QED
    BY <1>2, <1>3, <2>1, <2>3, <2>5 DEF ResyncRequired
<1>6. CASE ~(book.last < m.final)
  <2>1. Verdict(book, m) = "IGNORED"
    BY <1>2, <1>3, <1>4, <1>6 DEF Verdict
  <2>2. nb = book
    BY <2>1 DEF Updated
  <2> QED
    BY <1>2, <1>3, <1>6, <2>1, <2>2 DEF ResyncRequired, Mirror, IsReady
<1> QED
  BY <1>5, <1>6

LEMMA CompleteInit == Init => CompleteInv
<1> SUFFICES ASSUME Init PROVE CompleteInv
  OBVIOUS
<1>1. Mirror
  BY DEF Init, Mirror, IsReady
<1>2. Len(<<>>) = 0
  BY EmptySeq
<1>3. Consecutive(<<>>) /\ UpToCursor(<<>>)
  BY <1>2 DEF Consecutive, UpToCursor
<1>4. /\ buffer = <<>> /\ pending = <<>> /\ cursor = 1 /\ faults = 0
      /\ firstBuffered = NoId /\ state = "BUFFERING"
  BY DEF Init
<1>5. ~replaying /\ ~IsReady
  BY DEF Init, IsReady
<1>6. Complete
  BY <1>3, <1>4, <1>5 DEF Complete
<1> QED
  BY <1>1, <1>6, TypeInit, HistoryInit, AgreementInit DEF CompleteInv

LEMMA CompleteNext ==
  ASSUME ToleratesOverlap, ~OmitsIds, ~OmitsSnapshotIds, CrossedVersions = {}
  PROVE  CompleteInv /\ (faults = 0 => Room) /\ [Next]_vars => CompleteInv'
<1> SUFFICES ASSUME CompleteInv, faults = 0 => Room, [Next]_vars
             PROVE  CompleteInv'
  OBVIOUS
<1>0. TypeOK' /\ History' /\ Control' /\ ReadyAgreesWithSynced'
  BY TypeNext, HistoryNext, AgreementNext DEF CompleteInv
<1>f. faults' = 0 => faults = 0
  BY DEF CompleteInv, TypeOK, Next, vars, Publish, ObserveDelta, ObserveSnapshot,
         RequestSnapshot, ApplyRestSnapshot, ReplayNext, ReplayEnd, Restart,
         StreamDisturbed
<1> SUFFICES ASSUME faults' = 0 PROVE Mirror' /\ Complete'
  BY <1>0 DEF CompleteInv
<1>a. /\ TypeOK /\ History /\ Control /\ ReadyAgreesWithSynced /\ Mirror /\ Complete
      /\ faults = 0 /\ Room
  BY <1>f DEF CompleteInv
<1>b. TypeOK' /\ History' /\ Control' /\ ReadyAgreesWithSynced'
  BY <1>a, TypeNext, HistoryNext, AgreementNext
<1>c. /\ head \in Nat /\ cursor \in Nat /\ book.last \in {NoId} \union (0..head)
      /\ book.anchored => book.last \in 0..head
      /\ buffer \in Seq(Messages) /\ pending \in Seq(Messages)
      /\ firstBuffered \in {NoId} \union Nat
  BY <1>a DEF TypeOK, LocalBooks
<1>d. Consecutive(<<>>) /\ UpToCursor(<<>>) /\ UpToCursor(<<>>)'
  BY EmptySeq DEF Consecutive, UpToCursor
<1>1. ASSUME NEW touched \in SUBSET Levels \ {{}}, Publish(touched)
      PROVE  Mirror' /\ Complete'
  <2>1. /\ UNCHANGED <<cursor, faults, state, buffer, firstBuffered, replaying, pending, book>>
        /\ book.anchored => venue'[book.last] = venue[book.last]
    BY <1>c, <1>1 DEF Publish, syncVars
  <2> QED
    BY <1>a, <2>1 DEF Mirror, IsReady, Complete, UpToCursor
<1>2. ASSUME NEW k \in 1..head, NEW n \in BOOLEAN, ObserveDelta(k, n)
      PROVE  Mirror' /\ Complete'
  <2> DEFINE m == Delta(cursor, k, n)
  <2>1. m \in Messages /\ m.first = cursor /\ m.final = k /\ m.numbered = n
    BY <1>a, <1>2, DeltaType DEF ObserveDelta, Delta
  <2>2. /\ ~replaying /\ pending = <<>>
        /\ UNCHANGED <<venue, head, rest, faults, replaying, pending>>
        /\ cursor' = k + 1 /\ k \in Nat /\ cursor <= head
    BY <1>a, <1>c, <1>2 DEF ObserveDelta, venueVars, Complete
  <2> HIDE DEF m
  <2>3. CASE LiveDelta(m)
    <3>1. /\ state = "SYNCED" /\ IsReady /\ book.anchored /\ buffer = <<>>
          /\ m.first <= book.last + 1
      BY <1>a, <1>c, <2>1, <2>3 DEF LiveDelta, ReadyAgreesWithSynced, Complete
    <3>2. PICK crossed \in CrossedOutcomes(Merge(book.levels, m), m.final) :
            /\ book' = Updated(book, m, crossed)
            /\ IF ResyncRequired(book, m, crossed)
                 THEN EnterBuffering
                 ELSE UNCHANGED <<state, buffer, firstBuffered>>
      BY <2>3 DEF LiveDelta
    <3>6. PushesSnapshots => m.first = book.last + 1
      BY <1>a, <1>c, <2>1, <3>1 DEF Complete
    <3>3. /\ ~ResyncRequired(book, m, crossed)
          /\ book'.last >= m.final /\ book'.levels = venue[book'.last]
          /\ book'.anchored
          /\ PushesSnapshots => book'.last = m.final
      BY <1>a, <2>1, <3>1, <3>2, <3>6, DeltaApplies
    <3>4. Mirror'
      BY <2>2, <3>3 DEF Mirror
    <3>5. /\ UNCHANGED <<state, buffer, firstBuffered>> /\ book'.last >= cursor' - 1
          /\ PushesSnapshots => book'.last = cursor' - 1
      BY <2>1, <2>2, <3>2, <3>3
    <3> QED
      BY <1>a, <1>d, <2>2, <3>1, <3>3, <3>4, <3>5 DEF Complete
  <2>4. CASE BufferDelta(m)
    <3>1. ~(Len(buffer) >= MaxBuffer)
      BY <1>a, <1>c, <2>2, LenProperties, ConstantsAssumption DEF Room
    <3>2. /\ state # "SYNCED" /\ buffer' = Append(buffer, m)
          /\ firstBuffered' = IF firstBuffered = NoId THEN BufferedId(m)
                                                      ELSE firstBuffered
          /\ state' = state /\ book' = book
      BY <2>4, <3>1 DEF BufferDelta
    <3>3. /\ Consecutive(buffer') /\ buffer'[Len(buffer')] = m /\ buffer' # <<>>
          /\ buffer'[1] = IF buffer = <<>> THEN m ELSE buffer[1]
      BY <1>a, <2>1, <3>2, ConsecutiveAppend DEF Complete
    <3>4. BufferedId(m) \in Nat /\ BufferedId(m) >= m.first
      <4>1. m.numbered
        BY <2>1 DEF Messages
      <4>2. m.first \in Nat /\ m.final \in Nat /\ m.first <= m.final
        BY <2>1 DEF Messages
      <4> QED
        BY <4>1, <4>2 DEF BufferedId
    <3>5. firstBuffered' # NoId /\ firstBuffered' >= buffer'[1].first
      <4>1. CASE buffer = <<>>
        <5>1. firstBuffered = NoId
          BY <1>a, <2>2, <3>2, <4>1 DEF Complete
        <5> QED
          BY <3>2, <3>3, <3>4, <4>1, <5>1 DEF NoId
      <4>2. CASE buffer # <<>>
        BY <1>a, <3>2, <3>3, <4>2 DEF Complete
      <4> QED
        BY <4>1, <4>2
    <3>6. UpToCursor(buffer)'
      BY <2>1, <2>2, <3>3 DEF UpToCursor
    <3>7. Mirror'
      BY <1>a, <2>2, <3>2 DEF Mirror, IsReady
    <3> QED
      BY <1>a, <1>d, <2>2, <3>2, <3>3, <3>5, <3>6, <3>7 DEF Complete, IsReady
  <2> QED
    BY <1>2, <2>3, <2>4 DEF ObserveDelta, m
<1>3. ASSUME NEW n \in BOOLEAN, ObserveSnapshot(n)
      PROVE  Mirror' /\ Complete'
  <2>1. /\ ~replaying /\ pending = <<>> /\ n
        /\ UNCHANGED <<venue, head, faults, replaying, pending>>
        /\ cursor' = head + 1 /\ book' = SnapshotBook(Snapshot(head, n))
    BY <1>a, <1>3 DEF ObserveSnapshot, venueVars, Complete
  <2>2. state' = "SYNCED" /\ buffer' = <<>>
    BY <1>a, <1>3 DEF ObserveSnapshot, EnterSynced, ClearBuffer, Complete
  <2>3. book'.last = head /\ book'.levels = venue[head] /\ book'.anchored
    BY <2>1 DEF SnapshotBook, Snapshot, UpdateId
  <2>4. Mirror'
    BY <2>1, <2>3 DEF Mirror
  <2>5. book'.last = cursor' - 1 /\ book'.last >= cursor' - 1
    <3>1. head \in Nat /\ cursor' = head + 1 /\ book'.last = head
      BY <1>c, <2>1, <2>3
    <3> QED
      BY <3>1
  <2>6. /\ Consecutive(buffer') /\ UpToCursor(buffer)'
        /\ Consecutive(pending') /\ UpToCursor(pending)'
    BY <1>d, <2>1, <2>2 DEF UpToCursor
  <2> QED
    BY <2>1, <2>2, <2>3, <2>4, <2>5, <2>6 DEF Complete
<1>4. ASSUME UNCHANGED <<venue, head, cursor, faults, state, buffer, firstBuffered,
                         replaying, pending, book>>
      PROVE  Mirror' /\ Complete'
  BY <1>a, <1>4 DEF Mirror, IsReady, Complete, UpToCursor
<1>5. CASE ApplyRestSnapshot
  <2>1. /\ ~replaying /\ rest # {}
        /\ UNCHANGED <<venue, head, cursor, faults>>
    BY <1>5 DEF ApplyRestSnapshot, venueVars
  <2>a. state # "SYNCED" /\ pending = <<>> /\ ~PushesSnapshots
    BY <1>a, <2>1 DEF Control, Complete
  <2>b. PICK s \in rest :
          \/ /\ ~SnapshotReachesBuffer(s)
             /\ UNCHANGED <<syncVars, book>>
          \/ /\ SnapshotReachesBuffer(s)
             /\ book' = SnapshotBook(s)
             /\ IF s.version \in CrossedVersions
                  THEN Fail /\ UNCHANGED <<replaying, pending>>
                  ELSE /\ replaying' = TRUE
                       /\ pending' = buffer
                       /\ buffer' = <<>>
                       /\ UNCHANGED <<state, firstBuffered>>
    BY <1>5 DEF ApplyRestSnapshot
  <2>c. s.version \in 0..head /\ s.numbered
    BY <1>a DEF TypeOK, Snapshots
  <2>2. CASE UNCHANGED <<syncVars, book>>
    BY <1>4, <2>1, <2>2 DEF syncVars
  <2>3. CASE SnapshotReachesBuffer(s)
    <3>1. /\ book' = SnapshotBook(s) /\ replaying' = TRUE /\ pending' = buffer
          /\ buffer' = <<>> /\ UNCHANGED <<state, firstBuffered>>
      BY <2>b, <2>3
    <3>2. book'.last = s.version /\ book'.levels = venue[s.version] /\ book'.anchored
      BY <2>c, <3>1 DEF SnapshotBook, UpdateId
    <3>3. Mirror'
      BY <2>1, <3>2 DEF Mirror
    <3>4. pending' # <<>> => pending'[1].first <= book'.last + 1
      <4>a. HAVE pending' # <<>>
      <4>1. buffer # <<>>
        BY <3>1, <4>a
      <4>2. firstBuffered # NoId /\ firstBuffered >= buffer[1].first
        BY <1>a, <4>1, <3>1 DEF Complete
      <4>3. firstBuffered \in Nat /\ s.version >= firstBuffered
        BY <1>c, <2>3, <4>2 DEF SnapshotReachesBuffer
      <4>4. buffer[1] \in Messages
        BY <1>c, <3>1, <4>1, ElementOfSeq, LenProperties, EmptySeq
      <4>5. buffer[1].first \in Nat
        BY <4>4 DEF Messages
      <4> QED
        BY <2>c, <3>1, <3>2, <4>2, <4>3, <4>5
    <3>5. pending' = <<>> => book'.last >= cursor' - 1
      BY <1>a, <1>c, <2>1, <2>a, <2>c, <3>1, <3>2 DEF Complete
    <3>6. Consecutive(pending') /\ UpToCursor(pending)'
      BY <1>a, <2>1, <3>1 DEF Complete, UpToCursor
    <3> QED
      BY <1>a, <1>d, <2>1, <2>a, <3>1, <3>2, <3>3, <3>4, <3>5, <3>6 DEF Complete
  <2> QED
    BY <2>b, <2>2, <2>3
<1>6. CASE ReplayNext
  <2> DEFINE m == Head(pending)
  <2>1. /\ replaying /\ pending # <<>> /\ IsReady /\ state # "SYNCED" /\ buffer = <<>>
        /\ book.anchored /\ ~PushesSnapshots
        /\ UNCHANGED <<venue, head, cursor, rest, faults>>
    BY <1>a, <1>6 DEF ReplayNext, Control, venueVars, Complete
  <2>2. /\ m \in Messages /\ m = pending[1] /\ Tail(pending) \in Seq(Messages)
        /\ m.first <= book.last + 1
    BY <1>a, <1>c, <2>1, HeadTailProperties DEF Complete
  <2>3. PICK crossed \in CrossedOutcomes(Merge(book.levels, m), m.final) :
          /\ book' = Updated(book, m, crossed)
          /\ IF ResyncRequired(book, m, crossed)
               THEN Fail /\ pending' = <<>> /\ replaying' = FALSE
               ELSE /\ pending' = Tail(pending)
                    /\ UNCHANGED <<state, buffer, firstBuffered, replaying>>
    BY <1>6 DEF ReplayNext
  <2> HIDE DEF m
  <2>4. /\ ~ResyncRequired(book, m, crossed)
        /\ book'.last >= m.final /\ book'.levels = venue[book'.last]
        /\ book'.anchored
    BY <1>a, <2>1, <2>2, <2>3, DeltaApplies
  <2>5. pending' = Tail(pending) /\ UNCHANGED <<state, buffer, firstBuffered, replaying>>
    BY <2>3, <2>4
  <2>6. /\ Consecutive(pending')
        /\ pending' # <<>> => /\ pending'[Len(pending')] = pending[Len(pending)]
                              /\ pending'[1].first = m.final + 1
        /\ pending' = <<>> => m = pending[Len(pending)]
    BY <1>a, <1>c, <2>1, <2>2, <2>5, ConsecutiveTail DEF Complete
  <2>7. m.final \in Nat /\ book'.last \in Nat /\ cursor' = cursor
    BY <1>b, <2>1, <2>2, <2>4 DEF Messages, TypeOK, LocalBooks
  <2>8. pending[Len(pending)].final = cursor - 1
    BY <1>a, <2>1 DEF Complete, UpToCursor
  <2>9. UpToCursor(pending)'
    BY <2>6, <2>7, <2>8 DEF UpToCursor
  <2>10. pending' # <<>> => pending'[1].first <= book'.last + 1
    BY <2>4, <2>6, <2>7
  <2>11. pending' = <<>> => book'.last >= cursor' - 1
    BY <2>4, <2>6, <2>7, <2>8
  <2>12. Mirror'
    BY <2>1, <2>4 DEF Mirror
  <2> QED
    BY <1>a, <1>d, <2>1, <2>4, <2>5, <2>6, <2>9, <2>10, <2>11, <2>12 DEF Complete
<1>7. CASE ReplayEnd
  <2>1. /\ replaying /\ pending = <<>> /\ state' = "SYNCED" /\ buffer' = <<>>
        /\ ~replaying' /\ UNCHANGED <<venue, cursor, faults, pending, book>>
    BY <1>7 DEF ReplayEnd, EnterSynced, ClearBuffer, venueVars
  <2> QED
    BY <1>a, <1>d, <2>1 DEF Mirror, IsReady, Complete
<1>8. ASSUME NEW v \in 0..head, NEW n \in BOOLEAN, RequestSnapshot(v, n)
      PROVE  Mirror' /\ Complete'
  BY <1>4, <1>8 DEF RequestSnapshot, venueVars, syncVars
<1>9. ~Restart /\ \A next \in 1..(head + 1) : ~StreamDisturbed(next)
  BY <1>a DEF Restart, StreamDisturbed
<1>10. CASE UNCHANGED vars
  BY <1>4, <1>10 DEF vars, venueVars, syncVars
<1> QED
  BY <1>1, <1>2, <1>3, <1>5, <1>6, <1>7, <1>8, <1>9, <1>10 DEF Next

\* No crossed book, no snapshot without its id, no delta that finds the buffer
\* full: as long as no fault has happened, every delta handed to observe is in a
\* synced book, however the snapshot, the stream and the replay were
\* interleaved, and however old the snapshot was.
THEOREM NothingMissed ==
  ASSUME ToleratesOverlap, ~OmitsIds, ~OmitsSnapshotIds, CrossedVersions = {}
  PROVE  Spec /\ [](faults = 0 => Room) => []SyncedMissesNothing
<1>1. Init => CompleteInv
  BY CompleteInit
<1>2. CompleteInv /\ (faults = 0 => Room) /\ [Next]_vars => CompleteInv'
  BY CompleteNext
<1>3. CompleteInv => SyncedMissesNothing
  BY DEF CompleteInv, Complete, SyncedMissesNothing
<1> QED
  BY <1>1, <1>2, <1>3, PTL DEF Spec

\* The mode of Bybit, which cannot notice a hole, needs a stream without holes
\* and snapshots that carry their id: then a ready book is the venue's book
\* there too.
THEOREM MirrorWithoutFaults ==
  ASSUME ToleratesOverlap, ~OmitsIds, ~OmitsSnapshotIds, CrossedVersions = {}
  PROVE  Spec /\ [](faults = 0 => Room) => [](faults = 0 => Mirror)
<1>1. Init => CompleteInv
  BY CompleteInit
<1>2. CompleteInv /\ (faults = 0 => Room) /\ [Next]_vars => CompleteInv'
  BY CompleteNext
<1>3. CompleteInv => (faults = 0 => Mirror)
  BY DEF CompleteInv
<1> QED
  BY <1>1, <1>2, <1>3, PTL DEF Spec

\* A buffer as long as the history of the venue never lacks room.
Fits == faults = 0 => head <= MaxVersion /\ Len(buffer) < cursor

LEMMA FitsNext == TypeOK /\ Fits /\ [Next]_vars => Fits'
<1> SUFFICES ASSUME TypeOK, Fits, [Next]_vars, faults' = 0
             PROVE  head' <= MaxVersion /\ Len(buffer') < cursor'
  BY DEF Fits
<1> DEFINE Goal == head' <= MaxVersion /\ Len(buffer') < cursor'
<1>a. /\ head \in Nat /\ cursor \in 1..(head + 1) /\ MaxVersion \in Nat
      /\ Len(buffer) \in Nat /\ Len(<<>>) = 0
  BY LenProperties, EmptySeq, ConstantsAssumption DEF TypeOK
<1>b. faults = 0 /\ ~Restart /\ \A next \in 1..(head + 1) : ~StreamDisturbed(next)
  BY DEF TypeOK, Next, vars, Publish, ObserveDelta, ObserveSnapshot, RequestSnapshot,
         ApplyRestSnapshot, ReplayNext, ReplayEnd, Restart, StreamDisturbed
<1>c. head <= MaxVersion /\ Len(buffer) < cursor
  BY <1>b DEF Fits
<1>1. ASSUME NEW touched \in SUBSET Levels \ {{}}, Publish(touched)
      PROVE  Goal
  BY <1>a, <1>c, <1>1 DEF Publish, syncVars
<1>2. ASSUME NEW k \in 1..head, NEW n \in BOOLEAN, ObserveDelta(k, n)
      PROVE  Goal
  <2>1. cursor <= k /\ cursor' = k + 1 /\ head' = head
    BY <1>2 DEF ObserveDelta, venueVars
  <2>2. buffer' \in {buffer, <<>>, Append(buffer, Delta(cursor, k, n))}
    BY <1>2 DEF ObserveDelta, LiveDelta, BufferDelta, EnterBuffering, Fail, ClearBuffer
  <2>3. Len(Append(buffer, Delta(cursor, k, n))) = Len(buffer) + 1
    BY <1>2, DeltaType, AppendProperties DEF ObserveDelta, TypeOK
  <2>4. Len(buffer') <= Len(buffer) + 1
    BY <1>a, <2>2, <2>3
  <2>5. Len(buffer') \in Nat
    BY <1>a, <2>2, <2>3
  <2> QED
    BY <1>a, <1>c, <2>1, <2>4, <2>5
<1>3. ASSUME UNCHANGED head, cursor' \in {cursor, head + 1}, buffer' \in {buffer, <<>>}
      PROVE  Goal
  BY <1>a, <1>c, <1>3
<1>5. ASSUME \/ \E n \in BOOLEAN : ObserveSnapshot(n)
             \/ ApplyRestSnapshot \/ ReplayNext \/ ReplayEnd
             \/ \E v \in 0..head, n \in BOOLEAN : RequestSnapshot(v, n)
             \/ UNCHANGED vars
      PROVE  Goal
  BY <1>3, <1>5
  DEF ObserveSnapshot, ApplyRestSnapshot, ReplayNext, ReplayEnd, RequestSnapshot,
      EnterSynced, EnterBuffering, Fail, ClearBuffer, vars, venueVars, syncVars
<1> QED
  BY <1>1, <1>2, <1>b, <1>5 DEF Next

\* In particular when the venue publishes no more updates than the buffer holds.
THEOREM NothingMissedOfShortHistory ==
  ASSUME ToleratesOverlap, ~OmitsIds, ~OmitsSnapshotIds, CrossedVersions = {},
         MaxVersion <= MaxBuffer
  PROVE  Spec => []SyncedMissesNothing
<1>1. Init => CompleteInv /\ Fits
  <2>1. Init => Fits
    BY EmptySeq, ConstantsAssumption DEF Init, Fits
  <2> QED
    BY <2>1, CompleteInit
<1>2. CompleteInv /\ Fits => (faults = 0 => Room)
  <2> SUFFICES ASSUME TypeOK, Fits, faults = 0, cursor <= head PROVE Len(buffer) < MaxBuffer
    BY DEF CompleteInv, Room
  <2>1. head \in Nat /\ cursor \in Nat /\ Len(buffer) \in Nat
    BY LenProperties DEF TypeOK
  <2> QED
    BY <2>1, ConstantsAssumption DEF Fits
<1>3. CompleteInv /\ Fits /\ [Next]_vars => CompleteInv' /\ Fits'
  BY <1>2, CompleteNext, FitsNext DEF CompleteInv
<1>4. CompleteInv => SyncedMissesNothing
  BY DEF CompleteInv, Complete, SyncedMissesNothing
<1> QED
  BY <1>1, <1>3, <1>4, PTL DEF Spec
=============================================================================
