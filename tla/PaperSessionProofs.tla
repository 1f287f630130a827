------------------------- MODULE PaperSessionProofs -------------------------
(***************************************************************************)
(* Theorems about PaperSession, for every number of loops and handlers,    *)
(* every set of markets and every limit.                                   *)
(***************************************************************************)
EXTENDS PaperSession, SequenceTheorems, FoldFacts

\* How often a market occurs in a batch is a number.
LEMMA CountType ==
  ASSUME NEW S, NEW list \in Seq(S), NEW m
  PROVE  Count(list, m) \in Nat
<1> DEFINE at == {i \in DOMAIN list : list[i] = m}
<1>1. IsFiniteSet(1..Len(list))
  BY FS_Interval
<1>2. at \subseteq 1..Len(list)
  OBVIOUS
<1>3. IsFiniteSet(at)
  BY <1>1, <1>2, FS_Subset
<1> QED
  BY <1>3, FS_CardinalityType DEF Count

\* A batch is a sequence of opportunities.
LEMMA BatchType ==
  ASSUME NEW b \in SeqOf(Markets, MaxBatch)
  PROVE  b \in Seq(Markets)
<1>1. PICK n \in 0..MaxBatch : b \in [1..n -> Markets]
  BY DEF SeqOf
<1>2. n \in Nat
  BY SessionAssumption
<1> QED
  BY <1>1, <1>2

-----------------------------------------------------------------------------
(* Types *)

LEMMA TypeInit == Init => TypeOK
<1> SUFFICES ASSUME Init
             PROVE  TypeOK
  OBVIOUS
<1>1. <<>> \in Seq(Markets)
  OBVIOUS
<1>2. batch \in [Callers -> Seq(Markets)] /\ approved \in [Callers -> Seq(Markets)]
  BY <1>1 DEF Init
<1>3. loop \in [Loops -> LoopStates] /\ stage \in [Callers -> Stages]
  BY DEF Init, LoopStates, Stages
<1>4. started \in 0..MaxStarts /\ task \in 0..started /\ stopped \subseteq 1..started
  BY SessionAssumption DEF Init
<1>5. target \in [Stoppers -> 0..started] /\ timedOut \in [Stoppers -> BOOLEAN]
  BY <1>4 DEF Init
<1>6. cost \in [Markets -> [Legs -> Nat]]
  BY DEF Init, NoPosition
<1> QED
  BY <1>2, <1>3, <1>4, <1>5, <1>6 DEF Init, TypeOK

\* Who runs what: the loops and the callers are told apart by name.
LEMMA EnterType ==
  ASSUME TypeOK, NEW c, NEW where \in Stages, Enter(c, where)
  PROVE  stage' \in [Callers -> Stages]
BY DEF TypeOK, Enter

LEMMA EndType ==
  ASSUME TypeOK, NEW l, NEW how \in LoopStates, End(l, how)
  PROVE  loop' \in [Loops -> LoopStates] /\ running' \in BOOLEAN /\ task' \in 0..started
<1>1. started \in 0..MaxStarts /\ loop \in [Loops -> LoopStates]
  BY DEF TypeOK
<1>2. 0 \in 0..started
  BY <1>1, SessionAssumption
<1> QED
  BY <1>1, <1>2 DEF End

LEMMA LoopType ==
  ASSUME TypeOK, NEW l \in Loops, LoopStep(l)
  PROVE  TypeOK'
<1>1. CASE Wake(l)
  BY <1>1, EndType, EnterType DEF Wake, TypeOK, cycle, account, LoopStates, Live, Stages
<1>2. CASE CycleDone(l)
  <2>1. stage' \in [Callers -> Stages]
    BY <1>2, EnterType DEF CycleDone, Stages
  <2>2. /\ loop' \in [Loops -> LoopStates]
        /\ running' \in BOOLEAN
        /\ task' \in 0..started
    BY <1>2, EndType DEF CycleDone, TypeOK, LoopStates, Live, Over
  <2> QED
    BY <1>2, <2>1, <2>2 DEF CycleDone, TypeOK, account
<1>3. CASE Cancelled(l)
  BY <1>3, EndType DEF Cancelled, TypeOK, cycle, account, LoopStates
<1> QED
  BY <1>1, <1>2, <1>3 DEF LoopStep

LEMMA HandlerType ==
  ASSUME TypeOK,
         \/ Start
         \/ \E s \in Stoppers : Stop(s) \/ StopStep(s)
         \/ \E r \in Requests : RunOnce(r)
  PROVE  TypeOK'
<1>1. CASE Start
  BY <1>1, SessionAssumption
  DEF Start, TypeOK, cycle, account, LoopStates, Live, Loops
<1>2. ASSUME NEW s \in Stoppers, Stop(s)
      PROVE  TypeOK'
  BY <1>2 DEF Stop, TypeOK, cycle, account
<1>3. ASSUME NEW s \in Stoppers, StopTimeout(s)
      PROVE  TypeOK'
  <2>1. loop' \in [Loops -> LoopStates]
    BY <1>3 DEF StopTimeout, TypeOK, LoopStates, Live
  <2> QED
    BY <1>3, <2>1 DEF StopTimeout, TypeOK, cycle, account
<1>4. ASSUME NEW s \in Stoppers, StopReturn(s)
      PROVE  TypeOK'
  <2>1. 0 \in 0..started
    BY SessionAssumption DEF TypeOK
  <2> QED
    BY <1>4, <2>1 DEF StopReturn, TypeOK, cycle, account
<1>5. ASSUME NEW r \in Requests, RunOnce(r)
      PROVE  TypeOK'
  BY <1>5, EnterType DEF RunOnce, TypeOK, runtime, account, Stages
<1> QED
  BY <1>1, <1>2, <1>3, <1>4, <1>5 DEF StopStep

LEMMA PurchaseType ==
  ASSUME NEW list \in Seq(Markets), NEW bought \in Purchases(list)
  PROVE  bought \in [Markets -> [Legs -> Nat]]
<1> DEFINE most == MaxCost * Len(list)
<1>1. bought \in [Markets -> [Legs -> 0..most]]
  BY DEF Purchases
<1>2. 0..most \subseteq Nat
  OBVIOUS
<1> HIDE DEF most
<1> QED
  BY <1>1, <1>2

LEMMA WorkerType ==
  ASSUME TypeOK, NEW c \in Callers, WorkerStep(c)
  PROVE  TypeOK'
<1> USE DEF runtime, account
<1>1. CASE Guard(c)
  BY <1>1, EnterType DEF Guard, TypeOK, Stages
<1>2. CASE Source(c)
  <2>1. batch' \in [Callers -> Seq(Markets)]
    BY <1>2, BatchType DEF Source, TypeOK
  <2>2. stage' \in [Callers -> Stages]
    BY <1>2, EnterType DEF Source, Stages
  <2> QED
    BY <1>2, <2>1, <2>2 DEF Source, TypeOK
<1>3. CASE Judge(c)
  <2>1. batch[c] \in Seq(Markets) /\ approved[c] \in Seq(Markets)
    BY DEF TypeOK
  <2>2. batch' \in [Callers -> Seq(Markets)]
    BY <1>3, <2>1 DEF Judge, TypeOK
  <2>3. Head(batch[c]) \in Markets
    BY <1>3, <2>1 DEF Judge
  <2>4. Append(approved[c], Head(batch[c])) \in Seq(Markets)
    BY <2>1, <2>3
  <2>5. approved' \in [Callers -> Seq(Markets)]
    BY <1>3, <2>4 DEF Judge, TypeOK
  <2> QED
    BY <1>3, <2>2, <2>5 DEF Judge, TypeOK
<1>4. CASE Judged(c)
  BY <1>4, EnterType DEF Judged, TypeOK, Stages
<1>5. CASE Commit(c)
  <2>1. approved[c] \in Seq(Markets)
    BY DEF TypeOK
  <2>2. PICK bought \in Purchases(approved[c]) :
          cost' = [m \in Markets |-> [k \in Legs |-> cost[m][k] + bought[m][k]]]
    BY <1>5 DEF Commit
  <2>3. cost' \in [Markets -> [Legs -> Nat]]
    <3>1. bought \in [Markets -> [Legs -> Nat]]
      BY <2>1, PurchaseType
    <3> QED
      BY <2>2, <3>1 DEF TypeOK
  <2>4. approved' \in [Callers -> Seq(Markets)]
    BY <1>5 DEF Commit, TypeOK
  <2>5. stage' \in [Callers -> Stages]
    BY <1>5, EnterType DEF Commit, Stages
  <2> QED
    BY <1>5, <2>3, <2>4, <2>5 DEF Commit, TypeOK
<1>6. CASE Record(c)
  BY <1>6, EnterType DEF Record, TypeOK, Stages
<1>7. CASE RecordFails(c)
  BY <1>7, EnterType DEF RecordFails, TypeOK, Stages
<1>8. CASE Answer(c)
  BY <1>8, EnterType DEF Answer, TypeOK, Stages
<1> QED
  BY <1>1, <1>2, <1>3, <1>4, <1>5, <1>6, <1>7, <1>8 DEF WorkerStep

LEMMA TypeNext == TypeOK /\ [Next]_vars => TypeOK'
<1> SUFFICES ASSUME TypeOK, [Next]_vars
             PROVE  TypeOK'
  OBVIOUS
<1>1. ASSUME NEW m \in Markets, NEW k \in Legs, Settle(m, k)
      PROVE  TypeOK'
  <2>1. PICK left \in 0..(cost[m][k] - 1) : cost' = [cost EXCEPT ![m][k] = left]
    BY <1>1 DEF Settle
  <2>2. left \in Nat
    OBVIOUS
  <2>3. cost' \in [Markets -> [Legs -> Nat]]
    BY <2>1, <2>2 DEF TypeOK
  <2> QED
    BY <1>1, <2>3 DEF Settle, TypeOK, runtime, cycle
<1>4. CASE Reset
  BY <1>4 DEF Reset, NoPosition, TypeOK, runtime, cycle
<1>2. CASE Revalue
  BY <1>2 DEF Revalue, TypeOK, runtime, cycle
<1>3. CASE UNCHANGED vars
  BY <1>3 DEF vars, runtime, cycle, account, TypeOK
<1> QED
  BY <1>1, <1>2, <1>3, <1>4, LoopType, HandlerType, WorkerType DEF Next

\* Every variable keeps its type.
THEOREM TypeCorrect == Spec => []TypeOK
BY TypeInit, TypeNext, PTL DEF Spec

-----------------------------------------------------------------------------
(* The status and the loop *)

LEMMA RunningInit == Init => RunningIsLive
BY DEF Init, RunningIsLive

LEMMA RunningNext == TypeOK /\ RunningIsLive /\ [Next]_vars => RunningIsLive'
<1> SUFFICES ASSUME TypeOK, RunningIsLive, [Next]_vars
             PROVE  RunningIsLive'
  OBVIOUS
<1> USE SessionAssumption DEF RunningIsLive, TypeOK, Live, Loops
<1>1. CASE Start
  BY <1>1 DEF Start
<1>2. ASSUME NEW l \in Loops, Wake(l)
      PROVE  RunningIsLive'
  BY <1>2 DEF Wake, End
<1>3. ASSUME NEW l \in Loops, CycleDone(l)
      PROVE  RunningIsLive'
  <2>1. CASE stage[l] = "returned"
    BY <1>3, <2>1 DEF CycleDone
  <2>2. CASE stage[l] # "returned"
    <3>1. running' = FALSE /\ task' = 0
      BY <1>3, <2>2 DEF CycleDone, End, Over
    <3> QED
      BY <3>1
  <2> QED
    BY <2>1, <2>2
<1>4. ASSUME NEW l \in Loops, Cancelled(l)
      PROVE  RunningIsLive'
  BY <1>4 DEF Cancelled, End
<1>5. ASSUME NEW s \in Stoppers, Stop(s)
      PROVE  RunningIsLive'
  BY <1>5 DEF Stop
<1>6. ASSUME NEW s \in Stoppers, StopTimeout(s)
      PROVE  RunningIsLive'
  BY <1>6 DEF StopTimeout
<1>7. ASSUME NEW s \in Stoppers, StopReturn(s)
      PROVE  RunningIsLive'
  BY <1>7 DEF StopReturn
<1>8. CASE UNCHANGED runtime
  BY <1>8 DEF runtime
<1>9. ASSUME NEW c \in Callers, WorkerStep(c)
      PROVE  UNCHANGED runtime
  BY <1>9 DEF WorkerStep, Guard, Source, Judge, Judged, Commit, Record, RecordFails, Answer
<1> QED
  BY <1>1, <1>2, <1>3, <1>4, <1>5, <1>6, <1>7, <1>8, <1>9
  DEF Next, LoopStep, StopStep, RunOnce, Settle, Reset, Revalue, vars

\* A session reported as running has its newest loop alive.
THEOREM RunningMeansLive == Spec => []RunningIsLive
<1>1. Init => TypeOK /\ RunningIsLive
  BY TypeInit, RunningInit
<1>2. TypeOK /\ RunningIsLive /\ [Next]_vars => (TypeOK /\ RunningIsLive)'
  BY TypeNext, RunningNext
<1> QED
  BY <1>1, <1>2, PTL DEF Spec

-----------------------------------------------------------------------------
(* Counting opportunities *)

LEMMA CallersFinite ==
  /\ IsFiniteSet(Callers) /\ IsFiniteSet(Markets) /\ IsFiniteSet(Legs)
  /\ Cardinality(Callers) \in Nat \ {0}
<1>1. IsFiniteSet(Loops)
  BY SessionAssumption, FS_Interval DEF Loops
<1>2. IsFiniteSet(Callers)
  BY <1>1, SessionAssumption, FS_Union DEF Callers
<1>3. 1 \in Callers
  BY SessionAssumption DEF Callers, Loops
<1>4. Cardinality(Callers) \in Nat /\ Cardinality(Callers) # 0
  BY <1>2, <1>3, FS_CardinalityType, FS_EmptySet
<1> QED
  BY <1>2, <1>4, SessionAssumption

LEMMA CountNone == \A m : Count(<<>>, m) = 0
<1> TAKE m
<1>1. {i \in DOMAIN <<>> : <<>>[i] = m} = {}
  OBVIOUS
<1> QED
  BY <1>1, FS_EmptySet DEF Count

LEMMA CountAppend ==
  ASSUME NEW S, NEW list \in Seq(S), NEW e \in S, NEW m
  PROVE  Count(Append(list, e), m) = Count(list, m) + (IF e = m THEN 1 ELSE 0)
<1> DEFINE n  == Len(list)
           at == {i \in DOMAIN list : list[i] = m}
           later == {i \in DOMAIN Append(list, e) : Append(list, e)[i] = m}
<1>1. /\ n \in Nat /\ DOMAIN list = 1..n /\ DOMAIN Append(list, e) = 1..(n + 1)
      /\ \A i \in 1..n : Append(list, e)[i] = list[i]
      /\ Append(list, e)[n + 1] = e
  BY AppendProperties
<1>2. IsFiniteSet(at) /\ n + 1 \notin at
  <2>1. IsFiniteSet(1..n) /\ at \in SUBSET (1..n)
    BY <1>1, FS_Interval
  <2> QED
    BY <1>1, <2>1, FS_Subset
<1>3. later = IF e = m THEN at \union {n + 1} ELSE at
  BY <1>1
<1> HIDE DEF at, later
<1>4. Cardinality(at) \in Nat
  BY <1>2, FS_CardinalityType
<1>5. Cardinality(later) = Cardinality(at) + (IF e = m THEN 1 ELSE 0)
  <2>1. Cardinality(at \union {n + 1}) = Cardinality(at) + 1
    BY <1>2, FS_AddElement
  <2> HIDE DEF n
  <2> QED
    BY <1>3, <1>4, <2>1
<1> QED
  BY <1>5 DEF Count, at, later

LEMMA CountLen ==
  ASSUME NEW S, NEW list \in Seq(S), NEW m
  PROVE  Count(list, m) <= Len(list)
<1> DEFINE at == {i \in DOMAIN list : list[i] = m}
<1>1. Len(list) \in Nat /\ at \in SUBSET (1..Len(list))
  OBVIOUS
<1>2. IsFiniteSet(1..Len(list)) /\ Cardinality(1..Len(list)) = Len(list)
  BY <1>1, FS_Interval
<1> QED
  BY <1>1, <1>2, FS_Subset DEF Count

\* What opportunities cost, of which one costs MaxCost.
LEMMA CostTimes ==
  /\ MaxCost \in Nat \ {0}
  /\ \A a \in Nat : MaxCost * a \in Nat
  /\ \A a \in Int : MaxCost * a \in Int
  /\ \A a, b \in Int : MaxCost * (a + b) = MaxCost * a + MaxCost * b
  /\ \A a, b \in Int : a <= b => MaxCost * a <= MaxCost * b
  /\ MaxCost * 0 = 0 /\ MaxCost * 1 = MaxCost
<1>1. MaxCost \in Nat \ {0}
  BY SessionAssumption
<1>2. \A n \in Nat, a \in Nat : n * a \in Nat
  OBVIOUS
<1>3. \A n \in Nat, a \in Int : n * a \in Int
  OBVIOUS
<1>4. \A n \in Nat, a, b \in Int : n * (a + b) = n * a + n * b
  OBVIOUS
<1>5. \A n \in Nat, a, b \in Int : a <= b => n * a <= n * b
  OBVIOUS
<1>6. \A n \in Nat : n * 0 = 0 /\ n * 1 = n
  OBVIOUS
<1> QED
  BY <1>1, <1>2, <1>3, <1>4, <1>5, <1>6

\* All of a batch, market by market.
LEMMA CostSum ==
  ASSUME NEW list \in Seq(Markets)
  PROVE  Total([m \in Markets |-> MaxCost * Count(list, m)]) = MaxCost * Len(list)
<1> DEFINE costs(l) == [m \in Markets |-> MaxCost * Count(l, m)]
           P == {n \in Nat : \A l \in Seq(Markets) : Len(l) = n => Total(costs(l)) = MaxCost * n}
<1>0. \A l \in Seq(Markets) : costs(l) \in [Markets -> Int]
  <2> SUFFICES ASSUME NEW l \in Seq(Markets), NEW m \in Markets
               PROVE  MaxCost * Count(l, m) \in Int
    OBVIOUS
  <2>1. Count(l, m) \in Int
    BY CountType
  <2> QED
    BY <2>1, CostTimes
<1>1. 0 \in P
  <2> SUFFICES ASSUME NEW l \in Seq(Markets), Len(l) = 0
               PROVE  Total(costs(l)) = 0
    BY CostTimes
  <2>1. l = <<>>
    OBVIOUS
  <2>2. \A m \in Markets : costs(l)[m] = 0
    BY <2>1, CountNone, CostTimes
  <2>3. Total(costs(l)) = Total(costs(l)) + Total(costs(l))
    BY <1>0, <2>2, CallersFinite, TotalPlus DEF Added
  <2>4. Total(costs(l)) \in Int
    BY <1>0, CallersFinite, TotalType
  <2> HIDE DEF costs
  <2> QED
    BY <2>3, <2>4
<1>2. ASSUME NEW n \in Nat, n \in P
      PROVE  n + 1 \in P
  <2> SUFFICES ASSUME NEW l \in Seq(Markets), Len(l) = n + 1
               PROVE  Total(costs(l)) = MaxCost * (n + 1)
    OBVIOUS
  <2> DEFINE front == [i \in 1..n |-> l[i]]
             e     == l[n + 1]
             point == [m \in Markets |-> IF m = e THEN MaxCost ELSE 0]
  <2>1. front \in Seq(Markets) /\ Len(front) = n /\ e \in Markets
    OBVIOUS
  <2>2. l = Append(front, e)
    OBVIOUS
  <2>3. Total(costs(front)) = MaxCost * n
    BY <1>2, <2>1
  <2>6. point \in [Markets -> Int] /\ MaxCost \in Int
    BY CostTimes
  <2>4. Total(point) = MaxCost
    BY <2>1, <2>6, CallersFinite, TotalPoint
  <2>5. \A m \in Markets : costs(l)[m] = costs(front)[m] + point[m]
    <3> HIDE DEF front, e
    <3> SUFFICES ASSUME NEW m \in Markets
                 PROVE  MaxCost * Count(l, m) = MaxCost * Count(front, m) + point[m]
      OBVIOUS
    <3>1. Count(l, m) = Count(front, m) + (IF e = m THEN 1 ELSE 0)
      BY <2>1, <2>2, CountAppend
    <3>2. Count(front, m) \in Int
      BY <2>1, CountType
    <3>3. CASE e = m
      <4>1. MaxCost * (Count(front, m) + 1) = MaxCost * Count(front, m) + MaxCost
        BY <3>2, CostTimes
      <4> QED
        BY <3>1, <3>3, <4>1
    <3>4. CASE e # m
      <4>1. Count(l, m) = Count(front, m) /\ point[m] = 0
        BY <3>1, <3>2, <3>4
      <4>2. MaxCost * Count(front, m) \in Int
        BY <3>2, CostTimes
      <4> QED
        BY <4>1, <4>2
    <3> QED
      BY <3>3, <3>4
  <2>7. Total(costs(l)) = Total(costs(front)) + Total(point)
    <3>1. costs(l) \in [Markets -> Int] /\ costs(front) \in [Markets -> Int]
      BY <1>0, <2>1
    <3> DEFINE f == costs(front)
               h == costs(l)
    <3>2. /\ f \in [Markets -> Int] /\ point \in [Markets -> Int] /\ h \in [Markets -> Int]
          /\ Added(h, f, point, Markets) /\ IsFiniteSet(Markets)
      BY <2>5, <2>6, <3>1, CallersFinite DEF Added
    <3> HIDE DEF f, h, point
    <3>3. Total(h) = Total(f) + Total(point)
      BY <3>2, TotalPlus
    <3> QED
      BY <3>3 DEF f, h
  <2>8. MaxCost * (n + 1) = MaxCost * n + MaxCost
    BY CostTimes
  <2> QED
    BY <2>3, <2>4, <2>7, <2>8
<1>3. Nat \subseteq P
  <2> HIDE DEF P
  <2> QED
    BY <1>1, <1>2, SetInduction
<1>4. Len(list) \in Nat /\ Len(list) \in P
  BY <1>3
<1>5. Total(costs(list)) = MaxCost * Len(list)
  <2> HIDE DEF costs
  <2> QED
    BY <1>4
<1> QED
  BY <1>5

-----------------------------------------------------------------------------
(* Cycles *)

LEMMA CyclesInit == Init => Cycles
BY SessionAssumption DEF Init, Cycles, Callers, Loops

\* The steps of the event loop leave what a caller holds alone.
LEMMA CyclesLoop ==
  ASSUME TypeOK, Cycles,
         \/ Start
         \/ \E l \in Loops : LoopStep(l)
         \/ \E s \in Stoppers : Stop(s) \/ StopStep(s)
         \/ \E r \in Requests : RunOnce(r)
  PROVE  Cycles'
<1> USE SessionAssumption DEF TypeOK, Cycles, Callers, Loops
<1>1. CASE Start
  <2>1. /\ started' = started + 1 /\ started \in Nat
        /\ loop' = [loop EXCEPT ![started'] = "ready"]
        /\ UNCHANGED <<stage, batch, approved>>
    BY <1>1 DEF Start, cycle
  <2>2. \A l \in Loops : /\ l > started' => loop'[l] = "none"
                         /\ loop'[l] \in {"none", "ready"} => stage'[l] = "idle"
    BY <2>1
  <2> QED
    BY <2>1, <2>2
<1>2. ASSUME NEW l \in Loops, Wake(l)
      PROVE  Cycles'
  <2>1. CASE started \in stopped
    BY <1>2, <2>1 DEF Wake, End
  <2>2. CASE started \notin stopped
    BY <1>2, <2>2 DEF Wake, Enter
  <2> QED
    BY <2>1, <2>2
<1>3. ASSUME NEW l \in Loops, CycleDone(l)
      PROVE  Cycles'
  <2>1. loop' = [loop EXCEPT ![l] = loop'[l]]
    <3>1. \/ \E how : End(l, how)
          \/ loop' = [loop EXCEPT ![l] = "ready"]
      BY <1>3 DEF CycleDone, Over
    <3> QED
      BY <3>1 DEF End
  <2>3. l <= started
    <3>1. loop[l] = "cycle"
      BY <1>3 DEF CycleDone
    <3>2. ~(l > started) /\ l \in Int /\ started \in Int
      BY <3>1
    <3> QED
      BY <3>2
  <2>2. stage' = [stage EXCEPT ![l] = "idle"] /\ stage[l] \in Over
    BY <1>3 DEF CycleDone, Enter
  <2> QED
    BY <1>3, <2>1, <2>2, <2>3 DEF CycleDone, Over
<1>4. ASSUME NEW l \in Loops, Cancelled(l)
      PROVE  Cycles'
  BY <1>4 DEF Cancelled, End, cycle
<1>5. ASSUME NEW s \in Stoppers, Stop(s)
      PROVE  Cycles'
  BY <1>5 DEF Stop, cycle
<1>6. ASSUME NEW s \in Stoppers, StopTimeout(s)
      PROVE  Cycles'
  BY <1>6 DEF StopTimeout, cycle
<1>7. ASSUME NEW s \in Stoppers, StopReturn(s)
      PROVE  Cycles'
  BY <1>7 DEF StopReturn, cycle
<1>8. ASSUME NEW r \in Requests, RunOnce(r)
      PROVE  Cycles'
  BY <1>8 DEF RunOnce, Enter, runtime
<1> QED
  BY <1>1, <1>2, <1>3, <1>4, <1>5, <1>6, <1>7, <1>8 DEF LoopStep, StopStep

\* A worker fills its batch once, judges it away and commits what it approved.
LEMMA CyclesWorker ==
  ASSUME TypeOK, Cycles, NEW c \in Callers, WorkerStep(c)
  PROVE  Cycles'
<1> DEFINE Known(l) == /\ l > started => loop[l] = "none"
                       /\ loop[l] \in {"none", "ready"} => stage[l] = "idle"
           Held(d) == /\ stage[d] # "judge" => batch[d] = <<>>
                      /\ stage[d] \notin {"judge", "commit"} => approved[d] = <<>>
                      /\ Len(batch[d]) + Len(approved[d]) <= MaxBatch
<1>1. /\ \A l \in Loops : Known(l)
      /\ \A d \in Callers : Held(d)
  BY DEF Cycles
<1>2. /\ batch[c] \in Seq(Markets) /\ approved[c] \in Seq(Markets)
      /\ stage \in [Callers -> Stages] /\ batch \in [Callers -> Seq(Markets)]
      /\ approved \in [Callers -> Seq(Markets)]
  BY DEF TypeOK
<1>3. UNCHANGED <<started, loop>>
  BY DEF WorkerStep, Guard, Source, Judge, Judged, Commit, Record, RecordFails, Answer, runtime
<1>4. \A d \in Callers \ {c} : UNCHANGED <<stage[d], batch[d], approved[d]>>
  BY <1>2 DEF WorkerStep, Guard, Source, Judge, Judged, Commit, Record, RecordFails, Answer,
              Enter, TypeOK
<1>5. stage[c] = "idle" => FALSE
  BY DEF WorkerStep, Guard, Source, Judge, Judged, Commit, Record, RecordFails, Answer, Over
<1>6. \A l \in Loops : Known(l)'
  <2>1. ASSUME NEW l \in Loops, l # c
        PROVE  Known(l)'
    BY <1>1, <1>3, <1>4, <2>1 DEF Callers
  <2>2. c \in Loops => Known(c)'
    BY <1>1, <1>3, <1>5
  <2> QED
    BY <2>1, <2>2
<1>7. Held(c)'
  <2>1. CASE Guard(c)
    BY <1>1, <1>2, <2>1 DEF Guard, Enter
  <2>2. CASE Source(c)
    <3>1. approved[c] = <<>> /\ batch[c] = <<>>
      BY <1>1, <2>2 DEF Source
    <3>2. ASSUME NEW b \in SeqOf(Markets, MaxBatch)
          PROVE  Len(b) <= MaxBatch
      <4>1. PICK n \in 0..MaxBatch : b \in [1..n -> Markets]
        BY DEF SeqOf
      <4>2. n \in Nat /\ n <= MaxBatch
        BY SessionAssumption
      <4> QED
        BY <4>1, <4>2
    <3>3. CASE \E b \in SeqOf(Markets, MaxBatch) \ {<<>>} :
                 batch' = [batch EXCEPT ![c] = b] /\ Enter(c, "judge")
      <4>1. PICK b \in SeqOf(Markets, MaxBatch) :
                 batch' = [batch EXCEPT ![c] = b] /\ Enter(c, "judge")
        BY <3>3
      <4>2. b \in Seq(Markets) /\ Len(b) <= MaxBatch
        BY <3>2, BatchType
      <4>3. UNCHANGED approved
        BY <2>2 DEF Source
      <4> QED
        BY <1>2, <3>1, <4>1, <4>2, <4>3 DEF Enter
    <3>4. CASE \E result \in {"record", "record failure"} :
                 Enter(c, result) /\ UNCHANGED batch
      BY <1>1, <1>2, <2>2, <3>1, <3>4 DEF Source, Enter
    <3> QED
      BY <2>2, <3>3, <3>4 DEF Source
  <2>3. CASE Judge(c)
    <3>1. /\ batch[c] # <<>> /\ batch'[c] = Tail(batch[c])
          /\ UNCHANGED stage /\ stage[c] = "judge"
      BY <1>2, <2>3 DEF Judge
    <3>2. Len(batch'[c]) = Len(batch[c]) - 1
      BY <1>2, <3>1
    <3>3. approved'[c] = approved[c] \/ approved'[c] = Append(approved[c], Head(batch[c]))
      BY <1>2, <2>3 DEF Judge
    <3>4. Len(approved'[c]) <= Len(approved[c]) + 1 /\ Len(approved'[c]) \in Nat
      BY <1>2, <3>1, <3>3
    <3> QED
      BY <1>1, <1>2, <3>1, <3>2, <3>4, SessionAssumption
  <2>4. CASE Judged(c)
    BY <1>1, <1>2, <2>4 DEF Judged, Enter
  <2>5. CASE Commit(c)
    BY <1>1, <1>2, <2>5, SessionAssumption DEF Commit, Enter
  <2>6. CASE Record(c) \/ RecordFails(c) \/ Answer(c)
    BY <1>1, <1>2, <2>6 DEF Record, RecordFails, Answer, Enter, Over
  <2> QED
    BY <2>1, <2>2, <2>3, <2>4, <2>5, <2>6 DEF WorkerStep
<1>8. \A d \in Callers : Held(d)'
  <2>1. ASSUME NEW d \in Callers, d # c
        PROVE  Held(d)'
    BY <1>1, <1>4, <2>1
  <2> QED
    BY <1>7, <2>1
<1> QED
  BY <1>6, <1>8 DEF Cycles

LEMMA CyclesNext == TypeOK /\ Cycles /\ [Next]_vars => Cycles'
<1> SUFFICES ASSUME TypeOK, Cycles, [Next]_vars
             PROVE  Cycles'
  OBVIOUS
<1>1. CASE (\E m \in Markets, k \in Legs : Settle(m, k)) \/ Reset
  BY <1>1 DEF Settle, Reset, Cycles, runtime, cycle
<1>2. CASE Revalue
  BY <1>2 DEF Revalue, Cycles, runtime, cycle
<1>3. CASE UNCHANGED vars
  BY <1>3 DEF vars, runtime, cycle, Cycles
<1> QED
  BY <1>1, <1>2, <1>3, CyclesLoop, CyclesWorker DEF Next

-----------------------------------------------------------------------------
(* Exposure *)

\* What each caller has approved and not committed, in all and in one market.
Lens(held)      == [c \in Callers |-> Len(held[c])]
Counts(held, m) == [c \in Callers |-> Count(held[c], m)]

LEMMA HeldType ==
  ASSUME NEW held \in [Callers -> Seq(Markets)]
  PROVE  /\ Lens(held) \in [Callers -> Nat] /\ Lens(held) \in [Callers -> Int]
         /\ \A m : Counts(held, m) \in [Callers -> Nat] /\ Counts(held, m) \in [Callers -> Int]
         /\ Total(Lens(held)) \in Int /\ \A m : Total(Counts(held, m)) \in Int
<1>1. Lens(held) \in [Callers -> Nat] /\ Lens(held) \in [Callers -> Int]
  BY DEF Lens
<1>2. \A m : Counts(held, m) \in [Callers -> Nat] /\ Counts(held, m) \in [Callers -> Int]
  BY CountType DEF Counts
<1> QED
  BY <1>1, <1>2, CallersFinite, TotalType

\* What the positions of each market have cost.
ByMarket(held) == [m \in Markets |-> Total(held[m])]

LEMMA CostType ==
  ASSUME NEW held \in [Markets -> [Legs -> Nat]]
  PROVE  /\ \A m \in Markets : held[m] \in [Legs -> Int] /\ Total(held[m]) \in Int
         /\ ByMarket(held) \in [Markets -> Int] /\ Total(ByMarket(held)) \in Int
<1>1. ASSUME NEW m \in Markets
      PROVE  held[m] \in [Legs -> Int] /\ Total(held[m]) \in Int
  <2>1. held[m] \in [Legs -> Int]
    OBVIOUS
  <2> QED
    BY <2>1, CallersFinite, TotalType
<1>2. ByMarket(held) \in [Markets -> Int]
  BY <1>1 DEF ByMarket
<1> QED
  BY <1>1, <1>2, CallersFinite, TotalType

LEMMA LimitTypes == {MaxTotalExposure, MaxMarketExposure} \subseteq Nat
BY SessionAssumption

\* What the limits bound: what is booked, and what the approved can cost.
CapitalParts ==
  /\ Total(ByMarket(cost)) + MaxCost * Total(Lens(approved)) <= MaxTotalExposure + Slack
  /\ \A m \in Markets :
       Total(cost[m]) + MaxCost * Total(Counts(approved, m)) <= MaxMarketExposure + Slack

LEMMA ExposureMeans ==
  /\ Exposure = Total(ByMarket(cost))
  /\ \A m \in Markets : MarketExposure(m) = Total(cost[m])
BY DEF Exposure, MarketExposure, Sum, Total, ByMarket

LEMMA CapitalMeans == CapitalBounded <=> CapitalParts
<1>1. \A f : Sum(f) = Total(f)
  BY DEF Sum, Total
<1> QED
  BY <1>1, ExposureMeans DEF CapitalBounded, CapitalParts, Lens, Counts

LEMMA SlackType == Slack \in Nat /\ Slack + 1 = MaxCost * (Cardinality(Callers) * MaxBatch)
<1>1. Cardinality(Callers) \in Nat \ {0} /\ {MaxBatch, MaxCost} \subseteq Nat \ {0}
  BY CallersFinite, SessionAssumption
<1>2. \A a \in Nat \ {0}, b \in Nat \ {0} : a * b \in Nat \ {0}
  OBVIOUS
<1> DEFINE n == Cardinality(Callers) * MaxBatch
           k == MaxCost * n
<1>3. n \in Nat \ {0}
  BY <1>1, <1>2
<1> HIDE DEF n
<1>4. k \in Nat \ {0}
  BY <1>1, <1>2, <1>3
<1> HIDE DEF k
<1> QED
  BY <1>4 DEF Slack, k, n

\* What all callers together can have approved.
LEMMA HeldBound ==
  ASSUME NEW held \in [Callers -> Seq(Markets)], \A c \in Callers : Len(held[c]) <= MaxBatch
  PROVE  /\ MaxCost * Total(Lens(held)) <= Slack + 1
         /\ \A m : MaxCost * Total(Counts(held, m)) <= Slack + 1
<1> DEFINE all == Cardinality(Callers) * MaxBatch
<1>1. \A c \in Callers : Lens(held)[c] <= MaxBatch
  BY DEF Lens
<1>2. ASSUME NEW m, NEW c \in Callers
      PROVE  Counts(held, m)[c] <= MaxBatch
  <2>1. held[c] \in Seq(Markets)
    OBVIOUS
  <2>2. Count(held[c], m) \in Nat /\ Count(held[c], m) <= Len(held[c])
    BY <2>1, CountType, CountLen
  <2> QED
    BY <2>1, <2>2, SessionAssumption DEF Counts
<1>3. MaxBatch \in Nat /\ IsFiniteSet(Callers)
  BY SessionAssumption, CallersFinite
<1>4. Total(Lens(held)) <= all
  BY <1>1, <1>3, HeldType, TotalBound
<1>5. ASSUME NEW m
      PROVE  Total(Counts(held, m)) <= all
  BY <1>2, <1>3, HeldType, TotalBound
<1>6. all \in Int
  BY <1>3, CallersFinite
<1>7. MaxCost * all = Slack + 1
  BY SlackType
<1> HIDE DEF all
<1>8. MaxCost * Total(Lens(held)) <= MaxCost * all
  BY <1>4, <1>6, HeldType, CostTimes
<1>9. ASSUME NEW m
      PROVE  MaxCost * Total(Counts(held, m)) <= MaxCost * all
  BY <1>5, <1>6, HeldType, CostTimes
<1> QED
  BY <1>7, <1>8, <1>9

LEMMA CapitalInit == Init => CapitalParts
<1> SUFFICES ASSUME Init
             PROVE  CapitalParts
  OBVIOUS
<1>1. approved \in [Callers -> Seq(Markets)] /\ cost \in [Markets -> [Legs -> Nat]]
  BY TypeInit DEF TypeOK
<1>2. \A c \in Callers : Len(approved[c]) <= 0
  BY DEF Init
<1>3. Cardinality(Callers) * 0 = 0 /\ Cardinality(Markets) * 0 = 0 /\ Cardinality(Legs) * 0 = 0
  BY CallersFinite, FS_CardinalityType
<1>4. \A m \in Markets : Total(cost[m]) <= 0
  <2> SUFFICES ASSUME NEW m \in Markets
               PROVE  Total(cost[m]) <= 0
    OBVIOUS
  <2>1. cost[m] \in [Legs -> Int] /\ \A k \in Legs : cost[m][k] <= 0
    BY <1>1, CostType DEF Init, NoPosition
  <2> QED
    BY <1>3, <2>1, CallersFinite, TotalBound
<1>5. Total(ByMarket(cost)) <= 0
  <2>1. ByMarket(cost) \in [Markets -> Int] /\ \A m \in Markets : ByMarket(cost)[m] <= 0
    BY <1>1, <1>4, CostType DEF ByMarket
  <2> QED
    BY <1>3, <2>1, CallersFinite, TotalBound
<1>6. Total(Lens(approved)) <= 0
  <2> DEFINE f == Lens(approved)
  <2>1. f \in [Callers -> Int] /\ \A c \in Callers : f[c] <= 0
    BY <1>1, <1>2, HeldType DEF Lens
  <2> HIDE DEF f
  <2>2. Total(f) <= 0
    BY <1>3, <2>1, CallersFinite, TotalBound
  <2> QED
    BY <2>2 DEF f
<1>7. ASSUME NEW m
      PROVE  Total(Counts(approved, m)) <= 0
  <2> DEFINE f == Counts(approved, m)
  <2>1. f \in [Callers -> Int]
    BY <1>1, HeldType
  <2>2. \A c \in Callers : f[c] <= 0
    BY CountNone DEF Counts, Init
  <2> HIDE DEF f
  <2>3. Total(f) <= 0
    BY <1>3, <2>1, <2>2, CallersFinite, TotalBound
  <2> QED
    BY <2>3 DEF f
<1>8. MaxCost * Total(Lens(approved)) <= 0 /\ MaxCost * Total(Lens(approved)) \in Int
  BY <1>1, <1>6, HeldType, CostTimes
<1>9. ASSUME NEW m
      PROVE  MaxCost * Total(Counts(approved, m)) <= 0
             /\ MaxCost * Total(Counts(approved, m)) \in Int
  <2>1. Total(Counts(approved, m)) \in Int
    BY <1>1, HeldType
  <2>2. MaxCost * Total(Counts(approved, m)) <= MaxCost * 0
    BY <1>7, <2>1, CostTimes
  <2> QED
    BY <2>1, <2>2, CostTimes
<1>10. Total(ByMarket(cost)) + MaxCost * Total(Lens(approved)) <= MaxTotalExposure + Slack
  BY <1>1, <1>5, <1>8, CostType, LimitTypes, SlackType
<1>11. ASSUME NEW m \in Markets
       PROVE  Total(cost[m]) + MaxCost * Total(Counts(approved, m)) <= MaxMarketExposure + Slack
  <2>1. Total(cost[m]) <= 0 /\ Total(cost[m]) \in Int
    BY <1>1, <1>4, CostType
  <2> QED
    BY <1>9, <2>1, LimitTypes, SlackType
<1> QED
  BY <1>10, <1>11 DEF CapitalParts

\* An approval is judged by the account as it is, so it passes the limits by no
\* more than what the others hold approved.
LEMMA CapitalJudge ==
  ASSUME TypeOK, TypeOK', Cycles', CapitalParts, NEW c \in Callers, Judge(c)
  PROVE  CapitalParts'
<1> DEFINE e == Head(batch[c])
<1>3. approved' \in [Callers -> Seq(Markets)] /\ cost \in [Markets -> [Legs -> Nat]]
  BY DEF TypeOK
<1>1. CASE UNCHANGED approved
  BY <1>1 DEF Judge, CapitalParts, Lens, Counts, ByMarket, account
<1>2. CASE /\ \E stake \in 1..MaxTradeNotional : WithinLimits(e, stake)
           /\ approved' = [approved EXCEPT ![c] = Append(@, e)]
  <2>1. UNCHANGED cost
    BY DEF Judge, account
  <2>2. batch[c] \in Seq(Markets) /\ batch[c] # <<>> /\ approved \in [Callers -> Seq(Markets)]
    BY DEF Judge, TypeOK
  <2>3. e \in Markets /\ approved[c] \in Seq(Markets)
    BY <2>2
  <2> HIDE DEF e
  <2>4. Total(ByMarket(cost)) + 1 <= MaxTotalExposure /\ Total(cost[e]) + 1 <= MaxMarketExposure
    <3>1. PICK stake \in 1..MaxTradeNotional :
            /\ Total(ByMarket(cost)) + stake <= MaxTotalExposure
            /\ Total(cost[e]) + stake <= MaxMarketExposure
      BY <1>2, <2>3, ExposureMeans DEF WithinLimits
    <3>2. Total(ByMarket(cost)) \in Int /\ Total(cost[e]) \in Int
      BY <1>3, <2>3, CostType
    <3> QED
      BY <3>1, <3>2, LimitTypes, SessionAssumption
  <2>5. /\ MaxCost * Total(Lens(approved')) <= Slack + 1
        /\ MaxCost * Total(Lens(approved')) \in Int
        /\ \A m : /\ MaxCost * Total(Counts(approved', m)) <= Slack + 1
                  /\ MaxCost * Total(Counts(approved', m)) \in Int
    <3>1. ASSUME NEW d \in Callers
          PROVE  Len(approved'[d]) <= MaxBatch
      <4> DEFINE left == Len(batch'[d])
                 held == Len(approved'[d])
      <4>1. left + held <= MaxBatch
        BY DEF Cycles
      <4>2. batch' \in [Callers -> Seq(Markets)]
        BY DEF TypeOK
      <4>3. left \in Nat /\ held \in Nat
        BY <1>3, <4>2
      <4> HIDE DEF left, held
      <4>4. held <= MaxBatch
        BY <4>1, <4>3, SessionAssumption
      <4> QED
        BY <4>4 DEF held
    <3> QED
      BY <1>3, <3>1, HeldBound, HeldType, CostTimes
  <2>6. Total(ByMarket(cost')) + MaxCost * Total(Lens(approved')) <= MaxTotalExposure + Slack
    <3>1. Total(ByMarket(cost)) \in Int
      BY <1>3, CostType
    <3> QED
      BY <2>1, <2>4, <2>5, <3>1, LimitTypes, SlackType
  <2>7. ASSUME NEW m \in Markets
        PROVE  Total(cost'[m]) + MaxCost * Total(Counts(approved', m)) <= MaxMarketExposure + Slack
    <3>1. CASE m = e
      <4>1. Total(cost[e]) \in Int
        BY <1>3, <2>3, CostType
      <4> QED
        BY <2>1, <2>4, <2>5, <3>1, <4>1, LimitTypes, SlackType
    <3>2. CASE m # e
      <4>1. Count(approved[c], m) \in Nat
        BY <2>3, CountType
      <4>2. Count(Append(approved[c], e), m) = Count(approved[c], m)
        BY <2>3, <3>2, <4>1, CountAppend
      <4>3. \A d \in Callers : Count(approved'[d], m) = Count(approved[d], m)
        BY <1>2, <2>2, <4>2
      <4>4. Counts(approved', m) = Counts(approved, m)
        BY <4>3 DEF Counts
      <4> QED
        BY <2>1, <4>4 DEF CapitalParts
    <3> QED
      BY <3>1, <3>2
  <2> QED
    BY <2>6, <2>7 DEF CapitalParts
<1> QED
  BY <1>1, <1>2 DEF Judge

\* What is bought of a batch costs no more than its opportunities can.
LEMMA PurchaseCost ==
  ASSUME TypeOK, NEW list \in Seq(Markets), NEW bought \in Purchases(list), NEW next,
         next = [m \in Markets |-> [k \in Legs |-> cost[m][k] + bought[m][k]]]
  PROVE  /\ Total(ByMarket(next)) <= Total(ByMarket(cost)) + MaxCost * Len(list)
         /\ \A m \in Markets : Total(next[m]) <= Total(cost[m]) + MaxCost * Count(list, m)
<1> DEFINE counts == [m \in Markets |-> MaxCost * Count(list, m)]
           most   == [m \in Markets |-> ByMarket(cost)[m] + counts[m]]
<1>1. /\ cost \in [Markets -> [Legs -> Nat]] /\ bought \in [Markets -> [Legs -> Nat]]
      /\ next \in [Markets -> [Legs -> Nat]]
  BY PurchaseType DEF TypeOK
<1>2. ASSUME NEW m \in Markets
      PROVE  counts[m] \in Int
  <2>1. Count(list, m) \in Int
    BY CountType
  <2> QED
    BY <2>1, CostTimes
<1>3. ASSUME NEW m \in Markets
      PROVE  Total(next[m]) <= Total(cost[m]) + MaxCost * Count(list, m)
  <2>1. /\ next[m] \in [Legs -> Int] /\ cost[m] \in [Legs -> Int] /\ bought[m] \in [Legs -> Int]
        /\ Total(next[m]) \in Int /\ Total(cost[m]) \in Int /\ Total(bought[m]) \in Int
    BY <1>1, CostType
  <2>2. Added(next[m], cost[m], bought[m], Legs)
    BY DEF Added
  <2>3. Total(next[m]) = Total(cost[m]) + Total(bought[m])
    <3> DEFINE f == cost[m]
               g == bought[m]
               h == next[m]
    <3>1. /\ f \in [Legs -> Int] /\ g \in [Legs -> Int] /\ h \in [Legs -> Int]
          /\ Added(h, f, g, Legs) /\ IsFiniteSet(Legs)
      BY <2>1, <2>2, CallersFinite
    <3> HIDE DEF f, g, h
    <3>2. Total(h) = Total(f) + Total(g)
      BY <3>1, TotalPlus
    <3> QED
      BY <3>2 DEF f, g, h
  <2>4. Total(bought[m]) <= MaxCost * Count(list, m)
    BY DEF Purchases, Sum, Total
  <2> QED
    BY <1>2, <2>1, <2>3, <2>4
<1>4. /\ counts \in [Markets -> Int] /\ ByMarket(cost) \in [Markets -> Int]
      /\ ByMarket(next) \in [Markets -> Int]
  BY <1>1, <1>2, CostType
<1>5. Total(counts) = MaxCost * Len(list)
  BY CostSum
<1>6. ASSUME NEW m \in Markets
      PROVE  ByMarket(next)[m] <= most[m]
  BY <1>3 DEF ByMarket
<1>7. most \in [Markets -> Int]
  <2> HIDE DEF counts
  <2> QED
    BY <1>4
<1>8. Added(most, ByMarket(cost), counts, Markets)
  BY DEF Added
<1> HIDE DEF counts, most
<1>9. Total(most) = Total(ByMarket(cost)) + Total(counts)
  <2> DEFINE f == ByMarket(cost)
  <2>1. /\ f \in [Markets -> Int] /\ counts \in [Markets -> Int] /\ most \in [Markets -> Int]
        /\ Added(most, f, counts, Markets) /\ IsFiniteSet(Markets)
    BY <1>4, <1>7, <1>8, CallersFinite
  <2> HIDE DEF f
  <2>2. Total(most) = Total(f) + Total(counts)
    BY <2>1, TotalPlus
  <2> QED
    BY <2>2 DEF f
<1>10. Total(ByMarket(next)) <= Total(most)
  BY <1>4, <1>6, <1>7, CallersFinite, TotalMono
<1> QED
  BY <1>3, <1>5, <1>9, <1>10

\* A commit books what the approved opportunities cost, or less.
LEMMA CapitalCommit ==
  ASSUME TypeOK, TypeOK', CapitalParts, NEW c \in Callers, Commit(c)
  PROVE  CapitalParts'
<1> DEFINE list == approved[c]
<1>1. /\ list \in Seq(Markets) /\ Len(list) \in Nat
      /\ \A m : Count(list, m) \in Nat
      /\ approved' = [approved EXCEPT ![c] = <<>>]
      /\ approved \in [Callers -> Seq(Markets)]
      /\ approved' \in [Callers -> Seq(Markets)]
  BY CountType DEF TypeOK, Commit
<1>2. Total(Lens(approved)) = Total(Lens(approved')) + Len(list)
  <2>1. Without(Lens(approved'), Lens(approved), c, Callers) /\ Lens(approved)[c] = Len(list)
    BY <1>1 DEF Without, Lens
  <2>2. Lens(approved) \in [Callers -> Int] /\ Lens(approved') \in [Callers -> Int]
    BY <1>1, HeldType
  <2> QED
    BY <2>1, <2>2, CallersFinite, TotalDrop
<1>3. ASSUME NEW m
      PROVE  Total(Counts(approved, m)) = Total(Counts(approved', m)) + Count(list, m)
  <2>1. Without(Counts(approved', m), Counts(approved, m), c, Callers)
    BY <1>1, CountNone DEF Without, Counts
  <2>2. Counts(approved, m) \in [Callers -> Int] /\ Counts(approved', m) \in [Callers -> Int]
    BY <1>1, HeldType
  <2>3. Counts(approved, m)[c] = Count(list, m)
    BY DEF Counts
  <2> QED
    BY <2>1, <2>2, <2>3, CallersFinite, TotalDrop
<1>4. cost \in [Markets -> [Legs -> Nat]] /\ cost' \in [Markets -> [Legs -> Nat]]
  BY DEF TypeOK
<1>5. /\ Total(ByMarket(cost')) <= Total(ByMarket(cost)) + MaxCost * Len(list)
      /\ \A m \in Markets : Total(cost'[m]) <= Total(cost[m]) + MaxCost * Count(list, m)
  <2>1. PICK bought \in Purchases(list) :
          cost' = [m \in Markets |-> [k \in Legs |-> cost[m][k] + bought[m][k]]]
    BY DEF Commit
  <2> HIDE DEF list
  <2> QED
    BY <1>1, <2>1, PurchaseCost
<1>6. /\ Total(ByMarket(cost')) \in Int /\ Total(Lens(approved')) \in Int
      /\ Total(ByMarket(cost)) \in Int
      /\ \A m : Total(Counts(approved', m)) \in Int
      /\ \A m \in Markets : Total(cost[m]) \in Int /\ Total(cost'[m]) \in Int
  BY <1>1, <1>4, HeldType, CostType
<1>7. Total(ByMarket(cost')) + MaxCost * Total(Lens(approved')) <= MaxTotalExposure + Slack
  <2> HIDE DEF list
  <2>1. /\ MaxCost * Total(Lens(approved))
             = MaxCost * Total(Lens(approved')) + MaxCost * Len(list)
        /\ MaxCost * Total(Lens(approved')) \in Int /\ MaxCost * Len(list) \in Int
    BY <1>1, <1>2, <1>6, CostTimes
  <2>2. Total(ByMarket(cost)) + MaxCost * Total(Lens(approved)) <= MaxTotalExposure + Slack
    BY DEF CapitalParts
  <2> QED
    BY <1>5, <1>6, <2>1, <2>2, SlackType, LimitTypes
<1>8. ASSUME NEW m \in Markets
      PROVE  Total(cost'[m]) + MaxCost * Total(Counts(approved', m)) <= MaxMarketExposure + Slack
  <2> HIDE DEF list
  <2>1. /\ MaxCost * Total(Counts(approved, m))
             = MaxCost * Total(Counts(approved', m)) + MaxCost * Count(list, m)
        /\ MaxCost * Total(Counts(approved', m)) \in Int /\ MaxCost * Count(list, m) \in Int
    <3>1. Count(list, m) \in Int /\ Total(Counts(approved', m)) \in Int
      <4>1. Count(list, m) \in Nat
        BY <1>1
      <4>2. Total(Counts(approved', m)) \in Int
        BY <1>6
      <4> QED
        BY <4>1, <4>2
    <3>2. Total(Counts(approved, m)) = Total(Counts(approved', m)) + Count(list, m)
      BY <1>3
    <3> DEFINE a == Total(Counts(approved', m))
               b == Count(list, m)
    <3>3. a \in Int /\ b \in Int /\ Total(Counts(approved, m)) = a + b
      BY <3>1, <3>2
    <3> HIDE DEF a, b
    <3>4. /\ MaxCost * Total(Counts(approved, m)) = MaxCost * a + MaxCost * b
          /\ MaxCost * a \in Int /\ MaxCost * b \in Int
      BY <3>3, CostTimes
    <3> QED
      BY <3>4 DEF a, b
  <2>2. Total(cost[m]) + MaxCost * Total(Counts(approved, m)) <= MaxMarketExposure + Slack
    BY DEF CapitalParts
  <2> QED
    BY <1>5, <1>6, <2>1, <2>2, SlackType, LimitTypes
<1> QED
  BY <1>7, <1>8 DEF CapitalParts

\* What is settled or reset only lowers the exposure.
LEMMA CapitalRelease ==
  ASSUME TypeOK, TypeOK', CapitalParts, UNCHANGED approved,
         \A m \in Markets, k \in Legs : cost'[m][k] <= cost[m][k]
  PROVE  CapitalParts'
<1>1. /\ cost \in [Markets -> [Legs -> Nat]] /\ cost' \in [Markets -> [Legs -> Nat]]
      /\ approved \in [Callers -> Seq(Markets)]
  BY DEF TypeOK
<1>2. ASSUME NEW m \in Markets
      PROVE  Total(cost'[m]) <= Total(cost[m])
  <2>1. cost'[m] \in [Legs -> Int] /\ cost[m] \in [Legs -> Int]
    BY <1>1, CostType
  <2> QED
    BY <2>1, CallersFinite, TotalMono
<1>3. Total(ByMarket(cost')) <= Total(ByMarket(cost))
  <2>1. ByMarket(cost') \in [Markets -> Int] /\ ByMarket(cost) \in [Markets -> Int]
    BY <1>1, CostType
  <2>2. \A m \in Markets : ByMarket(cost')[m] <= ByMarket(cost)[m]
    BY <1>2 DEF ByMarket
  <2> QED
    BY <2>1, <2>2, CallersFinite, TotalMono
<1>4. Lens(approved') = Lens(approved) /\ \A m : Counts(approved', m) = Counts(approved, m)
  BY DEF Lens, Counts
<1>5. /\ Total(ByMarket(cost')) \in Int /\ Total(ByMarket(cost)) \in Int
      /\ MaxCost * Total(Lens(approved)) \in Int
      /\ \A m : MaxCost * Total(Counts(approved, m)) \in Int
      /\ \A m \in Markets : Total(cost[m]) \in Int /\ Total(cost'[m]) \in Int
  BY <1>1, HeldType, CostType, CostTimes
<1>6. Total(ByMarket(cost')) + MaxCost * Total(Lens(approved')) <= MaxTotalExposure + Slack
  BY <1>3, <1>4, <1>5, LimitTypes, SlackType DEF CapitalParts
<1>7. ASSUME NEW m \in Markets
      PROVE  Total(cost'[m]) + MaxCost * Total(Counts(approved', m)) <= MaxMarketExposure + Slack
  <2>1. Total(cost[m]) + MaxCost * Total(Counts(approved, m)) <= MaxMarketExposure + Slack
    BY DEF CapitalParts
  <2>2. Counts(approved', m) = Counts(approved, m)
    BY <1>4
  <2> QED
    BY <1>2, <1>5, <2>1, <2>2, LimitTypes, SlackType
<1> QED
  BY <1>6, <1>7 DEF CapitalParts

LEMMA CapitalNext == TypeOK /\ Cycles /\ CapitalParts /\ [Next]_vars => CapitalParts'
<1> SUFFICES ASSUME TypeOK, Cycles, CapitalParts, [Next]_vars
             PROVE  CapitalParts'
  OBVIOUS
<1>1. TypeOK' /\ Cycles'
  BY TypeNext, CyclesNext
<1>2. CASE UNCHANGED <<cost, approved>>
  BY <1>2 DEF CapitalParts, Lens, Counts, ByMarket
<1>3. ASSUME NEW c \in Callers, WorkerStep(c)
      PROVE  CapitalParts'
  BY <1>1, <1>2, <1>3, CapitalJudge, CapitalCommit
  DEF WorkerStep, Guard, Source, Judged, Record, RecordFails, Answer, account
<1>4. ASSUME NEW n \in Markets, NEW j \in Legs, Settle(n, j)
      PROVE  CapitalParts'
  <2>1. PICK left \in 0..(cost[n][j] - 1) : cost' = [cost EXCEPT ![n][j] = left]
    BY <1>4 DEF Settle
  <2>2. cost \in [Markets -> [Legs -> Nat]] /\ left <= cost[n][j]
    BY DEF TypeOK
  <2>3. \A m \in Markets, k \in Legs : cost'[m][k] <= cost[m][k]
    BY <2>1, <2>2
  <2> QED
    BY <1>1, <1>4, <2>3, CapitalRelease DEF Settle, cycle
<1>5. CASE Reset
  <2>1. \A m \in Markets, k \in Legs : cost'[m][k] <= cost[m][k]
    BY <1>5 DEF Reset, NoPosition, TypeOK
  <2> QED
    BY <1>1, <1>5, <2>1, CapitalRelease DEF Reset, cycle
<1>6. CASE Revalue \/ Start \/ (\E l \in Loops : LoopStep(l))
           \/ (\E s \in Stoppers : Stop(s) \/ StopStep(s))
           \/ (\E r \in Requests : RunOnce(r)) \/ UNCHANGED vars
  BY <1>2, <1>6
  DEF Revalue, Start, LoopStep, Wake, CycleDone, Cancelled, Stop, StopStep, StopTimeout,
      StopReturn, RunOnce, cycle, account, vars
<1> QED
  BY <1>3, <1>4, <1>5, <1>6 DEF Next

\* Overlapping cycles, unbooked batches and unjudged slippage and fees carry the
\* purchases over the limits by less than what all that callers can approve
\* together costs, in all and in every market.
THEOREM CapitalIsBounded == Spec => []CapitalBounded
<1>1. Init => TypeOK /\ Cycles /\ CapitalParts
  BY TypeInit, CyclesInit, CapitalInit
<1>2. TypeOK /\ Cycles /\ CapitalParts /\ [Next]_vars => (TypeOK /\ Cycles /\ CapitalParts)'
  BY TypeNext, CyclesNext, CapitalNext
<1>3. CapitalParts => CapitalBounded
  BY CapitalMeans
<1> QED
  BY <1>1, <1>2, <1>3, PTL DEF Spec
=============================================================================
