------------------------ MODULE ExecutionPoolProofs ------------------------
(***************************************************************************)
(* Theorems about ExecutionPool, for every finite set of tasks, every       *)
(* number of workers, attempts and starts, and every priority.              *)
(***************************************************************************)
EXTENDS ExecutionPool, FiniteSetTheorems, TLAPS

-----------------------------------------------------------------------------
(* Types *)

LEMMA TypeInit == Init => TypeOK
<1> SUFFICES ASSUME Init
             PROVE  TypeOK
  OBVIOUS
<1>1. "none" \in ThreadPcs \ Busy /\ "QUEUED" \in Statuses
  BY DEF ThreadPcs, Looping, Busy, Statuses
<1>2. "idle" \in ControlPcs
  BY DEF ControlPcs
<1>3. 0 \in 0..MaxStarts /\ 0 \in 0..MaxAttempts /\ NoTask \notin Tasks
  BY PoolAssumption
<1>4. /\ pc \in [Threads -> ThreadPcs]
      /\ hand \in [Threads -> Tasks \union {NoTask}]
      /\ \A w \in Threads : hand[w] \in Tasks <=> pc[w] \in Busy
      /\ tries \in [Threads -> 0..MaxAttempts]
  BY <1>1, <1>3 DEF Init
<1>5. /\ phase \in [Tasks -> {"new", "accepted", "pushed"}]
      /\ status \in [Tasks -> Statuses]
      /\ done \in [Tasks -> BOOLEAN]
  BY <1>1 DEF Init
<1>6. /\ {running, accepting, drain, stopEvent, alive} \subseteq BOOLEAN
  BY DEF Init
<1>7. gen \in 0..MaxStarts /\ unfinished \in Int
  BY <1>3 DEF Init
<1>8. /\ control \in ControlPcs
      /\ victim \in Tasks \union {NoTask}
      /\ control \notin {"cancel", "declare"}
  BY <1>2 DEF Init
<1>9. {queue, pending, late, slipped, dropped} \subseteq SUBSET Tasks
  BY DEF Init
<1> QED
  BY <1>4, <1>5, <1>6, <1>7, <1>8, <1>9 DEF TypeOK

\* A thread that goes on holding what it holds.
LEMMA GotoType ==
  ASSUME TypeOK, NEW w \in Threads, NEW where \in ThreadPcs,
         Goto(w, where), hand' = hand, pc[w] \in Busy <=> where \in Busy
  PROVE  /\ pc' \in [Threads -> ThreadPcs]
         /\ \A v \in Threads : hand'[v] \in Tasks <=> pc'[v] \in Busy
BY DEF TypeOK, Goto

LEMMA SubmitType ==
  ASSUME TypeOK, NEW t \in Tasks, Submit(t) \/ Push(t)
  PROVE  TypeOK'
<1>1. CASE Submit(t)
  BY <1>1 DEF TypeOK, Submit, flags, threads, heap, caller, history
<1>2. CASE Push(t)
  BY <1>2 DEF TypeOK, Push, flags, threads, caller
<1> QED
  BY <1>1, <1>2

LEMMA ThreadType ==
  ASSUME TypeOK, NEW w \in Threads, Thread(w)
  PROVE  TypeOK'
<1> USE DEF flags, threads, heap, tasks, caller, history
<1>1. CASE Test(w)
  <2>1. PICK where \in {"exit", "pop"} : Goto(w, where)
    BY <1>1 DEF Test
  <2>2. /\ pc' \in [Threads -> ThreadPcs]
        /\ \A v \in Threads : hand'[v] \in Tasks <=> pc'[v] \in Busy
    BY <1>1, <2>1, GotoType DEF Test, ThreadPcs, Busy, Looping
  <2> QED
    BY <1>1, <2>2 DEF Test, TypeOK
<1>2. CASE Pop(w)
  <2>1. PICK t \in Tasks : hand' = [hand EXCEPT ![w] = t] /\ Goto(w, "begin")
                          /\ slipped' \in SUBSET Tasks /\ queue' = queue \ {t}
    BY <1>2 DEF Pop, TypeOK
  <2>2. /\ pc' \in [Threads -> ThreadPcs]
        /\ hand' \in [Threads -> Tasks \union {NoTask}]
        /\ \A v \in Threads : hand'[v] \in Tasks <=> pc'[v] \in Busy
    BY <2>1 DEF TypeOK, Goto, ThreadPcs, Busy, Looping
  <2> QED
    BY <1>2, <2>1, <2>2 DEF Pop, TypeOK
<1>3. CASE PopTimeout(w)
  <2>1. /\ pc' \in [Threads -> ThreadPcs]
        /\ \A v \in Threads : hand'[v] \in Tasks <=> pc'[v] \in Busy
    BY <1>3, GotoType DEF PopTimeout, ThreadPcs, Busy, Looping
  <2> QED
    BY <1>3, <2>1 DEF PopTimeout, TypeOK
<1>4. CASE Begin(w)
  <2>1. /\ pc' \in [Threads -> ThreadPcs]
        /\ \A v \in Threads : hand'[v] \in Tasks <=> pc'[v] \in Busy
    BY <1>4, GotoType DEF Begin, ThreadPcs, Busy, Looping
  <2>2. tries' \in [Threads -> 0..MaxAttempts]
    <3>1. 1 \in 0..MaxAttempts
      BY PoolAssumption
    <3> QED
      BY <1>4, <3>1 DEF Begin, TypeOK
  <2>3. status' \in [Tasks -> Statuses]
    BY <1>4 DEF Begin, TypeOK, Statuses
  <2> QED
    BY <1>4, <2>1, <2>2, <2>3 DEF Begin, TypeOK
<1>5. CASE Retry(w)
  <2>1. tries' \in [Threads -> 0..MaxAttempts]
    BY <1>5, PoolAssumption DEF Retry, TypeOK
  <2> QED
    BY <1>5, <2>1 DEF Retry, TypeOK
<1>6. CASE Conclude(w)
  <2>1. /\ pc' \in [Threads -> ThreadPcs]
        /\ \A v \in Threads : hand'[v] \in Tasks <=> pc'[v] \in Busy
    BY <1>6, GotoType DEF Conclude, ThreadPcs, Busy, Looping
  <2>2. tries' \in [Threads -> 0..MaxAttempts]
    <3>1. 0 \in 0..MaxAttempts
      BY PoolAssumption
    <3> QED
      BY <1>6, <3>1 DEF Conclude, TypeOK
  <2>3. status' \in [Tasks -> Statuses]
    BY <1>6 DEF Conclude, TypeOK, Statuses, Verdicts
  <2> QED
    BY <1>6, <2>1, <2>2, <2>3 DEF Conclude, TypeOK
<1>7. CASE Complete(w)
  <2>1. /\ pc' \in [Threads -> ThreadPcs]
        /\ \A v \in Threads : hand'[v] \in Tasks <=> pc'[v] \in Busy
    BY <1>7, GotoType DEF Complete, ThreadPcs, Busy, Looping
  <2> QED
    BY <1>7, <2>1 DEF Complete, TypeOK
<1>8. CASE TaskDone(w)
  <2>1. /\ pc' \in [Threads -> ThreadPcs]
        /\ hand' \in [Threads -> Tasks \union {NoTask}]
        /\ \A v \in Threads : hand'[v] \in Tasks <=> pc'[v] \in Busy
    BY <1>8, PoolAssumption DEF TaskDone, TypeOK, Goto, ThreadPcs, Busy, Looping
  <2> QED
    BY <1>8, <2>1 DEF TaskDone, TypeOK
<1>9. CASE Exit(w)
  <2>1. /\ pc' \in [Threads -> ThreadPcs]
        /\ \A v \in Threads : hand'[v] \in Tasks <=> pc'[v] \in Busy
    BY <1>9, GotoType DEF Exit, ThreadPcs, Busy, Looping
  <2>2. running' \in BOOLEAN
    BY <1>9 DEF Exit
  <2> QED
    BY <1>9, <2>1, <2>2 DEF Exit, TypeOK
<1>10. CASE Die(w)
  <2>1. /\ pc' \in [Threads -> ThreadPcs]
        /\ \A v \in Threads : hand'[v] \in Tasks <=> pc'[v] \in Busy
    BY <1>10, GotoType DEF Die, ThreadPcs, Busy, Looping
  <2> QED
    BY <1>10, <2>1 DEF Die, TypeOK
<1>11. CASE Raise(w)
  <2>1. /\ pc' \in [Threads -> ThreadPcs]
        /\ \A v \in Threads : hand'[v] \in Tasks <=> pc'[v] \in Busy
    BY <1>11, GotoType DEF Raise, ThreadPcs, Busy, Looping
  <2>2. tries' \in [Threads -> 0..MaxAttempts]
    <3>1. 0 \in 0..MaxAttempts
      BY PoolAssumption
    <3> QED
      BY <1>11, <3>1 DEF Raise, TypeOK
  <2>3. status' \in [Tasks -> Statuses]
    BY <1>11 DEF Raise, TypeOK, Statuses, Verdicts
  <2> QED
    BY <1>11, <2>1, <2>2, <2>3 DEF Raise, TypeOK
<1>12. CASE Catch(w)
  <2>1. /\ pc' \in [Threads -> ThreadPcs]
        /\ \A v \in Threads : hand'[v] \in Tasks <=> pc'[v] \in Busy
    BY <1>12, GotoType DEF Catch, ThreadPcs, Busy, Looping
  <2> QED
    BY <1>12, <2>1 DEF Catch, TypeOK
<1> QED
  BY <1>1, <1>2, <1>3, <1>4, <1>5, <1>6, <1>7, <1>8, <1>9, <1>10, <1>11, <1>12 DEF Thread

LEMMA CallType ==
  ASSUME TypeOK, Start \/ Stop \/ StopStopped
  PROVE  TypeOK'
<1> USE DEF flags, threads, heap, tasks, caller, history
<1>1. CASE Start
  <2>1. gen' \in 0..MaxStarts
    BY <1>1, PoolAssumption DEF Start, TypeOK
  <2>2. control' \in ControlPcs \ {"cancel", "declare"}
    BY <1>1 DEF Start, ControlPcs
  <2> QED
    BY <1>1, <2>1, <2>2 DEF Start, TypeOK
<1>2. CASE Stop
  <2>1. control' \in ControlPcs \ {"cancel", "declare"}
    BY <1>2 DEF Stop, ControlPcs, Joining, Marking
  <2> QED
    BY <1>2, <2>1 DEF Stop, TypeOK
<1>3. CASE StopStopped
  BY <1>3 DEF StopStopped, TypeOK
<1> QED
  BY <1>1, <1>2, <1>3

LEMMA ControllerType ==
  ASSUME TypeOK, Controller
  PROVE  TypeOK'
<1> USE DEF flags, threads, heap, tasks, caller, history
<1>1. ASSUME NEW i \in 1..Workers, StartThread(i)
      PROVE  TypeOK'
  <2>0. /\ pc' = [pc EXCEPT ![<<gen, i>>] = "loop"]
        /\ hand' = hand
    BY <1>1 DEF StartThread, Goto
  <2>1. /\ pc' \in [Threads -> ThreadPcs]
        /\ \A v \in Threads : hand'[v] \in Tasks <=> pc'[v] \in Busy
    <3>1. pc[<<gen, i>>] \notin Busy /\ "loop" \notin Busy /\ "loop" \in ThreadPcs
      BY <1>1 DEF StartThread, Busy, ThreadPcs, Looping
    <3> QED
      BY <2>0, <3>1 DEF TypeOK
  <2>2. control' \in ControlPcs \ {"cancel", "declare"}
    BY <1>1 DEF StartThread, ControlPcs, Joining, Marking
  <2> QED
    BY <1>1, <2>0, <2>1, <2>2 DEF StartThread, TypeOK
<1>2. CASE List
  BY <1>2 DEF List, TypeOK, ControlPcs
<1>3. CASE Clear
  <2>1. Cardinality(queue) \in Int
    BY PoolAssumption, FS_Subset, FS_CardinalityType DEF TypeOK
  <2> QED
    BY <1>3, <2>1 DEF Clear, TypeOK, ControlPcs, Marking
<1>4. CASE Mark
  <2>1. PICK t \in pending : /\ pending' = pending \ {t}
                             /\ victim' = IF done[t] THEN NoTask ELSE t
                             /\ control' = IF done[t] THEN "mark" ELSE "cancel"
    BY <1>4 DEF Mark
  <2>2. t \in Tasks
    BY DEF TypeOK
  <2> QED
    BY <1>4, <2>1, <2>2 DEF Mark, TypeOK, ControlPcs, Marking
<1>5. CASE Cancel
  BY <1>5 DEF Cancel, TypeOK, ControlPcs, Marking, Statuses
<1>6. CASE Declare
  BY <1>6 DEF Declare, TypeOK, ControlPcs, Marking
<1>7. CASE Marked
  BY <1>7 DEF Marked, TypeOK, ControlPcs, Joining
<1>8. CASE Join
  BY <1>8 DEF Join, TypeOK, ControlPcs, Joining
<1>9. CASE Look
  BY <1>9 DEF Look, TypeOK, ControlPcs
<1>10. CASE Answer
  BY <1>10 DEF Answer, TypeOK, ControlPcs
<1> QED
  BY <1>1, <1>2, <1>3, <1>4, <1>5, <1>6, <1>7, <1>8, <1>9, <1>10 DEF Controller

LEMMA TypeStep == TypeOK /\ [Next]_vars => TypeOK'
<1> SUFFICES ASSUME TypeOK, [Next]_vars
             PROVE  TypeOK'
  OBVIOUS
<1>1. CASE UNCHANGED vars
  BY <1>1 DEF vars, flags, threads, heap, tasks, caller, history, TypeOK
<1> QED
  BY <1>1, SubmitType, ThreadType, CallType, ControllerType DEF Next

\* Types, and that a thread holds a task exactly while it is busy.
THEOREM TypeCorrect == Spec => []TypeOK
BY TypeInit, TypeStep, PTL DEF Spec

-----------------------------------------------------------------------------
(* One pool *)

Left == {"exit", "dying", "dead"}

\* Threads of an older start are past their loop, those of a later one do not
\* exist, and a pool said not to run has no thread that takes tasks.
Generations ==
  /\ \A w \in Threads : w[1] < gen => pc[w] \in {"dying", "dead"}
  /\ \A w \in Threads : w[1] > gen => pc[w] = "none"
  /\ ~running => \A w \in Threads : ~Working(w)

\* A thread leaves its loop only when told to, and a stop that saw no thread
\* alive saw all of them.
Told ==
  /\ ~stopEvent => \A w \in Newest : pc[w] \notin Left
  /\ control = "answer" /\ ~alive => \A w \in Threads : ~Working(w)

\* What start and stop have set by the time the controller is somewhere.
Calls ==
  /\ control = "start" => running /\ ~stopEvent
  /\ control # "start" => \A w \in Newest : pc[w] # "none"
  /\ control \notin {"idle", "start"} => stopEvent
  /\ running \/ stopEvent => gen # 0

PoolInv == Generations /\ Told /\ Calls

LEMMA PoolInit == Init => PoolInv
<1> SUFFICES ASSUME Init
             PROVE  PoolInv
  OBVIOUS
<1>1. \A w \in Threads : pc[w] = "none" /\ w[1] > gen /\ ~(w[1] < gen)
  BY DEF Init, Threads
<1>2. running = FALSE /\ stopEvent = FALSE /\ gen = 0 /\ control = "idle"
  BY DEF Init
<1>3. Newest = {}
  BY <1>1 DEF Newest
<1> QED
  BY <1>1, <1>2, <1>3 DEF PoolInv, Generations, Told, Calls, Working

\* Only threads of the newest start take tasks.
LEMMA WorkingIsNewest ==
  ASSUME TypeOK, Generations, NEW w \in Threads, Working(w)
  PROVE  w \in Newest /\ running
<1>1. w[1] \in Int /\ gen \in Int
  BY PoolAssumption DEF TypeOK, Threads
<1> QED
  BY <1>1 DEF Generations, Working, Newest

LEMMA PoolSame ==
  ASSUME PoolInv, UNCHANGED <<running, stopEvent, gen, pc, control, alive>>
  PROVE  PoolInv'
BY DEF PoolInv, Generations, Told, Calls, Working, Newest

\* A thread that goes on from one place in its loop to another, or leaves it
\* because it was told to.
LEMMA PoolGoes ==
  ASSUME TypeOK, PoolInv, NEW w \in Threads, NEW where \in Looping \union {"exit"},
         pc[w] \in Looping, Goto(w, where), where = "exit" => stopEvent,
         UNCHANGED <<running, stopEvent, gen, control, alive>>
  PROVE  PoolInv'
<1> USE DEF Looping, Busy
<1>1. Working(w) /\ w \in Newest /\ running
  BY WorkingIsNewest DEF PoolInv, Working
<1>2. pc' \in [Threads -> ThreadPcs] /\ pc' = [pc EXCEPT ![w] = where]
  BY DEF TypeOK, Goto, ThreadPcs
<1>3. w[1] = gen /\ gen \in Int
  BY <1>1, PoolAssumption DEF Newest, TypeOK
<1>4. Generations'
  BY <1>1, <1>2, <1>3 DEF PoolInv, Generations, TypeOK
<1>5. Told'
  BY <1>1, <1>2 DEF PoolInv, Told, TypeOK, Left, Newest
<1>6. Calls'
  BY <1>1, <1>2 DEF PoolInv, Calls, TypeOK, Newest
<1> QED
  BY <1>4, <1>5, <1>6 DEF PoolInv

LEMMA PoolThread ==
  ASSUME TypeOK, PoolInv, NEW w \in Threads, Thread(w)
  PROVE  PoolInv'
<1> USE DEF flags, threads, heap, tasks, caller, history
<1>1. CASE Test(w)
  <2>1. PICK where \in {"exit", "pop"} : Goto(w, where) /\ (where = "exit" => stopEvent)
    BY <1>1 DEF Test
  <2> QED
    BY <1>1, <2>1, PoolGoes DEF Test, Looping
<1>2. CASE Pop(w)
  BY <1>2, PoolGoes DEF Pop, Looping, Busy
<1>3. CASE PopTimeout(w)
  BY <1>3, PoolGoes DEF PopTimeout, Looping
<1>4. CASE Begin(w)
  BY <1>4, PoolGoes DEF Begin, Looping, Busy
<1>5. CASE Retry(w)
  BY <1>5, PoolSame DEF Retry
<1>6. CASE Conclude(w)
  BY <1>6, PoolGoes DEF Conclude, Looping, Busy
<1>7. CASE Complete(w)
  BY <1>7, PoolGoes DEF Complete, Looping, Busy
<1>8. CASE TaskDone(w)
  BY <1>8, PoolGoes DEF TaskDone, Looping, Busy
<1>9. CASE Exit(w)
  <2>1. pc[w] = "exit" /\ Working(w) /\ w \in Newest /\ running
    BY <1>9, WorkingIsNewest DEF Exit, PoolInv, Working
  <2>2. pc' = [pc EXCEPT ![w] = "dying"] /\ w[1] = gen /\ gen \in Int
    BY <1>9, <2>1, PoolAssumption DEF Exit, Goto, Newest, TypeOK
  <2>3. stopEvent
    BY <2>1 DEF PoolInv, Told, Left
  <2>4. \A v \in Threads : Working(v)' => v # w /\ Working(v) /\ v \in Newest
    BY <2>2, WorkingIsNewest DEF Working, TypeOK, PoolInv
  <2>5. ~running' => \A v \in Threads : ~Working(v)'
    BY <1>9, <2>1, <2>4 DEF Exit, Working, IsAlive
  <2>6. Generations'
    BY <1>9, <2>2, <2>5 DEF Exit, Generations, PoolInv, TypeOK
  <2>7. Told'
    BY <1>9, <2>3, <2>4 DEF Exit, Told, PoolInv
  <2>8. Calls'
    BY <1>9, <2>1, <2>2, <2>3 DEF Exit, Calls, PoolInv, TypeOK, Newest
  <2> QED
    BY <2>6, <2>7, <2>8 DEF PoolInv
<1>10. CASE Die(w)
  <2>1. pc[w] = "dying" /\ pc' = [pc EXCEPT ![w] = "dead"]
    BY <1>10 DEF Die, Goto
  <2>2. Generations'
    BY <1>10, <2>1 DEF Die, Generations, PoolInv, TypeOK, Working
  <2>3. Told'
    BY <1>10, <2>1 DEF Die, Told, PoolInv, TypeOK, Working, Left, Newest
  <2>4. Calls'
    BY <1>10, <2>1 DEF Die, Calls, PoolInv, TypeOK, Newest
  <2> QED
    BY <2>2, <2>3, <2>4 DEF PoolInv
<1>11. CASE Raise(w)
  BY <1>11, PoolGoes DEF Raise, Looping, Busy
<1>12. CASE Catch(w)
  BY <1>12, PoolGoes DEF Catch, Looping, Busy
<1> QED
  BY <1>1, <1>2, <1>3, <1>4, <1>5, <1>6, <1>7, <1>8, <1>9, <1>10, <1>11, <1>12 DEF Thread

LEMMA PoolCall ==
  ASSUME TypeOK, PoolInv, Start \/ Stop \/ StopStopped
  PROVE  PoolInv'
<1> USE DEF flags, threads, heap, tasks, caller, history
<1>1. CASE Start
  <2>1. gen \in Int /\ \A w \in Threads : w[1] \in Int
    BY PoolAssumption DEF TypeOK, Threads
  <2>2. \A w \in Threads : ~Working(w)
    BY <1>1 DEF Start, PoolInv, Generations
  <2>3. \A w \in Threads : w[1] < gen + 1 => pc[w] \in {"dying", "dead"}
    BY <1>1, <2>1, <2>2 DEF Start, PoolInv, Generations, Calls, Newest, Working
  <2>4. \A w \in Threads : ~(w[1] < gen + 1) => w[1] > gen /\ pc[w] = "none"
    BY <2>1 DEF PoolInv, Generations
  <2>5. Generations'
    BY <1>1, <2>1, <2>3, <2>4 DEF Start, Generations
  <2>6. Told'
    BY <1>1, <2>1, <2>4 DEF Start, Told, Newest, Left
  <2>7. Calls'
    BY <1>1, PoolAssumption DEF Start, Calls, TypeOK
  <2> QED
    BY <2>5, <2>6, <2>7 DEF PoolInv
<1>2. CASE Stop
  <2>1. control' \notin {"answer", "start"}
    BY <1>2 DEF Stop, Joining
  <2>2. Generations'
    BY <1>2 DEF Stop, PoolInv, Generations, Working
  <2>3. Told'
    BY <1>2, <2>1 DEF Stop, Told
  <2>4. Calls'
    BY <1>2, <2>1 DEF Stop, PoolInv, Calls, Newest
  <2> QED
    BY <2>2, <2>3, <2>4 DEF PoolInv
<1>3. CASE StopStopped
  BY <1>3, PoolSame DEF StopStopped
<1> QED
  BY <1>1, <1>2, <1>3

\* A step of the controller between its call and its answer.
LEMMA PoolWalks ==
  ASSUME PoolInv, UNCHANGED <<running, stopEvent, gen, pc>>,
         control \notin {"idle", "start"}, control' \notin {"start", "answer"}
  PROVE  PoolInv'
BY DEF PoolInv, Generations, Told, Calls, Working, Newest

LEMMA PoolController ==
  ASSUME TypeOK, PoolInv, Controller
  PROVE  PoolInv'
<1> USE DEF flags, threads, heap, tasks, caller, history
<1>1. ASSUME NEW i \in 1..Workers, StartThread(i)
      PROVE  PoolInv'
  <2>1. /\ control = "start" /\ pc' = [pc EXCEPT ![<<gen, i>>] = "loop"]
        /\ control' = IF i = Workers THEN "idle" ELSE "start"
        /\ UNCHANGED <<running, stopEvent, gen, alive>>
    BY <1>1 DEF StartThread, Goto
  <2>2. running /\ ~stopEvent /\ gen # 0
    BY <2>1 DEF PoolInv, Calls
  <2>3. <<gen, i>> \in Threads /\ gen \in Int
    BY <2>2, PoolAssumption DEF TypeOK, Threads
  <2>4. Generations'
    BY <2>1, <2>2, <2>3 DEF Generations, PoolInv, TypeOK
  <2>5. Told'
    BY <2>1, <2>2, <2>3 DEF Told, PoolInv, TypeOK, Newest, Left
  <2>6. i = Workers => \A w \in Newest : pc'[w] # "none"
    <3> SUFFICES ASSUME i = Workers, NEW w \in Newest
                 PROVE  pc'[w] # "none"
      OBVIOUS
    <3>1. w \in Threads /\ w = <<gen, w[2]>> /\ w[2] \in 1..Workers
      BY DEF Newest, Threads
    <3>2. CASE w[2] = i
      BY <2>1, <2>3, <3>1, <3>2 DEF TypeOK
    <3>3. CASE w[2] # i
      <4>1. w[2] \in 1..(i - 1) /\ w # <<gen, i>>
        BY <3>1, <3>3, PoolAssumption
      <4>2. pc[<<gen, w[2]>>] # "none"
        BY <1>1, <4>1 DEF StartThread
      <4> QED
        BY <2>1, <3>1, <4>1, <4>2 DEF TypeOK
    <3> QED
      BY <3>2, <3>3
  <2>7. Calls'
    BY <2>1, <2>2, <2>6 DEF Calls, Newest
  <2> QED
    BY <2>4, <2>5, <2>7 DEF PoolInv
<1>2. CASE List
  BY <1>2, PoolWalks DEF List
<1>3. CASE Clear
  BY <1>3, PoolWalks DEF Clear
<1>4. CASE Mark
  <2>1. control' \in {"mark", "cancel"}
    BY <1>4 DEF Mark
  <2> QED
    BY <1>4, <2>1, PoolWalks DEF Mark
<1>5. CASE Cancel
  BY <1>5, PoolWalks DEF Cancel
<1>6. CASE Declare
  BY <1>6, PoolWalks DEF Declare
<1>7. CASE Marked
  BY <1>7, PoolWalks DEF Marked, Joining
<1>8. CASE Join
  BY <1>8, PoolWalks DEF Join
<1>9. CASE Look
  <2>1. ~alive' => \A w \in Newest : ~Working(w)
    BY <1>9 DEF Look, IsAlive, Working
  <2>2. \A w \in Threads : Working(w) => w \in Newest
    BY WorkingIsNewest DEF PoolInv
  <2>3. Generations'
    BY <1>9 DEF Look, PoolInv, Generations, Working
  <2>4. Told'
    BY <1>9, <2>1, <2>2 DEF Look, PoolInv, Told, Working, Newest
  <2>5. Calls'
    BY <1>9 DEF Look, PoolInv, Calls, Newest
  <2> QED
    BY <2>3, <2>4, <2>5 DEF PoolInv
<1>10. CASE Answer
  <2>1. ~running' => ~alive
    BY <1>10 DEF Answer
  <2>2. Generations'
    BY <1>10, <2>1 DEF Answer, PoolInv, Generations, Told, Working
  <2>3. Told'
    BY <1>10 DEF Answer, PoolInv, Told, Newest
  <2>4. Calls'
    BY <1>10 DEF Answer, PoolInv, Calls, Newest
  <2> QED
    BY <2>2, <2>3, <2>4 DEF PoolInv
<1> QED
  BY <1>1, <1>2, <1>3, <1>4, <1>5, <1>6, <1>7, <1>8, <1>9, <1>10 DEF Controller

LEMMA PoolStep == TypeOK /\ PoolInv /\ [Next]_vars => PoolInv'
<1> SUFFICES ASSUME TypeOK, PoolInv, [Next]_vars
             PROVE  PoolInv'
  OBVIOUS
<1> USE DEF flags, threads, heap, tasks, caller, history
<1>1. CASE UNCHANGED vars
  BY <1>1, PoolSame DEF vars
<1>2. ASSUME NEW t \in Tasks, Submit(t) \/ Push(t)
      PROVE  PoolInv'
  <2>1. CASE Submit(t)
    BY <2>1, PoolSame DEF Submit
  <2>2. CASE Push(t)
    BY <2>2, PoolSame DEF Push
  <2> QED
    BY <1>2, <2>1, <2>2
<1> QED
  BY <1>1, <1>2, PoolThread, PoolCall, PoolController DEF Next

\* start refuses exactly while a thread may still take a task, so the threads
\* of two starts never work at a time.
THEOREM PoolsAreApart == Spec => []OnePool
<1>1. TypeOK /\ PoolInv => OnePool
  BY WorkingIsNewest DEF OnePool, PoolInv, Newest
<1> QED
  BY <1>1, TypeInit, TypeStep, PoolInit, PoolStep, PTL DEF Spec

-----------------------------------------------------------------------------
(* What a draining stop leaves behind *)

\* A thread that has left found the heap empty or did not look, and then the
\* controller clears it; a pool that was told to stop accepts no more.
LeftInv ==
  /\ stopEvent => ~accepting
  /\ control \in {"list", "clear"} => stopEvent /\ ~drain
  /\ (/\ stopEvent
      /\ control \notin {"list", "clear"}
      /\ ~drain \/ \E w \in Newest : pc[w] \in Left)
     => queue \subseteq late

LEMMA LeftInit == Init => LeftInv
BY DEF Init, LeftInv

\* A step that leaves the flags and the controller alone and adds nothing to
\* the heap, and in which no thread leaves its loop.
LEMMA LeftSame ==
  ASSUME LeftInv, UNCHANGED <<accepting, drain, stopEvent, gen, control, late>>,
         queue' \subseteq queue,
         \A v \in Newest : pc'[v] \in Left => pc[v] \in Left
  PROVE  LeftInv'
BY DEF LeftInv, Newest

\* A thread that goes where it is not gone, or was gone already.
LEMMA LeftGoes ==
  ASSUME TypeOK, LeftInv, NEW w \in Threads, NEW where, Goto(w, where),
         where \in Left => pc[w] \in Left,
         UNCHANGED <<accepting, drain, stopEvent, gen, control, late>>,
         queue' \subseteq queue
  PROVE  LeftInv'
<1>1. \A v \in Newest : pc'[v] \in Left => pc[v] \in Left
  BY DEF Goto, TypeOK, Newest
<1> QED
  BY <1>1, LeftSame

LEMMA LeftThread ==
  ASSUME TypeOK, LeftInv, NEW w \in Threads, Thread(w)
  PROVE  LeftInv'
<1> USE DEF flags, threads, heap, tasks, caller, history, Left
<1>1. CASE Test(w)
  <2>1. CASE stopEvent /\ (~drain \/ queue = {})
    BY <1>1, <2>1 DEF Test, LeftInv, Newest
  <2>2. CASE ~(stopEvent /\ (~drain \/ queue = {}))
    BY <1>1, <2>2, LeftGoes DEF Test
  <2> QED
    BY <2>1, <2>2
<1>2. CASE Pop(w)
  BY <1>2, LeftGoes DEF Pop
<1>3. CASE PopTimeout(w)
  BY <1>3, LeftGoes DEF PopTimeout
<1>4. CASE Begin(w)
  BY <1>4, LeftGoes DEF Begin
<1>5. CASE Retry(w)
  BY <1>5, LeftSame DEF Retry
<1>6. CASE Conclude(w)
  BY <1>6, LeftGoes DEF Conclude
<1>7. CASE Complete(w)
  BY <1>7, LeftGoes DEF Complete
<1>8. CASE TaskDone(w)
  BY <1>8, LeftGoes DEF TaskDone
<1>9. CASE Exit(w)
  BY <1>9, LeftGoes DEF Exit
<1>10. CASE Die(w)
  BY <1>10, LeftGoes DEF Die
<1>11. CASE Raise(w)
  BY <1>11, LeftGoes DEF Raise
<1>12. CASE Catch(w)
  BY <1>12, LeftGoes DEF Catch
<1> QED
  BY <1>1, <1>2, <1>3, <1>4, <1>5, <1>6, <1>7, <1>8, <1>9, <1>10, <1>11, <1>12 DEF Thread

LEMMA LeftStep == TypeOK /\ PoolInv /\ LeftInv /\ [Next]_vars => LeftInv'
<1> SUFFICES ASSUME TypeOK, PoolInv, LeftInv, [Next]_vars
             PROVE  LeftInv'
  OBVIOUS
<1> USE DEF flags, threads, heap, tasks, caller, history
<1>1. CASE UNCHANGED vars
  BY <1>1, LeftSame DEF vars
<1>2. ASSUME NEW t \in Tasks, Submit(t) \/ Push(t)
      PROVE  LeftInv'
  <2>1. CASE Submit(t)
    BY <2>1, LeftSame DEF Submit
  <2>2. CASE Push(t)
    BY <2>2 DEF Push, LeftInv, Newest
  <2> QED
    BY <1>2, <2>1, <2>2
<1>3. CASE Start
  BY <1>3 DEF Start, LeftInv
<1>4. CASE Stop
  <2>1. control' \in {"list", "clear"} => control' = "list" /\ ~drain'
    BY <1>4 DEF Stop, Joining
  <2>2. ~drain' => control' = "list"
    BY <1>4 DEF Stop
  <2>3. (\E w \in Newest : pc[w] \in Left) => queue \subseteq late
    BY <1>4 DEF Stop, PoolInv, Told, LeftInv
  <2> QED
    BY <1>4, <2>1, <2>2, <2>3 DEF Stop, LeftInv, Newest
<1>5. CASE StopStopped
  BY <1>5 DEF StopStopped, LeftInv, Newest
<1>6. ASSUME NEW i \in 1..Workers, StartThread(i)
      PROVE  LeftInv'
  BY <1>6 DEF StartThread, LeftInv, PoolInv, Calls
<1>7. CASE List
  BY <1>7 DEF List, LeftInv
<1>8. CASE Clear
  BY <1>8 DEF Clear, LeftInv
<1>9. CASE Mark \/ Cancel \/ Declare \/ Marked \/ Join \/ Look \/ Answer
  <2>1. /\ control \notin {"list", "clear"} /\ control' \notin {"list", "clear"}
        /\ UNCHANGED <<accepting, drain, stopEvent, gen, pc, queue, late>>
    BY <1>9 DEF Mark, Cancel, Declare, Marked, Join, Look, Answer, Joining
  <2> QED
    BY <2>1 DEF LeftInv, Newest
<1> QED
  BY <1>1, <1>2, LeftThread, <1>3, <1>4, <1>5, <1>6, <1>7, <1>8, <1>9
     DEF Next, Controller

\* A draining stop leaves in the heap only tasks whose submission it overtook,
\* whenever the last thread leaves.
THEOREM DrainsWhatItAccepted == Spec => []LeftBehindIsLate
<1>1. ASSUME TypeOK, PoolInv, LeftInv
      PROVE  LeftBehindIsLate
  <2> SUFFICES ASSUME stopEvent, drain, \A w \in Threads : ~Working(w)
               PROVE  queue \subseteq late
    BY DEF LeftBehindIsLate
  <2>1. control \notin {"list", "clear", "start"}
    BY <1>1 DEF LeftInv, PoolInv, Calls
  <2>2. <<gen, 1>> \in Newest
    BY <1>1, PoolAssumption DEF PoolInv, Calls, TypeOK, Newest, Threads
  <2>3. pc[<<gen, 1>>] \in Left
    BY <1>1, <2>1, <2>2 DEF PoolInv, Calls, Working, Newest, Left
  <2> QED
    BY <1>1, <2>1, <2>2, <2>3 DEF LeftInv
<1> QED
  BY <1>1, TypeInit, TypeStep, PoolInit, PoolStep, LeftInit, LeftStep, PTL DEF Spec

-----------------------------------------------------------------------------
(* Where a task is *)

\* Nobody has seen a task that was not pushed.
FreshInv ==
  \A t \in Tasks : phase[t] # "pushed" =>
    t \notin queue \union Taken \union pending \union {victim} /\ ~done[t]

\* Where a thread has not declared its task done yet, and where it has: between
\* the two is one that catches what was raised before or after.
Undone == {"begin", "attempt", "complete"}
Over   == {"done", "caught"}

\* A task is in one pair of hands or in the heap, and not done until the
\* thread that has it says so - unless it slipped through a clearing.
HeldInv ==
  /\ \A w, v \in Threads : hand[w] \in Tasks /\ hand[w] = hand[v] => w = v
  /\ queue \intersect Taken = {}
  /\ \A t \in queue : ~done[t]
  /\ \A w \in Threads : pc[w] \in Undone => hand[w] \in slipped \/ ~done[hand[w]]
  /\ \A w \in Threads : pc[w] \in Over => done[hand[w]]

\* What stop has listed is in the heap or slipped away, and after the clearing
\* only stop can end what did not slip.
ListedInv ==
  /\ control \notin Marking \union {"clear"} => pending = {}
  /\ control \notin {"cancel", "declare"} => victim = NoTask
  /\ victim \notin pending
  /\ control = "clear" => pending \subseteq queue \union slipped
  /\ control \in Marking => \A t \in Tasks : t \in pending \/ t = victim =>
       t \notin queue /\ (t \in slipped \/ (~done[t] /\ t \notin Taken))

\* What is pushed and not done can be found, and only late tasks are dropped.
LostInv ==
  /\ \A t \in Tasks : phase[t] = "pushed" /\ ~done[t] =>
       t \in queue \union Taken \union pending \union {victim} \union dropped
  /\ dropped \subseteq late
  /\ control = "clear" => queue \subseteq pending \union late

TaskInv == FreshInv /\ HeldInv /\ ListedInv /\ LostInv

LEMMA TaskInit == Init => TaskInv
<1> SUFFICES ASSUME Init
             PROVE  TaskInv
  OBVIOUS
<1>1. /\ queue = {} /\ pending = {} /\ dropped = {} /\ victim = NoTask /\ control = "idle"
      /\ \A t \in Tasks : phase[t] = "new" /\ ~done[t] /\ t # NoTask
      /\ \A w \in Threads : pc[w] = "none" /\ hand[w] = NoTask
      /\ NoTask \notin Tasks
  BY PoolAssumption DEF Init
<1>2. Taken = {}
  BY <1>1 DEF Taken
<1>3. FreshInv /\ LostInv
  BY <1>1, <1>2 DEF FreshInv, LostInv
<1>4. HeldInv
  BY <1>1, <1>2 DEF HeldInv, Undone, Over
<1>5. ListedInv
  BY <1>1, <1>2 DEF ListedInv, Marking
<1> QED
  BY <1>3, <1>4, <1>5 DEF TaskInv

\* Steps that move no task: what a thread does with the one it holds before it
\* is complete, and the controller outside the clearing and the marking.
LEMMA TaskQuiet ==
  ASSUME TaskInv,
         UNCHANGED <<hand, queue, phase, done, pending, victim, history>>,
         \A v \in Threads : /\ pc'[v] \in Undone => pc[v] \in Undone
                            /\ pc'[v] \in Over => pc[v] \in Over,
         \/ control' = control
         \/ {control, control'} \intersect (Marking \union {"clear"}) = {}
  PROVE  TaskInv'
<1>1. Taken' = Taken /\ UNCHANGED <<late, slipped, dropped>>
  BY DEF Taken, history
<1>2. FreshInv'
  BY <1>1 DEF TaskInv, FreshInv
<1>3. HeldInv'
  BY <1>1 DEF TaskInv, HeldInv
<1>4. ListedInv'
  BY <1>1 DEF TaskInv, ListedInv, Marking
<1>5. LostInv'
  BY <1>1 DEF TaskInv, LostInv
<1> QED
  BY <1>2, <1>3, <1>4, <1>5 DEF TaskInv

LEMMA TaskSubmit ==
  ASSUME TypeOK, LeftInv, TaskInv, NEW t \in Tasks, Submit(t) \/ Push(t)
  PROVE  TaskInv'
<1> USE DEF flags, threads, heap, caller, history
<1>1. Taken' = Taken
  BY DEF Submit, Push, Taken
<1>2. CASE Submit(t)
  <2>1. FreshInv' /\ LostInv'
    BY <1>1, <1>2 DEF Submit, TaskInv, FreshInv, LostInv, TypeOK
  <2>2. HeldInv' /\ ListedInv'
    BY <1>1, <1>2 DEF Submit, TaskInv, HeldInv, ListedInv
  <2> QED
    BY <2>1, <2>2 DEF TaskInv
<1>3. CASE Push(t)
  <2>1. /\ phase' = [phase EXCEPT ![t] = "pushed"] /\ queue' = queue \union {t}
        /\ late' = IF accepting THEN late ELSE late \union {t}
        /\ UNCHANGED <<hand, pc, done, control, pending, victim, slipped, dropped>>
    BY <1>3 DEF Push
  <2>2. /\ t \notin queue \union Taken \union pending \union {victim}
        /\ ~done[t]
    BY <1>3 DEF Push, TaskInv, FreshInv
  <2>3. FreshInv'
    BY <1>1, <2>1 DEF TaskInv, FreshInv, TypeOK
  <2>4. HeldInv'
    BY <1>1, <2>1, <2>2 DEF TaskInv, HeldInv
  <2>5. ListedInv'
    BY <1>1, <2>1, <2>2 DEF TaskInv, ListedInv
  <2>6. LostInv'
    <3>1. control = "clear" => ~accepting
      BY DEF LeftInv
    <3> QED
      BY <1>1, <2>1, <3>1 DEF TaskInv, LostInv, TypeOK
  <2> QED
    BY <2>3, <2>4, <2>5, <2>6 DEF TaskInv
<1> QED
  BY <1>2, <1>3

LEMMA TaskPop ==
  ASSUME TypeOK, TaskInv, NEW w \in Threads, Pop(w)
  PROVE  TaskInv'
<1>1. PICK t \in queue :
        /\ queue' = queue \ {t} /\ hand' = [hand EXCEPT ![w] = t]
        /\ pc' = [pc EXCEPT ![w] = "begin"]
        /\ slipped' = IF control = "clear" /\ t \in pending
                        THEN slipped \union {t} ELSE slipped
        /\ UNCHANGED <<phase, done, control, pending, victim, late, dropped>>
  BY DEF Pop, IsFirst, Goto, flags, tasks, caller
<1>2. pc[w] = "pop" /\ hand[w] \notin Tasks /\ t \in Tasks
  BY DEF Pop, TypeOK, Busy
<1>3. Taken' = Taken \union {t}
  BY <1>1, <1>2 DEF Taken, TypeOK
<1>4. t \notin Taken /\ ~done[t] /\ phase[t] = "pushed"
  BY <1>2 DEF TaskInv, HeldInv, FreshInv
<1>5. FreshInv'
  BY <1>1, <1>3, <1>4 DEF TaskInv, FreshInv
<1>6. HeldInv'
  <2>1. \A v \in Threads : hand[v] # t
    BY <1>2, <1>4 DEF Taken
  <2>2. \A u, v \in Threads : hand'[u] \in Tasks /\ hand'[u] = hand'[v] => u = v
    BY <1>1, <1>2, <2>1 DEF TaskInv, HeldInv, TypeOK
  <2>3. queue' \intersect Taken' = {} /\ \A u \in queue' : ~done'[u]
    BY <1>1, <1>3 DEF TaskInv, HeldInv
  <2>4. \A v \in Threads :
          /\ pc'[v] \in Undone => hand'[v] \in slipped' \/ ~done'[hand'[v]]
          /\ pc'[v] \in Over => done'[hand'[v]]
    BY <1>1, <1>4 DEF TaskInv, HeldInv, TypeOK, Undone, Over
  <2> QED
    BY <2>2, <2>3, <2>4 DEF HeldInv
<1>7. ListedInv'
  BY <1>1, <1>3, <1>4 DEF TaskInv, ListedInv, Marking
<1>8. LostInv'
  BY <1>1, <1>3 DEF TaskInv, LostInv
<1> QED
  BY <1>5, <1>6, <1>7, <1>8 DEF TaskInv

LEMMA TaskComplete ==
  ASSUME TypeOK, TaskInv, NEW w \in Threads, Complete(w) \/ Catch(w)
  PROVE  TaskInv'
<1> DEFINE t == hand[w]
<1>1. /\ pc[w] \in {"complete", "raised"} /\ done' = [done EXCEPT ![t] = TRUE]
      /\ \E where \in Over : pc' = [pc EXCEPT ![w] = where]
      /\ UNCHANGED <<hand, queue, phase, control, pending, victim, late, slipped, dropped>>
  BY DEF Complete, Catch, Over, Goto, flags, heap, caller, history
<1>2. t \in Tasks /\ t \in Taken
  BY <1>1 DEF TypeOK, Busy, Taken
<1>3. Taken' = Taken
  BY <1>1 DEF Taken
<1>4. t \notin queue /\ phase[t] = "pushed"
  BY <1>2 DEF TaskInv, HeldInv, FreshInv
<1> HIDE DEF t
<1>5. FreshInv'
  BY <1>1, <1>2, <1>3, <1>4 DEF TaskInv, FreshInv, TypeOK
<1>6. HeldInv'
  <2>1. \A v \in Threads \ {w} : hand[v] # t
    BY <1>2 DEF TaskInv, HeldInv, t
  <2>2. \A v \in Threads : pc'[v] \in Undone \union Over => hand[v] \in Tasks
    BY <1>1 DEF TypeOK, Busy, Undone, Over
  <2>3. /\ \A v \in Threads : pc'[v] \in Undone =>
             hand'[v] \in slipped' \/ ~done'[hand'[v]]
        /\ \A v \in Threads : pc'[v] \in Over => done'[hand'[v]]
    BY <1>1, <1>2, <2>1, <2>2 DEF TaskInv, HeldInv, TypeOK, t, Undone, Over
  <2> QED
    BY <1>1, <1>3, <1>4, <2>3 DEF TaskInv, HeldInv, TypeOK
<1>7. ListedInv'
  BY <1>1, <1>2, <1>3 DEF TaskInv, ListedInv, TypeOK
<1>8. LostInv'
  BY <1>1, <1>2, <1>3 DEF TaskInv, LostInv, TypeOK
<1> QED
  BY <1>5, <1>6, <1>7, <1>8 DEF TaskInv

LEMMA TaskPutDown ==
  ASSUME TypeOK, TaskInv, NEW w \in Threads, TaskDone(w)
  PROVE  TaskInv'
<1>1. /\ pc[w] \in Over /\ hand' = [hand EXCEPT ![w] = NoTask]
      /\ pc' = [pc EXCEPT ![w] = "loop"]
      /\ UNCHANGED <<queue, phase, done, control, pending, victim, late, slipped, dropped>>
  BY DEF TaskDone, Over, Goto, flags, tasks, caller, history
<1>2. hand[w] \in Tasks /\ done[hand[w]] /\ NoTask \notin Tasks
  BY <1>1, PoolAssumption DEF TypeOK, Busy, Over, TaskInv, HeldInv
<1>3. Taken' \subseteq Taken /\ \A t \in Taken : t # hand[w] => t \in Taken'
  BY <1>1, <1>2 DEF Taken, TypeOK
<1>4. FreshInv'
  BY <1>1, <1>3 DEF TaskInv, FreshInv
<1>5. HeldInv'
  <2>1. \A u, v \in Threads : hand'[u] \in Tasks /\ hand'[u] = hand'[v] => u = v
    BY <1>1, <1>2 DEF TaskInv, HeldInv, TypeOK
  <2>2. queue' \intersect Taken' = {} /\ \A u \in queue' : ~done'[u]
    BY <1>1, <1>3 DEF TaskInv, HeldInv
  <2>3. \A v \in Threads :
          /\ pc'[v] \in Undone => hand'[v] \in slipped' \/ ~done'[hand'[v]]
          /\ pc'[v] \in Over => done'[hand'[v]]
    BY <1>1 DEF TaskInv, HeldInv, TypeOK, Undone, Over
  <2> QED
    BY <2>1, <2>2, <2>3 DEF HeldInv
<1>6. ListedInv'
  BY <1>1, <1>3 DEF TaskInv, ListedInv
<1>7. LostInv'
  BY <1>1, <1>2, <1>3 DEF TaskInv, LostInv
<1> QED
  BY <1>4, <1>5, <1>6, <1>7 DEF TaskInv

LEMMA TaskThread ==
  ASSUME TypeOK, TaskInv, NEW w \in Threads, Thread(w)
  PROVE  TaskInv'
<1> USE DEF flags, heap, tasks, caller, Undone, Over
<1>1. CASE Test(w)
  BY <1>1, TaskQuiet DEF Test, Goto, TypeOK
<1>2. CASE PopTimeout(w)
  BY <1>2, TaskQuiet DEF PopTimeout, Goto, TypeOK
<1>3. CASE Begin(w)
  BY <1>3, TaskQuiet DEF Begin, Goto, TypeOK
<1>4. CASE Retry(w)
  BY <1>4, TaskQuiet DEF Retry
<1>5. CASE Conclude(w)
  BY <1>5, TaskQuiet DEF Conclude, Goto, TypeOK
<1>6. CASE Exit(w)
  BY <1>6, TaskQuiet DEF Exit, Goto, TypeOK
<1>7. CASE Die(w)
  BY <1>7, TaskQuiet DEF Die, Goto, TypeOK
<1>8. CASE Raise(w)
  BY <1>8, TaskQuiet DEF Raise, Goto, TypeOK
<1> QED
  BY <1>1, <1>2, <1>3, <1>4, <1>5, <1>6, <1>7, <1>8, TaskPop, TaskComplete, TaskPutDown
     DEF Thread

LEMMA TaskClearing ==
  ASSUME TypeOK, TaskInv, List \/ Clear
  PROVE  TaskInv'
<1> USE DEF flags, threads, tasks, history
<1>1. Taken' = Taken
  BY DEF List, Clear, Taken
<1>2. CASE List
  <2>1. /\ control = "list" /\ pending' = queue /\ control' = "clear" /\ victim = NoTask
        /\ UNCHANGED <<hand, pc, queue, phase, done, victim, late, slipped, dropped>>
    BY <1>2 DEF List, heap, TaskInv, ListedInv
  <2>2. NoTask \notin queue
    BY PoolAssumption DEF TypeOK
  <2>3. FreshInv' /\ HeldInv'
    BY <1>1, <2>1 DEF TaskInv, FreshInv, HeldInv
  <2>4. ListedInv'
    BY <1>1, <2>1, <2>2 DEF ListedInv, Marking
  <2>5. LostInv'
    BY <1>1, <2>1 DEF TaskInv, LostInv, ListedInv, Marking
  <2> QED
    BY <2>3, <2>4, <2>5 DEF TaskInv
<1>3. CASE Clear
  <2>1. /\ control = "clear" /\ queue' = {} /\ control' = "mark" /\ victim = NoTask
        /\ dropped' = dropped \union (queue \ pending)
        /\ UNCHANGED <<hand, pc, phase, done, pending, victim, late, slipped>>
    BY <1>3 DEF Clear, TaskInv, ListedInv
  <2>2. FreshInv' /\ HeldInv'
    BY <1>1, <2>1 DEF TaskInv, FreshInv, HeldInv
  <2>3. ListedInv'
    <3>1. \A t \in Tasks : t \in pending => t \in slipped \/ (~done[t] /\ t \notin Taken)
      BY <2>1 DEF TaskInv, ListedInv, HeldInv
    <3> QED
      BY <1>1, <2>1, <3>1, PoolAssumption DEF TaskInv, ListedInv, Marking
  <2>4. LostInv'
    BY <1>1, <2>1 DEF TaskInv, LostInv
  <2> QED
    BY <2>2, <2>3, <2>4 DEF TaskInv
<1> QED
  BY <1>2, <1>3

LEMMA TaskMarking ==
  ASSUME TypeOK, TaskInv, Mark \/ Cancel \/ Declare \/ Marked
  PROVE  TaskInv'
<1> USE DEF flags, threads, heap, tasks, history
<1>1. /\ Taken' = Taken
      /\ UNCHANGED <<hand, pc, queue, phase, late, slipped, dropped>>
  BY DEF Mark, Cancel, Declare, Marked, Taken
<1>2. CASE Mark
  <2>1. PICK t \in pending :
          /\ pending' = pending \ {t}
          /\ victim' = IF done[t] THEN NoTask ELSE t
          /\ control' = IF done[t] THEN "mark" ELSE "cancel"
    BY <1>2 DEF Mark
  <2>2. control = "mark" /\ victim = NoTask /\ done' = done /\ NoTask \notin Tasks
    BY <1>2, PoolAssumption DEF Mark, TaskInv, ListedInv
  <2>3. t \in Tasks
    BY DEF TypeOK
  <2>4. FreshInv' /\ LostInv'
    BY <1>1, <2>1, <2>2, <2>3 DEF TaskInv, FreshInv, LostInv
  <2>5. HeldInv'
    BY <1>1, <2>2 DEF TaskInv, HeldInv
  <2>6. ListedInv'
    BY <1>1, <2>1, <2>2, <2>3 DEF TaskInv, ListedInv, Marking, TypeOK
  <2> QED
    BY <2>4, <2>5, <2>6 DEF TaskInv
<1>3. CASE Cancel
  <2>1. /\ control = "cancel" /\ control' = "declare"
        /\ UNCHANGED <<done, pending, victim>>
    BY <1>3 DEF Cancel
  <2> QED
    BY <1>1, <2>1 DEF TaskInv, FreshInv, HeldInv, ListedInv, LostInv, Marking
<1>4. CASE Declare
  <2>1. /\ control = "declare" /\ control' = "mark" /\ victim \in Tasks
        /\ victim' = NoTask /\ done' = [done EXCEPT ![victim] = TRUE]
        /\ pending' = pending /\ NoTask \notin Tasks
    BY <1>4, PoolAssumption DEF Declare, TypeOK
  <2>2. victim \notin queue /\ (victim \in slipped \/ victim \notin Taken)
    BY <2>1 DEF TaskInv, ListedInv, Marking
  <2>3. phase[victim] = "pushed" /\ victim \notin pending
    BY <2>1 DEF TaskInv, FreshInv, ListedInv
  <2>4. FreshInv' /\ LostInv'
    BY <1>1, <2>1, <2>3 DEF TaskInv, FreshInv, LostInv, TypeOK
  <2>5. HeldInv'
    <3>1. \A v \in Threads : pc[v] \in Undone \union Over =>
            hand[v] \in Tasks /\ hand[v] \in Taken
      BY DEF TypeOK, Taken, Busy, Undone, Over
    <3>2. \A v \in Threads : pc[v] \in Undone =>
            hand[v] \in slipped \/ ~done'[hand[v]]
      BY <2>1, <2>2, <3>1 DEF TaskInv, HeldInv, TypeOK
    <3>3. \A v \in Threads : pc[v] \in Over => done'[hand[v]]
      BY <2>1, <3>1 DEF TaskInv, HeldInv, TypeOK
    <3>4. \A t \in queue : ~done'[t]
      BY <2>1, <2>2 DEF TaskInv, HeldInv, TypeOK
    <3> QED
      BY <1>1, <3>2, <3>3, <3>4 DEF TaskInv, HeldInv
  <2>6. ListedInv'
    BY <1>1, <2>1, <2>3 DEF TaskInv, ListedInv, Marking, TypeOK
  <2> QED
    BY <2>4, <2>5, <2>6 DEF TaskInv
<1>5. CASE Marked
  <2>1. /\ control = "mark" /\ control' \in Joining /\ pending = {}
        /\ victim = NoTask /\ UNCHANGED <<done, pending, victim>>
    BY <1>5 DEF Marked, TaskInv, ListedInv
  <2> QED
    BY <1>1, <2>1 DEF TaskInv, FreshInv, HeldInv, ListedInv, LostInv, Marking, Joining
<1> QED
  BY <1>2, <1>3, <1>4, <1>5

LEMMA TaskStep == TypeOK /\ LeftInv /\ TaskInv /\ [Next]_vars => TaskInv'
<1> SUFFICES ASSUME TypeOK, LeftInv, TaskInv, [Next]_vars
             PROVE  TaskInv'
  OBVIOUS
<1> USE DEF flags, threads, heap, tasks, Marking, Joining
<1>1. CASE UNCHANGED vars
  BY <1>1, TaskQuiet DEF vars, caller
<1>2. CASE Start
  BY <1>2, TaskQuiet DEF Start
<1>3. CASE Stop
  <2>1. control = "idle" /\ control' \in {"join", "look", "list"}
    BY <1>3 DEF Stop
  <2> QED
    BY <1>3, <2>1, TaskQuiet DEF Stop
<1>4. CASE StopStopped
  BY <1>4, TaskQuiet DEF StopStopped, caller
<1>5. ASSUME NEW i \in 1..Workers, StartThread(i)
      PROVE  TaskInv'
  <2>1. control = "start" /\ control' \in {"idle", "start"}
    BY <1>5 DEF StartThread
  <2>2. \A v \in Threads : pc'[v] # "loop" => pc'[v] = pc[v]
    BY <1>5 DEF StartThread, Goto, TypeOK
  <2> QED
    BY <1>5, <2>1, <2>2, TaskQuiet DEF StartThread, Undone, Over
<1>6. CASE Join
  BY <1>6, TaskQuiet DEF Join
<1>7. CASE Look
  BY <1>7, TaskQuiet DEF Look
<1>8. CASE Answer
  BY <1>8, TaskQuiet DEF Answer
<1> QED
  BY <1>1, <1>2, <1>3, <1>4, <1>5, <1>6, <1>7, <1>8, TaskSubmit, TaskThread,
     TaskClearing, TaskMarking DEF Next, Controller

LEMMA Reached == Spec => [](TypeOK /\ PoolInv /\ LeftInv /\ TaskInv)
BY TypeInit, TypeStep, PoolInit, PoolStep, LeftInit, LeftStep, TaskInit, TaskStep, PTL
   DEF Spec

\* No task is run twice, and none that was pushed gets lost but a late one.
THEOREM TasksAreSomewhere == Spec => []Whereabouts
<1>1. TaskInv => Whereabouts
  BY DEF TaskInv, HeldInv, LostInv, Whereabouts
<1> QED
  BY <1>1, Reached, PTL

\* The verdict a thread has given stands while it goes on to declare the task
\* done and to log it.
GivenInv ==
  \A w \in Threads : pc[w] \in {"complete", "done"} =>
    hand[w] \in slipped \/ status[hand[w]] \in Verdicts

\* Who writes the status of a task.
LEMMA WhoWrites ==
  ASSUME TypeOK, Next, NEW t \in Tasks, status'[t] # status[t]
  PROVE  \/ \E w \in Threads : hand[w] = t /\ (Begin(w) \/ Conclude(w) \/ Raise(w))
         \/ victim = t /\ Cancel
<1>1. \/ \E w \in Threads : Begin(w) \/ Conclude(w) \/ Raise(w)
      \/ Cancel
      \/ status' = status
  BY DEF Next, Thread, Controller, tasks, Submit, Push, Test, Pop, PopTimeout,
     Retry, Complete, Catch, TaskDone, Exit, Die, Start, Stop, StopStopped, StartThread,
     List, Clear, Mark, Declare, Marked, Join, Look, Answer
<1>2. ASSUME NEW w \in Threads, Begin(w) \/ Conclude(w) \/ Raise(w)
      PROVE  hand[w] = t
  BY <1>2 DEF Begin, Conclude, Raise, TypeOK
<1>3. ASSUME Cancel
      PROVE  victim = t
  BY <1>3 DEF Cancel, TypeOK
<1> QED
  BY <1>1, <1>2, <1>3

LEMMA GivenInit == Init => GivenInv
BY DEF Init, GivenInv

\* Nobody but the thread itself writes the status of what it holds, unless it
\* slipped away.
LEMMA GivenStep == TypeOK /\ TaskInv /\ GivenInv /\ [Next]_vars => GivenInv'
<1> SUFFICES ASSUME TypeOK, TaskInv, GivenInv, [Next]_vars,
                    NEW w \in Threads, pc'[w] \in {"complete", "done"}, hand'[w] \notin slipped'
             PROVE  status'[hand'[w]] \in Verdicts
  BY DEF GivenInv
<1>1. CASE UNCHANGED vars
  BY <1>1 DEF vars, threads, tasks, history, GivenInv
<1>2. CASE Next
  <2>1. /\ slipped \subseteq slipped'
        /\ \/ Conclude(w)
           \/ pc[w] \in {"complete", "done"} /\ hand'[w] = hand[w] /\ ~Raise(w)
    <3>1. CASE \E v \in Threads : Thread(v)
      BY <3>1 DEF Thread, Test, Pop, PopTimeout, Begin, Retry, Conclude, Complete, Raise,
         Catch, TaskDone, Exit, Die, Goto, TypeOK, flags, threads, tasks, caller, history
    <3>2. CASE \E i \in 1..Workers : StartThread(i)
      BY <3>2 DEF StartThread, Goto, TypeOK, history, Raise
    <3>3. CASE UNCHANGED threads /\ slipped' = slipped
      BY <3>3 DEF threads, Raise, Goto, TypeOK
    <3> QED
      BY <1>2, <3>1, <3>2, <3>3 DEF Next, Controller, Submit, Push, Start, Stop, StopStopped,
         List, Clear, Mark, Cancel, Declare, Marked, Join, Look, Answer, threads, history
  <2>2. CASE Conclude(w)
    BY <2>2 DEF Conclude, TypeOK, Busy
  <2>3. CASE pc[w] \in {"complete", "done"} /\ hand'[w] = hand[w] /\ ~Raise(w)
    <3>1. hand[w] \in Tasks /\ hand[w] \in Taken /\ hand[w] \notin slipped
      BY <2>1, <2>3 DEF TypeOK, Busy, Taken
    <3>2. status[hand[w]] \in Verdicts
      BY <2>3, <3>1 DEF GivenInv
    <3>3. ASSUME status'[hand[w]] # status[hand[w]]
          PROVE  FALSE
      <4>1. CASE \E v \in Threads : /\ hand[v] = hand[w]
                                    /\ Begin(v) \/ Conclude(v) \/ Raise(v)
        <5>1. PICK v \in Threads : /\ hand[v] = hand[w]
                                   /\ Begin(v) \/ Conclude(v) \/ Raise(v)
          BY <4>1
        <5>2. v = w
          BY <3>1, <5>1 DEF TaskInv, HeldInv
        <5> QED
          BY <2>3, <5>1, <5>2 DEF Begin, Conclude
      <4>2. CASE victim = hand[w] /\ Cancel
        BY <3>1, <4>2 DEF Cancel, TaskInv, ListedInv, Marking
      <4> QED
        BY <1>2, <3>1, <3>3, <4>1, <4>2, WhoWrites
    <3> QED
      BY <2>3, <3>2, <3>3
  <2> QED
    BY <2>1, <2>2, <2>3
<1> QED
  BY <1>1, <1>2

\* What a caller was told of a task stays when its thread has put it down and
\* stop does not mark it; before that, only a failed logging turns a success
\* into a failure, and only a task that slipped through the clearing suffers
\* anything else.
THEOREM VerdictsStand == Spec => VerdictsAreFinal
<1> DEFINE Changes(t) == done[t] /\ status'[t] # status[t]
           Stands == \A t \in Tasks : Changes(t) =>
             /\ t \in Taken \union {victim}
             /\ t \in slipped \/ (status[t] = "SUCCESS" /\ status'[t] = "FAILED")
<1>1. ASSUME TypeOK, TaskInv, GivenInv, Next
      PROVE  Stands
  <2> SUFFICES ASSUME NEW t \in Tasks, done[t], status'[t] # status[t]
               PROVE  /\ t \in Taken \union {victim}
                      /\ t \in slipped \/ (status[t] = "SUCCESS" /\ status'[t] = "FAILED")
    OBVIOUS
  <2>1. ASSUME NEW w \in Threads, hand[w] = t, Begin(w) \/ Conclude(w)
        PROVE  t \in Taken /\ t \in slipped
    <3>1. pc[w] \in Undone
      BY <2>1 DEF Begin, Conclude, Undone
    <3> QED
      BY <1>1, <2>1, <3>1 DEF TaskInv, HeldInv, Taken
  <2>2. ASSUME NEW w \in Threads, hand[w] = t, Raise(w)
        PROVE  /\ t \in Taken
               /\ t \in slipped \/ (status[t] = "SUCCESS" /\ status'[t] = "FAILED")
    <3>1. status'[t] = "FAILED" /\ t \in Taken
      BY <1>1, <2>2 DEF Raise, TypeOK, Taken
    <3>2. CASE pc[w] = "attempt"
      BY <1>1, <2>2, <3>1, <3>2 DEF TaskInv, HeldInv, Undone
    <3>3. CASE pc[w] = "done"
      <4>1. t \in slipped \/ status[t] \in Verdicts
        BY <1>1, <2>2, <3>3 DEF GivenInv
      <4> QED
        BY <3>1, <4>1 DEF Verdicts
    <3> QED
      BY <2>2, <3>2, <3>3 DEF Raise
  <2>3. ASSUME victim = t, Cancel
        PROVE  t \in slipped
    <3>1. control \in Marking
      BY <2>3 DEF Cancel, Marking
    <3> QED
      BY <1>1, <2>3, <3>1 DEF TaskInv, ListedInv
  <2> QED
    BY <1>1, <2>1, <2>2, <2>3, WhoWrites
<1>2. TypeOK /\ TaskInv /\ GivenInv /\ [Next]_vars => [Stands]_vars
  BY <1>1
<1> QED
  BY <1>2, Reached, GivenInit, GivenStep, PTL DEF Spec, VerdictsAreFinal

-----------------------------------------------------------------------------
(* The count of unfinished tasks *)

Holders == {w \in Threads : hand[w] # NoTask}

LEMMA HoldersFinite == IsFiniteSet(Threads) /\ IsFiniteSet(Holders)
<1>1. IsFiniteSet(1..MaxStarts) /\ IsFiniteSet(1..Workers)
  BY PoolAssumption, FS_Interval
<1>2. IsFiniteSet(Threads)
  BY <1>1, FS_Product DEF Threads
<1> QED
  BY <1>2, FS_Subset DEF Holders

LEMMA QueueFinite == TypeOK => IsFiniteSet(queue)
BY PoolAssumption, FS_Subset DEF TypeOK

LEMMA CountInit == Init => UnfinishedAddsUp
<1> SUFFICES ASSUME Init
             PROVE  UnfinishedAddsUp
  OBVIOUS
<1>1. queue = {} /\ Holders = {} /\ unfinished = 0
  BY DEF Init, Holders
<1>2. Cardinality(queue) = 0 /\ Cardinality(Holders) = 0
  BY <1>1, FS_EmptySet
<1> QED
  BY <1>1, <1>2 DEF UnfinishedAddsUp, Holders

LEMMA CountStep ==
  TypeOK /\ TaskInv /\ UnfinishedAddsUp /\ [Next]_vars => UnfinishedAddsUp'
<1> SUFFICES ASSUME TypeOK, TaskInv, UnfinishedAddsUp, [Next]_vars
             PROVE  UnfinishedAddsUp'
  OBVIOUS
<1> USE DEF flags, threads, heap, tasks, caller, history
<1>1. unfinished = Cardinality(queue) + Cardinality(Holders)
  BY DEF UnfinishedAddsUp, Holders
<1>2. Cardinality(queue) \in Nat /\ Cardinality(Holders) \in Nat
  BY QueueFinite, HoldersFinite, FS_CardinalityType
<1>3. ASSUME unfinished' = Cardinality(queue') + Cardinality(Holders')
      PROVE  UnfinishedAddsUp'
  BY <1>3 DEF UnfinishedAddsUp, Holders
<1>4. ASSUME NEW t \in Tasks, Push(t)
      PROVE  UnfinishedAddsUp'
  <2>1. t \notin queue /\ queue' = queue \union {t} /\ unfinished' = unfinished + 1
    BY <1>4 DEF Push, TaskInv, FreshInv
  <2>2. Holders' = Holders
    BY <1>4 DEF Push, Holders
  <2>3. Cardinality(queue') = Cardinality(queue) + 1
    BY <2>1, QueueFinite, FS_AddElement
  <2> QED
    BY <1>1, <1>2, <1>3, <2>1, <2>2, <2>3
<1>5. ASSUME NEW w \in Threads, Pop(w)
      PROVE  UnfinishedAddsUp'
  <2>1. PICK t \in queue : /\ queue' = queue \ {t} /\ hand' = [hand EXCEPT ![w] = t]
                           /\ unfinished' = unfinished
    BY <1>5 DEF Pop, IsFirst
  <2>2. hand[w] = NoTask /\ t # NoTask
    BY <1>5, PoolAssumption DEF Pop, TypeOK, Busy
  <2>3. w \notin Holders /\ Holders' = Holders \union {w}
    BY <2>1, <2>2 DEF Holders, TypeOK
  <2>4. /\ Cardinality(queue') = Cardinality(queue) - 1
        /\ Cardinality(Holders') = Cardinality(Holders) + 1
    BY <2>1, <2>3, QueueFinite, HoldersFinite, FS_RemoveElement, FS_AddElement
  <2> QED
    BY <1>1, <1>2, <1>3, <2>1, <2>4
<1>6. ASSUME NEW w \in Threads, TaskDone(w)
      PROVE  UnfinishedAddsUp'
  <2>1. /\ hand' = [hand EXCEPT ![w] = NoTask] /\ unfinished' = unfinished - 1
        /\ queue' = queue
    BY <1>6 DEF TaskDone
  <2>2. hand[w] # NoTask
    BY <1>6, PoolAssumption DEF TaskDone, TypeOK, Busy
  <2>3. w \in Holders /\ Holders' = Holders \ {w}
    BY <2>1, <2>2 DEF Holders, TypeOK
  <2>4. Cardinality(Holders') = Cardinality(Holders) - 1
    BY <2>3, HoldersFinite, FS_RemoveElement
  <2> QED
    BY <1>1, <1>2, <1>3, <2>1, <2>4
<1>7. CASE Clear
  <2>1. queue' = {} /\ unfinished' = Cardinality(Holders) /\ Holders' = Holders
    BY <1>1, <1>2, <1>7 DEF Clear, Holders
  <2>2. Cardinality(queue') = 0
    BY <2>1, FS_EmptySet
  <2> QED
    BY <1>1, <1>2, <1>3, <2>1, <2>2
<1>8. CASE UNCHANGED <<hand, queue, unfinished>>
  <2>1. Holders' = Holders
    BY <1>8 DEF Holders
  <2> QED
    BY <1>1, <1>3, <1>8, <2>1
<1>9. \/ \E t \in Tasks : Push(t)
      \/ \E w \in Threads : Pop(w) \/ TaskDone(w)
      \/ Clear
      \/ UNCHANGED <<hand, queue, unfinished>>
  BY DEF vars, Next, Thread, Controller, Submit, Test, PopTimeout, Begin, Retry,
     Conclude, Complete, Raise, Catch, Exit, Die, Start, Stop, StopStopped, StartThread,
     List, Mark, Cancel, Declare, Marked, Join, Look, Answer
<1> QED
  BY <1>4, <1>5, <1>6, <1>7, <1>8, <1>9

\* task_done is never called once too often, whatever stop clears meanwhile.
THEOREM CountIsTrue == Spec => []UnfinishedAddsUp
BY Reached, CountInit, CountStep, PTL DEF Spec

=============================================================================
