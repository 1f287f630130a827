---------------------------- MODULE ExecutionPool ----------------------------
(***************************************************************************)
(* The pool of execution workers (orders/execution_worker.py), the         *)
(* priority queue its threads share (execution_queue.py) and the retries   *)
(* of a task (retry_engine.py).  Callers submit tasks from any thread;     *)
(* start and stop are called by one controller, the application's          *)
(* lifecycle (core/application.py), one at a time.  An action is what      *)
(* happens under one lock, or one write that another thread can see.       *)
(***************************************************************************)
EXTENDS Integers, FiniteSets

CONSTANTS
  Tasks,        \* each is submitted once, by a caller of its own
  NoTask,       \* what a thread holds between two tasks
  Priority,     \* of each task: the smallest goes first
  Workers,      \* self.workers, the threads of one start
  MaxAttempts,  \* of the retry engine
  MaxStarts     \* bound: calls of start that start the pool

ASSUME PoolAssumption ==
  /\ IsFiniteSet(Tasks)
  /\ NoTask \notin Tasks
  /\ Priority \in [Tasks -> Int]
  /\ {Workers, MaxAttempts} \subseteq Nat \ {0}
  /\ MaxStarts \in Nat

Threads == (1..MaxStarts) \X (1..Workers)

VARIABLES
  running,     \* self.running
  accepting,   \* self.accepting
  drain,       \* self._drain_on_stop
  stopEvent,   \* self._stop_event
  gen,         \* the start self.threads comes from, 0 before the first
  pc,          \* where each thread is
  hand,        \* the task it popped
  tries,       \* attempts it has begun
  queue,       \* the tasks in the heap
  unfinished,  \* the queue's _unfinished_tasks
  phase,       \* where the submission of each task is
  status,      \* task.status
  done,        \* task._completed
  control,     \* where the controller is
  alive,       \* whether it has seen a thread alive
  pending,     \* the tasks it has listed and not marked yet
  victim,      \* the one it is marking
  late,        \* history: tasks pushed when the pool no longer accepted
  slipped,     \* history: tasks popped between the listing and the clearing
  dropped      \* history: tasks cleared without having been listed

flags   == <<running, accepting, drain, stopEvent, gen>>
threads == <<pc, hand, tries>>
heap    == <<queue, unfinished>>
tasks   == <<phase, status, done>>
caller  == <<control, alive, pending, victim>>
history == <<late, slipped, dropped>>
vars    == <<flags, threads, heap, tasks, caller, history>>

Busy       == {"begin", "attempt", "complete", "done", "raised", "caught"}
Looping    == Busy \union {"loop", "pop"}
ThreadPcs  == Looping \union {"none", "exit", "dying", "dead"}
Verdicts   == {"SUCCESS", "FAILED"}
Statuses   == Verdicts \union {"QUEUED", "RUNNING", "CANCELLED"}
Marking    == {"mark", "cancel", "declare"}
Joining    == {"join", "look"}
ControlPcs == Marking \union Joining \union {"idle", "start", "list", "clear", "answer"}

Newest     == {w \in Threads : w[1] = gen}
IsAlive(w) == pc[w] \notin {"none", "dead"}
Working(w) == pc[w] \notin {"none", "dying", "dead"}
Taken      == {t \in Tasks : \E w \in Threads : hand[w] = t}

-----------------------------------------------------------------------------
(* submit: the flag is tested under the lock, the task is pushed after it. *)
(* A refusal raises and changes nothing.                                   *)

Submit(t) ==
  /\ phase[t] = "new"
  /\ accepting
  /\ phase' = [phase EXCEPT ![t] = "accepted"]
  /\ UNCHANGED <<flags, threads, heap, status, done, caller, history>>

\* Mutant: the count misses the task.
PushUncounted(t) ==
  /\ phase[t] = "accepted"
  /\ phase' = [phase EXCEPT ![t] = "pushed"]
  /\ queue' = queue \union {t}
  /\ late' = IF accepting THEN late ELSE late \union {t}
  /\ UNCHANGED <<flags, threads, unfinished, status, done, caller, slipped, dropped>>

Push(t) ==
  /\ phase[t] = "accepted"
  /\ phase' = [phase EXCEPT ![t] = "pushed"]
  /\ queue' = queue \union {t}
  /\ unfinished' = unfinished + 1
  /\ late' = IF accepting THEN late ELSE late \union {t}
  /\ UNCHANGED <<flags, threads, status, done, caller, slipped, dropped>>

-----------------------------------------------------------------------------
(* The loop of a thread *)

Goto(w, where) == pc' = [pc EXCEPT ![w] = where]

\* Mutant: a draining stop lets a thread go with tasks in the heap.
TestEarly(w) ==
  /\ pc[w] = "loop"
  /\ Goto(w, IF stopEvent /\ (drain \/ queue = {}) THEN "exit" ELSE "pop")
  /\ UNCHANGED <<flags, hand, tries, heap, tasks, caller, history>>

\* Mutant: a draining stop never lets a thread go.
TestNever(w) ==
  /\ pc[w] = "loop"
  /\ Goto(w, IF stopEvent /\ ~drain THEN "exit" ELSE "pop")
  /\ UNCHANGED <<flags, hand, tries, heap, tasks, caller, history>>

\* The event is read first, the drain flag and the heap after it; as the event
\* stays set while a thread loops, this is the reading of the last of them.
Test(w) ==
  /\ pc[w] = "loop"
  /\ Goto(w, IF stopEvent /\ (~drain \/ queue = {}) THEN "exit" ELSE "pop")
  /\ UNCHANGED <<flags, hand, tries, heap, tasks, caller, history>>

\* Tasks of one priority leave in the order they came, which nothing here
\* depends on: any of them may be first.
IsFirst(t) == t \in queue /\ \A u \in queue : Priority[t] <= Priority[u]

Pop(w) ==
  /\ pc[w] = "pop"
  /\ \E t \in Tasks :
       /\ IsFirst(t)
       /\ queue' = queue \ {t}
       /\ hand' = [hand EXCEPT ![w] = t]
       /\ Goto(w, "begin")
       /\ slipped' = IF control = "clear" /\ t \in pending
                       THEN slipped \union {t} ELSE slipped
  /\ UNCHANGED <<flags, tries, unfinished, tasks, caller, late, dropped>>

\* The heap stayed empty for a poll interval.
PopTimeout(w) ==
  /\ pc[w] = "pop"
  /\ queue = {}
  /\ Goto(w, "loop")
  /\ UNCHANGED <<flags, hand, tries, heap, tasks, caller, history>>

Begin(w) ==
  /\ pc[w] = "begin"
  /\ status' = [status EXCEPT ![hand[w]] = "RUNNING"]
  /\ tries' = [tries EXCEPT ![w] = 1]
  /\ Goto(w, "attempt")
  /\ UNCHANGED <<flags, hand, heap, phase, done, caller, history>>

\* Mutant: after the last attempt the count starts again.
RetryForever(w) ==
  /\ pc[w] = "attempt"
  /\ tries' = [tries EXCEPT ![w] = IF @ = MaxAttempts THEN 1 ELSE @ + 1]
  /\ UNCHANGED <<flags, pc, hand, heap, tasks, caller, history>>

\* Mutant: one attempt too many.
RetryBeyond(w) ==
  /\ pc[w] = "attempt"
  /\ tries[w] <= MaxAttempts
  /\ tries' = [tries EXCEPT ![w] = @ + 1]
  /\ UNCHANGED <<flags, pc, hand, heap, tasks, caller, history>>

\* The attempt raised and another one is allowed.
Retry(w) ==
  /\ pc[w] = "attempt"
  /\ tries[w] < MaxAttempts
  /\ tries' = [tries EXCEPT ![w] = @ + 1]
  /\ UNCHANGED <<flags, pc, hand, heap, tasks, caller, history>>

\* It returned; or it raised and was the last one, or its error is not for
\* another try.
Conclude(w) ==
  /\ pc[w] = "attempt"
  /\ \E verdict \in Verdicts : status' = [status EXCEPT ![hand[w]] = verdict]
  /\ tries' = [tries EXCEPT ![w] = 0]
  /\ Goto(w, "complete")
  /\ UNCHANGED <<flags, hand, heap, phase, done, caller, history>>

Complete(w) ==
  /\ pc[w] = "complete"
  /\ done' = [done EXCEPT ![hand[w]] = TRUE]
  /\ Goto(w, "done")
  /\ UNCHANGED <<flags, hand, tries, heap, phase, status, caller, history>>

\* An option or a callback of the engine raised, or the logger did, which is
\* given a task that is done already: the loop declares the task failed, and
\* done, maybe once more.
Raise(w) ==
  /\ pc[w] \in {"attempt", "done"}
  /\ status' = [status EXCEPT ![hand[w]] = "FAILED"]
  /\ tries' = [tries EXCEPT ![w] = 0]
  /\ Goto(w, "raised")
  /\ UNCHANGED <<flags, hand, heap, phase, done, caller, history>>

Catch(w) ==
  /\ pc[w] = "raised"
  /\ done' = [done EXCEPT ![hand[w]] = TRUE]
  /\ Goto(w, "caught")
  /\ UNCHANGED <<flags, hand, tries, heap, phase, status, caller, history>>

\* task_done raises at zero, which UnfinishedAddsUp excludes.
TaskDone(w) ==
  /\ pc[w] \in {"done", "caught"}
  /\ unfinished' = unfinished - 1
  /\ hand' = [hand EXCEPT ![w] = NoTask]
  /\ Goto(w, "loop")
  /\ UNCHANGED <<flags, tries, queue, tasks, caller, history>>

\* Mutant: the first thread that leaves declares the pool stopped.
ExitFirst(w) ==
  /\ pc[w] = "exit"
  /\ running' = FALSE
  /\ Goto(w, "dying")
  /\ UNCHANGED <<accepting, drain, stopEvent, gen, hand, tries, heap, tasks, caller, history>>

\* The last one declares the pool stopped.  Two that leave together see each
\* other alive, and neither does.
Exit(w) ==
  /\ pc[w] = "exit"
  /\ running' = (running /\ \E v \in Newest \ {w} : IsAlive(v))
  /\ Goto(w, "dying")
  /\ UNCHANGED <<accepting, drain, stopEvent, gen, hand, tries, heap, tasks, caller, history>>

Die(w) ==
  /\ pc[w] = "dying"
  /\ Goto(w, "dead")
  /\ UNCHANGED <<flags, hand, tries, heap, tasks, caller, history>>

-----------------------------------------------------------------------------
(* start and stop *)

Start ==
  /\ control = "idle"
  /\ ~running
  /\ gen < MaxStarts
  /\ running' = TRUE
  /\ accepting' = TRUE
  /\ drain' = TRUE
  /\ stopEvent' = FALSE
  /\ gen' = gen + 1
  /\ control' = "start"
  /\ UNCHANGED <<threads, heap, tasks, alive, pending, victim, history>>

\* thread.start(), one by one and without the lock.
StartThread(i) ==
  /\ control = "start"
  /\ pc[<<gen, i>>] = "none"
  /\ \A j \in 1..(i - 1) : pc[<<gen, j>>] # "none"
  /\ Goto(<<gen, i>>, "loop")
  /\ control' = IF i = Workers THEN "idle" ELSE "start"
  /\ UNCHANGED <<flags, hand, tries, heap, tasks, alive, pending, victim, history>>

\* Mutant: the pool that is told to stop goes on accepting.
StopAccepting ==
  /\ control = "idle"
  /\ running
  /\ drain' \in BOOLEAN
  /\ stopEvent' = TRUE
  /\ control' \in IF drain' THEN Joining ELSE {"list"}
  /\ UNCHANGED <<running, accepting, gen, threads, heap, tasks, alive, pending, victim, history>>

Stop ==
  /\ control = "idle"
  /\ running
  /\ accepting' = FALSE
  /\ drain' \in BOOLEAN
  /\ stopEvent' = TRUE
  /\ control' \in IF drain' THEN Joining ELSE {"list"}
  /\ UNCHANGED <<running, gen, threads, heap, tasks, alive, pending, victim, history>>

\* A pool that is not running only stops accepting.
StopStopped ==
  /\ control = "idle"
  /\ ~running
  /\ accepting' = FALSE
  /\ UNCHANGED <<running, drain, stopEvent, gen, threads, heap, tasks, caller, history>>

\* Mutant: the clearing is left out.
ListOnly ==
  /\ control = "list"
  /\ pending' = queue
  /\ control' = "mark"
  /\ UNCHANGED <<flags, threads, heap, tasks, alive, victim, history>>

\* Without draining: list the heap, clear it, mark what was listed.
List ==
  /\ control = "list"
  /\ pending' = queue
  /\ control' = "clear"
  /\ UNCHANGED <<flags, threads, heap, tasks, alive, victim, history>>

Clear ==
  /\ control = "clear"
  /\ queue' = {}
  /\ unfinished' = IF unfinished > Cardinality(queue)
                     THEN unfinished - Cardinality(queue) ELSE 0
  /\ control' = "mark"
  /\ dropped' = dropped \union (queue \ pending)
  /\ UNCHANGED <<flags, threads, tasks, alive, pending, victim, late, slipped>>

\* A task that is done by now is left alone.
Mark ==
  /\ control = "mark"
  /\ \E t \in pending :
       /\ pending' = pending \ {t}
       /\ victim' = IF done[t] THEN NoTask ELSE t
       /\ control' = IF done[t] THEN "mark" ELSE "cancel"
  /\ UNCHANGED <<flags, threads, heap, tasks, alive, history>>

Cancel ==
  /\ control = "cancel"
  /\ status' = [status EXCEPT ![victim] = "CANCELLED"]
  /\ control' = "declare"
  /\ UNCHANGED <<flags, threads, heap, phase, done, alive, pending, victim, history>>

Declare ==
  /\ control = "declare"
  /\ done' = [done EXCEPT ![victim] = TRUE]
  /\ victim' = NoTask
  /\ control' = "mark"
  /\ UNCHANGED <<flags, threads, heap, phase, status, alive, pending, history>>

Marked ==
  /\ control = "mark"
  /\ pending = {}
  /\ control' \in Joining
  /\ UNCHANGED <<flags, threads, heap, tasks, alive, pending, victim, history>>

\* thread.join without a timeout ends when the threads are dead.  With a
\* timeout it ends at any time, which is to Look at any time.
Join ==
  /\ control = "join"
  /\ \A w \in Newest : ~IsAlive(w)
  /\ control' = "look"
  /\ UNCHANGED <<flags, threads, heap, tasks, alive, pending, victim, history>>

Look ==
  /\ control = "look"
  /\ alive' = \E w \in Newest : IsAlive(w)
  /\ control' = "answer"
  /\ UNCHANGED <<flags, threads, heap, tasks, pending, victim, history>>

\* What it saw may be over: a thread can die, and say so, in between.
Answer ==
  /\ control = "answer"
  /\ running' = alive
  /\ alive' = FALSE
  /\ control' = "idle"
  /\ UNCHANGED <<accepting, drain, stopEvent, gen, threads, heap, tasks, pending, victim, history>>

-----------------------------------------------------------------------------

Init ==
  /\ running = FALSE /\ accepting = TRUE /\ drain = TRUE /\ stopEvent = FALSE
  /\ gen = 0
  /\ pc = [w \in Threads |-> "none"]
  /\ hand = [w \in Threads |-> NoTask]
  /\ tries = [w \in Threads |-> 0]
  /\ queue = {} /\ unfinished = 0
  /\ phase = [t \in Tasks |-> "new"]
  /\ status = [t \in Tasks |-> "QUEUED"]
  /\ done = [t \in Tasks |-> FALSE]
  /\ control = "idle" /\ alive = FALSE
  /\ pending = {} /\ victim = NoTask
  /\ late = {} /\ slipped = {} /\ dropped = {}

Thread(w) ==
  \/ Test(w) \/ Pop(w) \/ PopTimeout(w)
  \/ Begin(w) \/ Retry(w) \/ Conclude(w) \/ Complete(w)
  \/ Raise(w) \/ Catch(w) \/ TaskDone(w) \/ Exit(w) \/ Die(w)

\* What goes on by itself once start or stop was called.
Controller ==
  \/ \E i \in 1..Workers : StartThread(i)
  \/ List \/ Clear \/ Mark \/ Cancel \/ Declare \/ Marked
  \/ Join \/ Look \/ Answer

Next ==
  \/ \E t \in Tasks : Submit(t) \/ Push(t)
  \/ \E w \in Threads : Thread(w)
  \/ Start \/ Stop \/ StopStopped
  \/ Controller

\* Threads are scheduled, and the functions they are given return; whoever
\* submits, starts or stops goes on, and nobody has to call.
Fairness ==
  /\ \A w \in Threads : WF_vars(Thread(w))
  /\ \A t \in Tasks : WF_vars(Push(t))
  /\ WF_vars(Controller)

Spec == Init /\ [][Next]_vars /\ Fairness

-----------------------------------------------------------------------------
(* Properties *)

\* Every variable has the type its declaration says, and a thread holds a
\* task exactly while it is busy with it.
TypeOK ==
  /\ {running, accepting, drain, stopEvent, alive} \subseteq BOOLEAN
  /\ gen \in 0..MaxStarts
  /\ pc \in [Threads -> ThreadPcs]
  /\ hand \in [Threads -> Tasks \union {NoTask}]
  /\ \A w \in Threads : hand[w] \in Tasks <=> pc[w] \in Busy
  /\ tries \in [Threads -> 0..MaxAttempts]
  /\ unfinished \in Int
  /\ phase \in [Tasks -> {"new", "accepted", "pushed"}]
  /\ status \in [Tasks -> Statuses]
  /\ done \in [Tasks -> BOOLEAN]
  /\ control \in ControlPcs
  /\ victim \in Tasks \union {NoTask}
  /\ control \in {"cancel", "declare"} => victim \in Tasks
  /\ {queue, pending, late, slipped, dropped} \subseteq SUBSET Tasks

\* ExecutionQueue.task_done and join: the count of unfinished tasks is the
\* tasks in the heap and those in some thread's hands, whatever was cleared
\* meanwhile; so task_done never raises, and join ends with the last task.
UnfinishedAddsUp ==
  unfinished = Cardinality(queue) + Cardinality({w \in Threads : hand[w] # NoTask})

\* ExecutionWorker.submit, _loop and stop: no two threads hold one task and
\* none holds a task of the heap, so a task runs once; and a task that was
\* pushed and is not done is in the heap, in hands, on the list of those to be
\* cancelled, or dropped - which happens only to a task that was pushed after
\* a stop that it had been accepted before.
Whereabouts ==
  /\ \A w, v \in Threads : hand[w] \in Tasks /\ hand[w] = hand[v] => w = v
  /\ queue \intersect Taken = {}
  /\ \A t \in Tasks : phase[t] = "pushed" /\ ~done[t] =>
       t \in queue \union Taken \union pending \union {victim} \union dropped
  /\ dropped \subseteq late

\* ExecutionTask.wait and get_result: what a caller was told of a task is not
\* taken back once its thread has put it down and stop does not mark it.  Until
\* then a success turns into a failure when the logger raises, and nothing else
\* changes; but for a task that a thread popped after stop listed the heap and
\* before it cleared it, which is cancelled, and runs.
VerdictsAreFinal ==
  [][\A t \in Tasks : done[t] /\ status'[t] # status[t] =>
       /\ t \in Taken \union {victim}
       /\ t \in slipped \/ (status[t] = "SUCCESS" /\ status'[t] = "FAILED")]_vars

\* stop(drain=True): once no thread works, all that is left in the heap was
\* pushed by a submit that had passed its test before the stop.
LeftBehindIsLate ==
  (stopEvent /\ drain /\ \A w \in Threads : ~Working(w)) => queue \subseteq late

\* start tests running alone: it says no only when no thread of any start is
\* going to take a task, so a pool never has more threads than its workers.
OnePool == \A w \in Threads : Working(w) => running /\ w[1] = gen

\* A task that was pushed is done in the end, or it was dropped, or it waits
\* in the heap of a pool that has no threads: every moment is followed by one
\* at which this is so of all of them.
TasksEnd ==
  []<>(\A t \in Tasks : phase[t] = "pushed" =>
         \/ done[t]
         \/ t \in dropped
         \/ t \in queue /\ control = "idle" /\ \A w \in Threads : ~Working(w))

\* A start and a stop return, even a stop that waits without a timeout for
\* threads that first have to do all the tasks.
StopReturns == []<>(control = "idle")

=============================================================================
