---------------------------- MODULE PaperAccount ----------------------------
(***************************************************************************)
(* The paper account and its lifecycle (paper/paper_account.py,            *)
(* paper_repository.py, paper_runtime.py) under the threads that share it: *)
(* the event loop, which runs the /paper handlers and the application      *)
(* lifecycle, and the worker threads of the paper session, whose pipeline  *)
(* commits and saves.  One action is one critical section of the account   *)
(* lock, except that a commit is cut after every trade: settle reads a     *)
(* position without that lock.  The settings are the defaults: enabled,    *)
(* auto_load, auto_save.                                                   *)
(***************************************************************************)
EXTENDS PaperTrades, FiniteSetsExt

CONSTANTS
  Loop,            \* the event loop's thread
  Workers,         \* the threads of the paper session
  MarkRequests,    \* arguments of mark_to_market: sequences of [key, price]
  SettlementFees,  \* fees of a settlement, in ticks
  WritesFail,      \* whether writing the file may raise
  MaxSettlements   \* bound: settlements

Threads == {Loop} \union Workers

ASSUME AccountAssumption ==
  /\ Loop \notin Workers
  /\ SettlementFees \subseteq Nat
  /\ WritesFail \in BOOLEAN
  /\ MaxSettlements \in Nat
  /\ \A r \in MarkRequests : r \in Seq([key : Keys, price : Prices])

VARIABLES
  account,      \* wallet, positions, history and processed ids
  dirty,        \* PaperAccount._dirty
  backup,       \* backup and backup_dirty of the commit that holds the lock
  disk,         \* the account file
  pc,           \* where each thread is
  batch,        \* the trades its commit still has to book
  persist,      \* its persist argument
  read,         \* the position settle has read
  image,        \* the state save has exported
  phase,        \* the process: RUNNING, STOPPING or STOPPED
  settlements   \* settlement orders issued so far

arguments == <<batch, persist, read>>
vars == <<account, dirty, backup, disk, pc, arguments, image, phase, settlements>>

None   == [none |-> TRUE]
Labels == {"idle", "commit", "apply", "settle", "export", "write", "clear"}

Goto(t, label) == pc' = [pc EXCEPT ![t] = label]

\* Every other critical section waits for a commit that has begun.
LockFree == \A t \in Threads : pc[t] # "apply"

\* A worker's cycle may still reach its commit while the process stops.
MayCall(t) ==
  /\ pc[t] = "idle"
  /\ \/ phase = "RUNNING"
     \/ phase = "STOPPING" /\ t \in Workers

\* save is called after the lock is released, when asked for.
Done(t, save) == Goto(t, IF save THEN "export" ELSE "idle")

-----------------------------------------------------------------------------
(* commit_execution *)

\* What the purchases cost, sales of the same batch not counted.
RequiredCash(b) ==
  FoldLeft(LAMBDA sum, trade : IF CashFlow(trade) < 0 THEN sum - CashFlow(trade)
                                                      ELSE sum, 0, b)

Admissible(b) ==
  /\ DistinctOrders(b)
  /\ OrdersOf(b) \intersect account.processed = {}
  /\ RequiredCash(b) <= account.cash

Commit(t, b, save) ==
  /\ MayCall(t)
  /\ save \/ t = Loop
  /\ Goto(t, "commit")
  /\ batch' = [batch EXCEPT ![t] = b]
  /\ persist' = [persist EXCEPT ![t] = save]
  /\ UNCHANGED <<account, dirty, backup, disk, read, image, phase, settlements>>

\* The lock is taken and the batch checked; a refused one raises.
CommitBegin(t) ==
  /\ pc[t] = "commit"
  /\ LockFree
  /\ IF Admissible(batch[t])
       THEN /\ backup' = [account |-> account, dirty |-> dirty]
            /\ Goto(t, "apply")
            /\ UNCHANGED batch
       ELSE /\ Goto(t, "idle")
            /\ batch' = [batch EXCEPT ![t] = <<>>]
            /\ UNCHANGED backup
  /\ UNCHANGED <<account, dirty, disk, persist, read, image, phase, settlements>>

ApplyTrade(t) ==
  /\ pc[t] = "apply"
  /\ batch[t] # <<>>
  /\ Bookable(account, Head(batch[t]))
  /\ account' = Booked(account, Head(batch[t]))
  /\ batch' = [batch EXCEPT ![t] = Tail(@)]
  /\ UNCHANGED <<dirty, backup, disk, pc, persist, read, image, phase, settlements>>

\* Mutant: the wallet is left out of the restore.
RollbackKeepsCash(t) ==
  /\ pc[t] = "apply"
  /\ batch[t] # <<>>
  /\ ~Bookable(account, Head(batch[t]))
  /\ account' = [backup.account EXCEPT !.cash = account.cash]
  /\ dirty' = backup.dirty
  /\ backup' = None
  /\ batch' = [batch EXCEPT ![t] = <<>>]
  /\ Goto(t, "idle")
  /\ UNCHANGED <<disk, persist, read, image, phase, settlements>>

\* Mutant: the processed ids are left out of the restore.
RollbackKeepsIds(t) ==
  /\ pc[t] = "apply"
  /\ batch[t] # <<>>
  /\ ~Bookable(account, Head(batch[t]))
  /\ account' = [backup.account EXCEPT !.processed = account.processed]
  /\ dirty' = backup.dirty
  /\ backup' = None
  /\ batch' = [batch EXCEPT ![t] = <<>>]
  /\ Goto(t, "idle")
  /\ UNCHANGED <<disk, persist, read, image, phase, settlements>>

\* A trade was refused: everything is restored.
Rollback(t) ==
  /\ pc[t] = "apply"
  /\ batch[t] # <<>>
  /\ ~Bookable(account, Head(batch[t]))
  /\ account' = backup.account
  /\ dirty' = backup.dirty
  /\ backup' = None
  /\ batch' = [batch EXCEPT ![t] = <<>>]
  /\ Goto(t, "idle")
  /\ UNCHANGED <<disk, persist, read, image, phase, settlements>>

CommitEnd(t) ==
  /\ pc[t] = "apply"
  /\ batch[t] = <<>>
  /\ dirty' = TRUE
  /\ backup' = None
  /\ Done(t, persist[t])
  /\ UNCHANGED <<account, disk, arguments, image, phase, settlements>>

-----------------------------------------------------------------------------
(* settle, mark_to_market, reset *)

\* The position is read under its own lock only, so perhaps mid-commit.
Settle(k, save) ==
  /\ MayCall(Loop)
  /\ account.quantity[k] > 0
  /\ settlements < MaxSettlements
  /\ read' = [read EXCEPT ![Loop] = [key |-> k, quantity |-> account.quantity[k]]]
  /\ persist' = [persist EXCEPT ![Loop] = save]
  /\ Goto(Loop, "settle")
  /\ UNCHANGED <<account, dirty, backup, disk, batch, image, phase, settlements>>

\* The order id is a new uuid with a prefix of its own: a negative number.
SettlementTrade(price, fee) ==
  [order |-> -(settlements + 1), key |-> read[Loop].key, side |-> "SELL",
   quantity |-> read[Loop].quantity, price |-> price, fee |-> fee]

\* A refusal restores the backup taken an instant before: nothing changes.
SettleBook(price, fee) ==
  /\ pc[Loop] = "settle"
  /\ LockFree
  /\ LET trade == SettlementTrade(price, fee)
     IN  IF CashFlow(trade) >= 0 /\ Bookable(account, trade)
           THEN /\ account' = Booked(account, trade)
                /\ dirty' = TRUE
                /\ Done(Loop, persist[Loop])
           ELSE Goto(Loop, "idle") /\ UNCHANGED <<account, dirty>>
  /\ settlements' = settlements + 1
  /\ read' = [read EXCEPT ![Loop] = None]
  /\ UNCHANGED <<backup, disk, batch, persist, image, phase>>

\* Positions are marked one by one; an unknown one raises and undoes nothing.
Mark(request, save) ==
  /\ MayCall(Loop)
  /\ LockFree
  /\ LET known(i) == Exists(account, request[i].key)
         done     == {i \in DOMAIN request : \A j \in 1..i : known(j)}
         all      == done = DOMAIN request
         marks(k) == {i \in done : request[i].key = k}
     IN  /\ account' = [account EXCEPT !.marks =
               [k \in Keys |-> IF marks(k) = {} THEN @[k]
                               ELSE request[Max(marks(k))].price]]
         /\ dirty' = (dirty \/ (all /\ request # <<>>))
         /\ Done(Loop, all /\ save)
  /\ UNCHANGED <<backup, disk, arguments, image, phase, settlements>>

Reset(save) ==
  /\ MayCall(Loop)
  /\ LockFree
  /\ account' = Fresh
  /\ dirty' = TRUE
  /\ Done(Loop, save)
  /\ UNCHANGED <<backup, disk, arguments, image, phase, settlements>>

-----------------------------------------------------------------------------
(* save: export under the lock, write without it, clear the flag under it *)

Save ==
  /\ MayCall(Loop)
  /\ Goto(Loop, "export")
  /\ UNCHANGED <<account, dirty, backup, disk, arguments, image, phase, settlements>>

\* Mutant: the state is exported without the account lock.
ExportUnlocked(t) ==
  /\ pc[t] = "export"
  /\ image' = [image EXCEPT ![t] = account]
  /\ Goto(t, "write")
  /\ UNCHANGED <<account, dirty, backup, disk, arguments, phase, settlements>>

Export(t) ==
  /\ pc[t] = "export"
  /\ LockFree
  /\ image' = [image EXCEPT ![t] = account]
  /\ Goto(t, "write")
  /\ UNCHANGED <<account, dirty, backup, disk, arguments, phase, settlements>>

\* The temporary file replaces the old one in one step, or raises.
Write(t) ==
  /\ pc[t] = "write"
  /\ image' = [image EXCEPT ![t] = NoLedger]
  /\ \/ disk' = image[t] /\ Goto(t, "clear")
     \/ WritesFail /\ UNCHANGED disk /\ Goto(t, "idle")
  /\ UNCHANGED <<account, dirty, backup, arguments, phase, settlements>>

Clear(t) ==
  /\ pc[t] = "clear"
  /\ LockFree
  /\ dirty' = FALSE
  /\ Goto(t, "idle")
  /\ UNCHANGED <<account, backup, disk, arguments, image, phase, settlements>>

-----------------------------------------------------------------------------
(* The process: PaperAccountRuntime, crash, restart *)

\* shutdown saves a dirty account; sessions are stopped, their threads maybe not.
Shutdown ==
  /\ phase = "RUNNING"
  /\ pc[Loop] = "idle"
  /\ LockFree
  /\ phase' = "STOPPING"
  /\ Done(Loop, dirty)
  /\ UNCHANGED <<account, dirty, backup, disk, arguments, image, settlements>>

\* The interpreter joins the worker threads before it exits.
Exit ==
  /\ phase = "STOPPING"
  /\ \A t \in Threads : pc[t] = "idle"
  /\ phase' = "STOPPED"
  /\ UNCHANGED <<account, dirty, backup, disk, pc, arguments, image, settlements>>

Everywhere(value) == [t \in Threads |-> value]

\* No thread of the process survives.
Halt ==
  /\ pc' = Everywhere("idle")
  /\ batch' = Everywhere(<<>>)
  /\ persist' = Everywhere(FALSE)
  /\ read' = Everywhere(None)
  /\ image' = Everywhere(NoLedger)
  /\ backup' = None

\* startup: load the file if there is one, else reset.
Load ==
  /\ account' = IF disk = NoLedger THEN Fresh ELSE disk
  /\ dirty' = (disk = NoLedger)
  /\ phase' = "RUNNING"
  /\ Halt
  /\ UNCHANGED <<disk, settlements>>

Startup == phase = "STOPPED" /\ Load

\* The process dies, wherever its threads are, and is started again.
Crash == phase # "STOPPED" /\ Load

Init ==
  /\ account = Fresh
  /\ dirty = TRUE
  /\ disk = NoLedger
  /\ phase = "RUNNING"
  /\ settlements = 0
  /\ pc = Everywhere("idle")
  /\ batch = Everywhere(<<>>)
  /\ persist = Everywhere(FALSE)
  /\ read = Everywhere(None)
  /\ image = Everywhere(NoLedger)
  /\ backup = None

Step(t) ==
  \/ CommitBegin(t) \/ ApplyTrade(t) \/ Rollback(t) \/ CommitEnd(t)
  \/ Export(t) \/ Write(t) \/ Clear(t)

Next ==
  \/ \E t \in Threads, b \in Batches, save \in BOOLEAN : Commit(t, b, save)
  \/ \E t \in Threads : Step(t)
  \/ \E k \in Keys, save \in BOOLEAN : Settle(k, save)
  \/ \E price \in Prices, fee \in SettlementFees : SettleBook(price, fee)
  \/ \E request \in MarkRequests, save \in BOOLEAN : Mark(request, save)
  \/ \E save \in BOOLEAN : Reset(save)
  \/ Save
  \/ Shutdown
  \/ Exit
  \/ Crash
  \/ Startup

Spec == Init /\ [][Next]_vars

-----------------------------------------------------------------------------
(* Properties *)

Ledgers ==
  [cash : Nat, quantity : [Keys -> Nat], marks : [Keys -> Prices \union {NoPrice}],
   trades : Seq(Trades), processed : SUBSET Int]

TypeOK ==
  /\ account \in Ledgers
  /\ dirty \in BOOLEAN
  /\ LockFree => backup = None
  /\ ~LockFree => backup \in [account : Ledgers, dirty : BOOLEAN]
  /\ disk \in Ledgers \union {NoLedger}
  /\ pc \in [Threads -> Labels]
  /\ batch \in [Threads -> Seq(Offered)]
  /\ persist \in [Threads -> BOOLEAN]
  /\ read \in [Threads -> [key : Keys, quantity : Nat \ {0}] \union {None}]
  /\ image \in [Threads -> Ledgers \union {NoLedger}]
  /\ phase \in {"RUNNING", "STOPPING", "STOPPED"}
  /\ settlements \in 0..MaxSettlements

\* The ledgers in memory, on their way to the file, and in it.
Stored == ({account, disk} \union {image[t] : t \in Threads}) \ {NoLedger}

\* No order is booked twice, and the ids known as processed are those of the
\* booked ones: an execution is not repeated, and one that was refused half-way
\* may be sent again, when threads commit and settle at once, after rollbacks,
\* in the file, and after a restart from it.
Recorded(ledger) ==
  /\ ledger.processed = OrdersOf(ledger.trades)
  /\ DistinctOrders(ledger.trades)

BookedOnce == \A ledger \in Stored : Recorded(ledger)

\* Cash and positions are exactly what the recorded trades make them, in the
\* same places: a refused trade, a stale settlement, a save in the middle of a
\* commit or a crash neither create nor lose money or contracts.
CashAfter(trades) ==
  FoldLeft(LAMBDA sum, trade : sum + CashFlow(trade), InitialCash, trades)

Held(trades, k) ==
  FoldLeft(LAMBDA sum, trade :
             CASE trade.key # k                          -> sum
               [] trade.key = k /\ trade.side = "BUY"    -> sum + trade.quantity
               [] trade.key = k /\ trade.side = "SELL"   -> sum - trade.quantity,
           0, trades)

BooksBalance ==
  \A ledger \in Stored :
    /\ ledger.cash = CashAfter(ledger.trades)
    /\ \A k \in Keys : ledger.quantity[k] = Held(ledger.trades, k)

\* What makes TypeOK and BookedOnce inductive: one commit holds the lock, settle
\* has read its position; what a commit may have to restore is sound too, no
\* stored ledger knows a settlement not issued yet, and the rest of a batch is
\* still to be booked.
Control ==
  /\ \A t, u \in Threads : pc[t] = "apply" /\ pc[u] = "apply" => t = u
  /\ pc[Loop] = "settle" => read[Loop] # None /\ settlements < MaxSettlements

Kept == Stored \union (IF LockFree THEN {} ELSE {backup.account})

Sound ==
  \A ledger \in Kept :
    Recorded(ledger) /\ \A order \in ledger.processed : -settlements <= order

Remaining ==
  \A t \in Threads : pc[t] = "apply" =>
    DistinctOrders(batch[t]) /\ OrdersOf(batch[t]) \intersect account.processed = {}

\* now is base after the first n trades of an admitted execution b, rest the others.
Begun(base, now, rest, b, n) ==
  /\ DistinctOrders(b)
  /\ OrdersOf(b) \intersect base.processed = {}
  /\ rest = SubSeq(b, n + 1, Len(b))
  /\ now = FoldLeft(Booked, base, SubSeq(b, 1, n))

\* What makes ImplementsLedger inductive: a commit that holds the lock has booked
\* the beginning of an admitted execution on what it may have to restore, the rest
\* of it is still to be booked, and what is about to be written is a ledger.
Underway ==
  \A t \in Threads :
    /\ pc[t] = "commit" => batch[t] \in Batches
    /\ pc[t] = "write" => image[t] # NoLedger
    /\ pc[t] = "apply" => \E b \in Batches : \E n \in 0..Len(b) :
                            Begun(backup.account, account, batch[t], b, n)

\* The ledger the others will find behind the lock moves only by whole
\* executions, and the file only ever holds a ledger it really was.
Committed == IF LockFree THEN account ELSE backup.account
Promise == INSTANCE PaperLedger WITH memory <- Committed, saving <- image
ImplementsLedger == Promise!LedgerSpec
=============================================================================
