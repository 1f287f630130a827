---------------------------- MODULE PaperLedger ----------------------------
(***************************************************************************)
(* What the paper account promises its users: a ledger that moves in whole *)
(* executions, and a file that only ever holds a ledger the account really *)
(* had.                                                                    *)
(***************************************************************************)
EXTENDS PaperTrades, FiniteSets

CONSTANT Threads  \* who calls the account

VARIABLES
  memory,   \* the account, as of the last finished operation
  saving,   \* what each thread has exported and not written yet
  disk      \* the account file, NoLedger when there is none

Nothing == [t \in Threads |-> NoLedger]

\* A whole execution, of orders never booked before, or nothing.
Execute(batch) ==
  /\ Cardinality(OrdersOf(batch)) = Len(batch)
  /\ OrdersOf(batch) \intersect memory.processed = {}
  /\ memory' = FoldLeft(Booked, memory, batch)
  /\ memory'.cash >= 0
  /\ \A k \in Keys : memory'.quantity[k] >= 0
  /\ UNCHANGED <<saving, disk>>

\* A settlement sells no more than is held, for at most One each.
Settlement(k) ==
  /\ \E n \in 1..memory.quantity[k], price \in Prices :
       /\ memory'.quantity = [memory.quantity EXCEPT ![k] = @ - n]
       /\ memory'.cash \in memory.cash..(memory.cash + n * price)
  /\ memory.processed \subseteq memory'.processed
  /\ Len(memory'.trades) = Len(memory.trades) + 1
  /\ UNCHANGED <<saving, disk>>

\* Only prices of existing positions move.
Revalue ==
  /\ \E marks \in [Keys -> Prices \union {NoPrice}] :
       /\ \A k \in Keys : marks[k] = NoPrice <=> memory.marks[k] = NoPrice
       /\ memory' = [memory EXCEPT !.marks = marks]
  /\ UNCHANGED <<saving, disk>>

StartOver ==
  /\ memory' = Fresh
  /\ UNCHANGED <<saving, disk>>

Export(t) ==
  /\ saving' = [saving EXCEPT ![t] = memory]
  /\ UNCHANGED <<memory, disk>>

\* The file is replaced as a whole, or not at all.
Write(t) ==
  /\ saving[t] # NoLedger
  /\ disk' \in {saving[t], disk}
  /\ saving' = [saving EXCEPT ![t] = NoLedger]
  /\ UNCHANGED memory

\* The process ends and starts again from the file.
Reload ==
  /\ memory' = IF disk = NoLedger THEN Fresh ELSE disk
  /\ saving' = Nothing
  /\ UNCHANGED disk

LedgerInit ==
  /\ memory = Fresh
  /\ saving = Nothing
  /\ disk = NoLedger

LedgerNext ==
  \/ \E b \in Batches : Execute(b)
  \/ \E k \in Keys : Settlement(k)
  \/ Revalue
  \/ StartOver
  \/ \E t \in Threads : Export(t) \/ Write(t)
  \/ Reload

LedgerSpec == LedgerInit /\ [][LedgerNext]_<<memory, saving, disk>>
=============================================================================
