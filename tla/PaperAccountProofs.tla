------------------------- MODULE PaperAccountProofs -------------------------
(***************************************************************************)
(* Theorems about PaperAccount, for every set of threads, executions,      *)
(* positions and amounts.                                                  *)
(***************************************************************************)
EXTENDS PaperAccount, SequenceTheorems, FoldFacts

-----------------------------------------------------------------------------
(* Ledger arithmetic *)

LEMMA PriceFacts == Prices \subseteq Int /\ NoPrice \notin Prices
BY TradesAssumption DEF Prices, NoPrice

LEMMA CashFlowType ==
  ASSUME NEW t \in Trades
  PROVE  CashFlow(t) \in Int
<1>1. t.quantity \in Int /\ t.price \in Int /\ t.fee \in Int
  BY TradesAssumption DEF Trades, Prices
<1>2. t.quantity * t.price \in Int
  BY <1>1
<1>3. -(t.quantity * t.price + t.fee) \in Int
  BY <1>1, <1>2
<1>4. t.quantity * t.price - t.fee \in Int
  BY <1>1, <1>2
<1> QED
  BY <1>3, <1>4, Zenon DEF CashFlow

LEMMA BookedType ==
  ASSUME NEW ledger \in Ledgers, NEW t \in Trades, Bookable(ledger, t)
  PROVE  Booked(ledger, t) \in Ledgers
<1>1. CashFlow(t) \in Int
  BY CashFlowType
<1>2. ledger.cash + CashFlow(t) \in Nat
  BY <1>1 DEF Bookable, Ledgers
<1>3. [ledger.quantity EXCEPT ![t.key] =
         IF t.side = "BUY" THEN @ + t.quantity ELSE @ - t.quantity] \in [Keys -> Nat]
  BY DEF Bookable, Ledgers, Trades
<1>4. [ledger.marks EXCEPT ![t.key] = t.price] \in [Keys -> Prices \union {NoPrice}]
  BY DEF Ledgers, Trades
<1>5. Append(ledger.trades, t) \in Seq(Trades)
  BY DEF Ledgers
<1>6. ledger.processed \union {t.order} \in SUBSET Int
  BY DEF Ledgers, Trades
<1> QED
  BY <1>2, <1>3, <1>4, <1>5, <1>6 DEF Booked, Ledgers

LEMMA FreshType == Fresh \in Ledgers
BY TradesAssumption DEF Fresh, Ledgers

LEMMA NoLedgerIsNone == NoLedger \notin Ledgers
<1>1. DOMAIN NoLedger = {"none"}
  BY DEF NoLedger
<1>2. \A ledger \in Ledgers : "cash" \in DOMAIN ledger
  BY DEF Ledgers
<1> QED
  BY <1>1, <1>2

LEMMA NoneIsNoRead ==
  None \notin [key : Keys, quantity : Nat \ {0}]
<1>1. DOMAIN None = {"none"}
  BY DEF None
<1>2. \A r \in [key : Keys, quantity : Nat \ {0}] : "key" \in DOMAIN r
  OBVIOUS
<1> QED
  BY <1>1, <1>2

LEMMA BatchFacts ==
  ASSUME NEW s \in Seq(Offered), s # <<>>
  PROVE  /\ Head(s) \in Offered
         /\ Head(s) = s[1]
         /\ 1 \in DOMAIN s
         /\ Tail(s) \in Seq(Offered)
         /\ \A i \in DOMAIN Tail(s) : i + 1 \in DOMAIN s /\ Tail(s)[i] = s[i + 1]
BY HeadTailProperties

-----------------------------------------------------------------------------
(* Types *)

Typed == TypeOK /\ Control

\* Marks become prices, and only those of existing positions.
LEMMA MarksMove ==
  ASSUME NEW request \in MarkRequests, NEW save, Mark(request, save),
         account \in Ledgers
  PROVE  \E new \in [Keys -> Prices \union {NoPrice}] :
           /\ \A k \in Keys : new[k] = NoPrice <=> account.marks[k] = NoPrice
           /\ account' = [account EXCEPT !.marks = new]
<1>1. request \in Seq([key : Keys, price : Prices])
  BY AccountAssumption
<1>5. ASSUME NEW i \in DOMAIN request
      PROVE  request[i].price \in Prices
  <2>1. request[i] \in [key : Keys, price : Prices]
    BY <1>1, LenProperties, ElementOfSeq
  <2>2. PICK e \in [key : Keys, price : Prices] : request[i] = e
    BY <2>1
  <2> QED
    BY <2>2
<1> DEFINE known(i) == Exists(account, request[i].key)
           done     == {i \in DOMAIN request : \A j \in 1..i : known(j)}
           marks(k) == {i \in done : request[i].key = k}
           new      == [k \in Keys |-> IF marks(k) = {} THEN account.marks[k]
                                       ELSE request[Max(marks(k))].price]
<1>2. account' = [account EXCEPT !.marks = new]
  BY DEF Mark
<1>3. \A k \in Keys : marks(k) \in SUBSET (1..Len(request)) /\ Len(request) \in Nat
  BY <1>1
<1>4. ASSUME NEW k \in Keys, marks(k) # {}
      PROVE  Max(marks(k)) \in DOMAIN request /\ account.marks[k] # NoPrice
  <2>1. Max(marks(k)) \in marks(k)
    <3> HIDE DEF marks
    <3> QED
      BY <1>3, <1>4, MaxIndex
  <2>2. \A i \in marks(k) : i \in DOMAIN request /\ known(i) /\ request[i].key = k
    <3> SUFFICES ASSUME NEW i \in marks(k)
                 PROVE  i \in DOMAIN request /\ known(i) /\ request[i].key = k
      OBVIOUS
    <3>1. i \in 1..Len(request)
      BY <1>3
    <3>2. i \in 1..i
      BY <3>1
    <3> QED
      BY <3>2
  <2> HIDE DEF marks
  <2> QED
    BY <2>1, <2>2 DEF Exists
<1>6. /\ new \in [Keys -> Prices \union {NoPrice}]
      /\ \A k \in Keys : new[k] = NoPrice <=> account.marks[k] = NoPrice
  <2> HIDE DEF marks
  <2> QED
    BY <1>4, <1>5, PriceFacts DEF Ledgers
<1> HIDE DEF new
<1> QED
  BY <1>2, <1>6

LEMMA MarkType ==
  ASSUME NEW request \in MarkRequests, NEW save, Mark(request, save),
         account \in Ledgers
  PROVE  account' \in Ledgers
BY MarksMove DEF Ledgers

LEMMA LoadType ==
  ASSUME Typed, Load
  PROVE  Typed'
<1>1. account' \in Ledgers
  BY FreshType DEF Load, Typed, TypeOK
<1>2. Everywhere(<<>>) \in [Threads -> Seq(Offered)]
  BY EmptySeq DEF Everywhere
<1>3. LockFree'
  BY DEF Load, Halt, Everywhere, LockFree
<1>4. /\ pc' \in [Threads -> Labels] /\ persist' \in [Threads -> BOOLEAN]
      /\ read' \in [Threads -> [key : Keys, quantity : Nat \ {0}] \union {None}]
      /\ image' \in [Threads -> Ledgers \union {NoLedger}]
  BY DEF Load, Halt, Everywhere, Labels
<1>5. \A t \in Threads : pc'[t] = "idle"
  BY DEF Load, Halt, Everywhere
<1>6. batch' \in [Threads -> Seq(Offered)] /\ backup' = None
  BY <1>2 DEF Load, Halt
<1>7. dirty' \in BOOLEAN /\ phase' = "RUNNING" /\ UNCHANGED <<disk, settlements>>
  BY DEF Load
<1>8. Loop \in Threads
  BY DEF Threads
<1> QED
  BY <1>1, <1>3, <1>4, <1>5, <1>6, <1>7, <1>8 DEF Typed, TypeOK, Control

LEMMA TypedInit == Init => Typed
<1> SUFFICES ASSUME Init PROVE Typed
  OBVIOUS
<1>1. Everywhere(<<>>) \in [Threads -> Seq(Offered)]
  BY EmptySeq DEF Everywhere
<1>2. LockFree
  BY DEF Init, Everywhere, LockFree
<1> QED
  BY <1>1, <1>2, FreshType, AccountAssumption
  DEF Init, Everywhere, Typed, TypeOK, Control, Labels, Threads

LEMMA TypedNext == Typed /\ [Next]_vars => Typed'
<1> SUFFICES ASSUME Typed, [Next]_vars
             PROVE  Typed'
  OBVIOUS
<1> USE DEF Typed
<1>a. Loop \in Threads
  BY DEF Threads
<1>1. ASSUME NEW t \in Threads, NEW b \in Batches, NEW save \in BOOLEAN, Commit(t, b, save)
      PROVE  Typed'
  <2>1. b \in Seq(Offered)
    BY TradesAssumption
  <2>2. LockFree' <=> LockFree
    BY <1>1 DEF Commit, MayCall, Goto, LockFree, TypeOK
  <2> QED
    BY <1>1, <2>1, <2>2 DEF Commit, MayCall, Goto, TypeOK, Control, Labels
<1>2. ASSUME NEW t \in Threads, CommitBegin(t)
      PROVE  Typed'
  <2>1. CASE Admissible(batch[t])
    <3>1. ~LockFree'
      BY <1>2, <2>1 DEF CommitBegin, Goto, LockFree, TypeOK
    <3>2. \A u \in Threads : pc'[u] = "apply" => u = t
      BY <1>2, <2>1 DEF CommitBegin, Goto, LockFree, TypeOK
    <3>3. backup' \in [account : Ledgers, dirty : BOOLEAN]
      BY <1>2, <2>1 DEF CommitBegin, TypeOK
    <3>4. pc' \in [Threads -> Labels] /\ (pc'[Loop] = "settle" => pc[Loop] = "settle")
      BY <1>a, <1>2, <2>1 DEF CommitBegin, Goto, TypeOK, Labels
    <3>5. UNCHANGED <<account, dirty, disk, persist, batch, read, image, phase, settlements>>
      BY <1>2, <2>1 DEF CommitBegin
    <3>6. TypeOK'
      BY <3>1, <3>3, <3>4, <3>5 DEF TypeOK
    <3> QED
      BY <3>2, <3>4, <3>5, <3>6 DEF Control
  <2>2. CASE ~Admissible(batch[t])
    <3>1. LockFree /\ LockFree'
      BY <1>2, <2>2 DEF CommitBegin, Goto, LockFree, TypeOK
    <3>2. batch' \in [Threads -> Seq(Offered)]
      <4>1. batch' = [batch EXCEPT ![t] = <<>>]
        BY <1>2, <2>2 DEF CommitBegin
      <4>2. <<>> \in Seq(Offered)
        BY EmptySeq
      <4> QED
        BY <4>1, <4>2 DEF TypeOK
    <3>3. pc' \in [Threads -> Labels] /\ (pc'[Loop] = "settle" => pc[Loop] = "settle")
      BY <1>a, <1>2, <2>2 DEF CommitBegin, Goto, TypeOK, Labels
    <3>5. UNCHANGED <<account, dirty, backup, disk, persist, read, image, phase, settlements>>
      BY <1>2, <2>2 DEF CommitBegin
    <3>6. TypeOK'
      BY <3>1, <3>2, <3>3, <3>5 DEF TypeOK
    <3> QED
      BY <3>1, <3>3, <3>5, <3>6 DEF Control, LockFree
  <2> QED
    BY <2>1, <2>2
<1>3. ASSUME NEW t \in Threads, ApplyTrade(t)
      PROVE  Typed'
  <2>1. Head(batch[t]) \in Offered /\ Tail(batch[t]) \in Seq(Offered)
    BY <1>3, BatchFacts DEF ApplyTrade, TypeOK
  <2>2. account' \in Ledgers
    BY <1>3, <2>1, BookedType DEF ApplyTrade, TypeOK, Offered
  <2>3. LockFree' <=> LockFree
    BY <1>3 DEF ApplyTrade, LockFree
  <2> QED
    BY <1>3, <2>1, <2>2, <2>3 DEF ApplyTrade, TypeOK, Control
<1>4. ASSUME NEW t \in Threads, Rollback(t) \/ CommitEnd(t)
      PROVE  Typed'
  <2>1. ~LockFree /\ LockFree'
    BY <1>4 DEF Rollback, CommitEnd, Done, Goto, LockFree, TypeOK, Control
  <2>2. batch' \in [Threads -> Seq(Offered)]
    BY <1>4, EmptySeq DEF Rollback, CommitEnd, arguments, TypeOK
  <2>3. account' \in Ledgers /\ dirty' \in BOOLEAN /\ backup' = None
    BY <1>4, <2>1 DEF Rollback, CommitEnd, TypeOK
  <2>4. pc' \in [Threads -> Labels] /\ (pc'[Loop] = "settle" => pc[Loop] = "settle")
    BY <1>a, <1>4 DEF Rollback, CommitEnd, Done, Goto, TypeOK, Labels
  <2>5. UNCHANGED <<disk, persist, read, image, phase, settlements>>
    BY <1>4 DEF Rollback, CommitEnd, arguments
  <2>6. TypeOK'
    BY <2>1, <2>2, <2>3, <2>4, <2>5 DEF TypeOK
  <2> QED
    BY <2>1, <2>4, <2>5, <2>6 DEF Control, LockFree
<1>5. ASSUME NEW k \in Keys, NEW save \in BOOLEAN, Settle(k, save)
      PROVE  Typed'
  <2>1. [key |-> k, quantity |-> account.quantity[k]] \in
          [key : Keys, quantity : Nat \ {0}]
    BY <1>5 DEF Settle, TypeOK, Ledgers
  <2>2. LockFree' <=> LockFree
    BY <1>5, AccountAssumption DEF Settle, MayCall, Goto, LockFree, TypeOK, Threads
  <2> QED
    BY <1>5, <2>1, <2>2, NoneIsNoRead
    DEF Settle, MayCall, Goto, TypeOK, Control, Labels, Threads
<1>6. ASSUME NEW price \in Prices, NEW fee \in SettlementFees, SettleBook(price, fee)
      PROVE  Typed'
  <2>1. SettlementTrade(price, fee) \in Trades
    BY <1>6, AccountAssumption DEF SettleBook, SettlementTrade, TypeOK, Control, Trades, Threads
  <2>2. account' \in Ledgers /\ dirty' \in BOOLEAN
    BY <1>6, <2>1, BookedType DEF SettleBook, TypeOK
  <2>3. LockFree /\ LockFree'
    BY <1>6 DEF SettleBook, Done, Goto, LockFree, TypeOK
  <2>4. pc' \in [Threads -> Labels] /\ pc'[Loop] # "settle"
    BY <1>6 DEF SettleBook, Done, Goto, TypeOK, Labels, Threads
  <2>5. settlements' \in 0..MaxSettlements
    BY <1>6, AccountAssumption DEF SettleBook, TypeOK, Control
  <2> QED
    BY <1>6, <2>2, <2>3, <2>4, <2>5 DEF SettleBook, TypeOK, Control, LockFree
<1>7. ASSUME NEW request \in MarkRequests, NEW save \in BOOLEAN, Mark(request, save)
      PROVE  Typed'
  <2>1. account' \in Ledgers
    BY <1>7, MarkType DEF Mark, TypeOK
  <2>2. dirty' \in BOOLEAN
    BY <1>7 DEF Mark, TypeOK
  <2>3. LockFree /\ LockFree'
    BY <1>7 DEF Mark, Done, Goto, LockFree, TypeOK
  <2>4. pc' \in [Threads -> Labels] /\ pc'[Loop] # "settle"
    BY <1>7 DEF Mark, Done, Goto, TypeOK, Labels, Threads
  <2> QED
    BY <1>7, <2>1, <2>2, <2>3, <2>4 DEF Mark, arguments, TypeOK, Control, LockFree
<1>8. ASSUME NEW save \in BOOLEAN, Reset(save)
      PROVE  Typed'
  <2>1. LockFree /\ LockFree'
    BY <1>8 DEF Reset, Done, Goto, LockFree, TypeOK
  <2>2. pc' \in [Threads -> Labels] /\ pc'[Loop] # "settle"
    BY <1>8 DEF Reset, Done, Goto, TypeOK, Labels, Threads
  <2> QED
    BY <1>8, <2>1, <2>2, FreshType DEF Reset, arguments, TypeOK, Control, LockFree
<1>9. ASSUME Save \/ \E t \in Threads : Export(t) \/ Write(t) \/ Clear(t)
      PROVE  Typed'
  <2>1. PICK t \in Threads : (t = Loop /\ Save) \/ Export(t) \/ Write(t) \/ Clear(t)
    BY <1>9 DEF Threads
  <2>2. LockFree' <=> LockFree
    BY <2>1 DEF Save, MayCall, Export, Write, Clear, Goto, LockFree, TypeOK
  <2>3. /\ pc' \in [Threads -> Labels]
        /\ \A u \in Threads : pc'[u] \in {"apply", "settle"} => pc'[u] = pc[u]
    BY <2>1 DEF Save, Export, Write, Clear, Goto, TypeOK, Labels
  <2>4. image' \in [Threads -> Ledgers \union {NoLedger}]
        /\ disk' \in Ledgers \union {NoLedger}
        /\ dirty' \in BOOLEAN
    BY <2>1 DEF Save, Export, Write, Clear, TypeOK
  <2>5. UNCHANGED <<account, backup, batch, persist, read, phase, settlements>>
    BY <2>1 DEF Save, Export, Write, Clear, arguments
  <2> QED
    BY <2>2, <2>3, <2>4, <2>5 DEF TypeOK, Control, Threads
<1>10. ASSUME Shutdown \/ Exit
       PROVE  Typed'
  <2>1. LockFree' <=> LockFree
    BY <1>10 DEF Shutdown, Exit, Done, Goto, LockFree, TypeOK
  <2>2. pc' \in [Threads -> Labels]
        /\ \A u \in Threads : pc'[u] \in {"apply", "settle"} => pc'[u] = pc[u]
    BY <1>10 DEF Shutdown, Exit, Done, Goto, TypeOK, Labels
  <2> QED
    BY <1>10, <2>1, <2>2 DEF Shutdown, Exit, arguments, TypeOK, Control, Threads
<1>11. ASSUME Crash \/ Startup
       PROVE  Typed'
  BY <1>11, LoadType DEF Crash, Startup
<1>12. ASSUME UNCHANGED vars
       PROVE  Typed'
  BY <1>12 DEF vars, arguments, TypeOK, Control, LockFree
<1> QED
  BY <1>1, <1>2, <1>3, <1>4, <1>5, <1>6, <1>7, <1>8, <1>9, <1>10, <1>11, <1>12
  DEF Next, Step

\* The fields of the account keep their types whatever the threads, the
\* executions and the amounts: no wallet and no position of memory, of a backup,
\* of an export or of the file is ever negative (PaperWallet, PaperPosition).
THEOREM TypeCorrect == Spec => []TypeOK
<1>1. Typed => TypeOK
  BY DEF Typed
<1> QED
  BY TypedInit, TypedNext, <1>1, PTL DEF Spec

-----------------------------------------------------------------------------
(* Orders *)

OnceInv == Typed /\ Sound /\ Remaining

\* A ledger that a restart after any later settlement may find.
Fine(ledger, issued) ==
  Recorded(ledger) /\ \A order \in ledger.processed : -issued <= order

LEMMA FineFresh == \A issued \in Nat : Fine(Fresh, issued)
BY DEF Fine, Fresh, Recorded, OrdersOf, DistinctOrders

LEMMA FineLater ==
  ASSUME NEW ledger \in Ledgers, NEW m \in Nat, NEW n \in Nat, m <= n, Fine(ledger, m)
  PROVE  Fine(ledger, n)
<1>1. ledger.processed \subseteq Int
  BY DEF Ledgers
<1> QED
  BY <1>1 DEF Fine

LEMMA FineBooked ==
  ASSUME NEW ledger \in Ledgers, NEW t \in Trades, NEW n \in Nat,
         Fine(ledger, n), t.order \notin ledger.processed, -n <= t.order
  PROVE  Fine(Booked(ledger, t), n)
<1> DEFINE after == Booked(ledger, t)
<1>1. /\ after.trades = Append(ledger.trades, t)
      /\ after.processed = ledger.processed \union {t.order}
  BY DEF Booked
<1>2. /\ ledger.processed = OrdersOf(ledger.trades)
      /\ DistinctOrders(ledger.trades)
  BY DEF Fine, Recorded
<1>a. /\ DOMAIN ledger.trades = 1..Len(ledger.trades)
      /\ DOMAIN after.trades = 1..(Len(ledger.trades) + 1)
      /\ \A i \in DOMAIN ledger.trades : after.trades[i] = ledger.trades[i]
      /\ after.trades[Len(ledger.trades) + 1] = t
      /\ Len(ledger.trades) \in Nat
  <2>1. ledger.trades \in Seq(Trades)
    BY DEF Ledgers
  <2> QED
    BY <1>1, <2>1, AppendProperties, LenProperties
<1>b. \A i \in DOMAIN ledger.trades : ledger.trades[i].order # t.order
  BY <1>2 DEF OrdersOf
<1> HIDE DEF after
<1>3. Recorded(after)
  <2>1. after.processed = OrdersOf(after.trades)
    <3>1. OrdersOf(after.trades) = OrdersOf(ledger.trades) \union {t.order}
      <4>1. \A i \in DOMAIN after.trades :
              i \in DOMAIN ledger.trades \/ i = Len(ledger.trades) + 1
        BY <1>a
      <4>2. \A i \in DOMAIN ledger.trades : i \in DOMAIN after.trades
        BY <1>a
      <4>3. Len(ledger.trades) + 1 \in DOMAIN after.trades
        BY <1>a
      <4>4. OrdersOf(after.trades) \subseteq OrdersOf(ledger.trades) \union {t.order}
        <5> SUFFICES ASSUME NEW order \in OrdersOf(after.trades)
                     PROVE  order \in OrdersOf(ledger.trades) \union {t.order}
          OBVIOUS
        <5>2. PICK i \in DOMAIN after.trades : order = after.trades[i].order
          BY DEF OrdersOf
        <5>3. CASE i \in DOMAIN ledger.trades
          BY <1>a, <5>2, <5>3 DEF OrdersOf
        <5>4. CASE i = Len(ledger.trades) + 1
          BY <1>a, <5>2, <5>4
        <5> QED
          BY <4>1, <5>3, <5>4
      <4>5. OrdersOf(ledger.trades) \subseteq OrdersOf(after.trades)
        <5> SUFFICES ASSUME NEW order \in OrdersOf(ledger.trades)
                     PROVE  order \in OrdersOf(after.trades)
          OBVIOUS
        <5>2. PICK i \in DOMAIN ledger.trades : order = ledger.trades[i].order
          BY DEF OrdersOf
        <5>3. order = after.trades[i].order /\ i \in DOMAIN after.trades
          BY <1>a, <4>2, <5>2
        <5> QED
          BY <5>3 DEF OrdersOf
      <4>6. t.order \in OrdersOf(after.trades)
        <5>1. t.order = after.trades[Len(ledger.trades) + 1].order
          BY <1>a
        <5> QED
          BY <4>3, <5>1 DEF OrdersOf
      <4> QED
        BY <4>4, <4>5, <4>6
    <3> QED
      BY <1>1, <1>2, <3>1
  <2>2. DistinctOrders(after.trades)
    <3> SUFFICES ASSUME NEW i \in DOMAIN after.trades, NEW j \in DOMAIN after.trades, i # j
                 PROVE  after.trades[i].order # after.trades[j].order
      BY DEF DistinctOrders
    <3> DEFINE last == Len(ledger.trades) + 1
    <3>1. /\ i \in DOMAIN ledger.trades \/ i = last
          /\ j \in DOMAIN ledger.trades \/ j = last
      BY <1>a
    <3>2. CASE i \in DOMAIN ledger.trades /\ j \in DOMAIN ledger.trades
      <4>1. ledger.trades[i].order # ledger.trades[j].order
        BY <1>2, <3>2 DEF DistinctOrders
      <4> QED
        BY <1>a, <3>2, <4>1
    <3>3. CASE i = last /\ j \in DOMAIN ledger.trades
      <4>1. after.trades[i] = t /\ after.trades[j] = ledger.trades[j]
        BY <1>a, <3>3
      <4> QED
        BY <1>b, <3>3, <4>1
    <3>4. CASE j = last /\ i \in DOMAIN ledger.trades
      <4>1. after.trades[j] = t /\ after.trades[i] = ledger.trades[i]
        BY <1>a, <3>4
      <4> QED
        BY <1>b, <3>4, <4>1
    <3> QED
      BY <3>1, <3>2, <3>3, <3>4
  <2> QED
    BY <2>1, <2>2 DEF Recorded
<1>4. \A order \in after.processed : -n <= order
  BY <1>1 DEF Fine
<1> QED
  BY <1>3, <1>4 DEF Fine, after

\* Sound is kept by a step that keeps every ledger or adds sound ones.
LEMMA SoundStep ==
  ASSUME Typed, Typed', Sound, settlements <= settlements',
         \A ledger \in Kept' : ledger \in Kept \/ Fine(ledger, settlements')
  PROVE  Sound'
<1>1. settlements \in Nat /\ settlements' \in Nat
  BY AccountAssumption DEF Typed, TypeOK
<1>2. \A ledger \in Kept : ledger \in Ledgers /\ Fine(ledger, settlements)
  <2>1. TAKE ledger \in Kept
  <2>2. ledger \in Ledgers
    <3>1. CASE ledger \in Stored
      BY <3>1 DEF Stored, Typed, TypeOK
    <3>2. CASE ~LockFree /\ ledger = backup.account
      BY <3>2 DEF Typed, TypeOK
    <3> QED
      BY <3>1, <3>2 DEF Kept
  <2> QED
    BY <2>2 DEF Sound, Fine
<1>3. \A ledger \in Kept' : Fine(ledger, settlements')
  BY <1>1, <1>2, FineLater
<1> QED
  BY <1>3 DEF Sound, Fine

LEMMA OnceInit == Init => OnceInv
<1> SUFFICES ASSUME Init PROVE OnceInv
  OBVIOUS
<1>1. LockFree
  BY DEF Init, Everywhere, LockFree
<1>2. \A ledger \in Kept : ledger = Fresh
  BY <1>1 DEF Init, Everywhere, Kept, Stored
<1>3. Sound
  BY <1>2, FineFresh DEF Init, Sound, Fine
<1>4. Remaining
  BY <1>1 DEF Remaining, LockFree
<1> QED
  BY <1>3, <1>4, TypedInit DEF OnceInv

LEMMA OnceNext == OnceInv /\ [Next]_vars => OnceInv'
<1> SUFFICES ASSUME OnceInv, [Next]_vars
             PROVE  OnceInv'
  OBVIOUS
<1>a. Typed /\ Typed' /\ Sound /\ Remaining /\ Loop \in Threads
  BY TypedNext DEF OnceInv, Threads
<1>b. settlements \in Nat /\ settlements' \in Nat /\ account \in Ledgers
  BY <1>a, AccountAssumption DEF Typed, TypeOK
<1>c. account \in Kept
  BY <1>b, NoLedgerIsNone DEF Kept, Stored
<1>d. Fine(account, settlements)
  BY <1>a, <1>c DEF Sound, Fine
<1>e. ASSUME LockFree', settlements <= settlements',
             \A ledger \in Stored' : ledger \in Kept \/ Fine(ledger, settlements')
      PROVE  OnceInv'
  <2>1. Sound'
    BY <1>a, <1>e, SoundStep DEF Kept
  <2>2. Remaining'
    BY <1>e DEF Remaining, LockFree
  <2> QED
    BY <1>a, <2>1, <2>2 DEF OnceInv
\* Threads that do not hold the lock, and ledgers that do not move.
<1>f. ASSUME UNCHANGED <<account, backup, settlements>>,
             \A ledger \in Stored' : ledger \in Stored,
             \A u \in Threads : pc'[u] = "apply" <=> pc[u] = "apply",
             \A u \in Threads : pc[u] = "apply" => batch'[u] = batch[u]
      PROVE  OnceInv'
  <2>1. LockFree' <=> LockFree
    BY <1>f DEF LockFree
  <2>2. Sound'
    BY <1>a, <1>b, <1>f, <2>1, SoundStep DEF Kept
  <2>3. Remaining'
    BY <1>a, <1>f DEF Remaining
  <2> QED
    BY <1>a, <2>2, <2>3 DEF OnceInv
<1>1. ASSUME NEW t \in Threads, NEW b \in Batches, NEW save \in BOOLEAN, Commit(t, b, save)
      PROVE  OnceInv'
  <2>1. \A u \in Threads : /\ pc'[u] = "apply" <=> pc[u] = "apply"
                           /\ pc[u] = "apply" => batch'[u] = batch[u]
    BY <1>a, <1>1 DEF Commit, MayCall, Goto, Typed, TypeOK
  <2> QED
    BY <1>1, <1>f, <2>1 DEF Commit, Stored
<1>2. ASSUME NEW t \in Threads, CommitBegin(t)
      PROVE  OnceInv'
  <2>1. CASE Admissible(batch[t])
    <3>1. LockFree /\ UNCHANGED <<account, disk, image, batch, settlements>>
      BY <1>2, <2>1 DEF CommitBegin
    <3>2. backup'.account = account
      BY <1>2, <2>1 DEF CommitBegin
    <3>3. \A ledger \in Kept' : ledger \in Kept
      BY <1>c, <3>1, <3>2 DEF Kept, Stored
    <3>4. Sound'
      BY <1>a, <1>b, <3>1, <3>3, SoundStep
    <3>5. \A u \in Threads : pc'[u] = "apply" => u = t
      BY <1>a, <1>2, <2>1 DEF CommitBegin, Goto, LockFree, Typed, TypeOK
    <3>6. Remaining'
      BY <2>1, <3>1, <3>5 DEF Remaining, Admissible
    <3> QED
      BY <1>a, <3>4, <3>6 DEF OnceInv
  <2>2. CASE ~Admissible(batch[t])
    <3>1. LockFree /\ LockFree'
      BY <1>a, <1>2, <2>2 DEF CommitBegin, Goto, LockFree, Typed, TypeOK
    <3>2. UNCHANGED <<account, disk, image, settlements>>
      BY <1>2, <2>2 DEF CommitBegin
    <3> QED
      BY <1>b, <1>e, <3>1, <3>2 DEF Stored, Kept
  <2> QED
    BY <2>1, <2>2
<1>3. ASSUME NEW t \in Threads, ApplyTrade(t)
      PROVE  OnceInv'
  <2> DEFINE trade == Head(batch[t])
  <2>1. /\ trade \in Offered /\ trade = batch[t][1] /\ 1 \in DOMAIN batch[t]
        /\ \A i \in DOMAIN Tail(batch[t]) :
             i + 1 \in DOMAIN batch[t] /\ Tail(batch[t])[i] = batch[t][i + 1]
        /\ DOMAIN Tail(batch[t]) \subseteq Nat \ {0}
    <3>1. batch[t] \in Seq(Offered) /\ batch[t] # <<>>
      BY <1>a, <1>3 DEF ApplyTrade, Typed, TypeOK
    <3>2. Tail(batch[t]) \in Seq(Offered)
      BY <3>1, BatchFacts
    <3> QED
      BY <3>1, <3>2, BatchFacts, LenProperties
  <2>2. /\ DistinctOrders(batch[t])
        /\ OrdersOf(batch[t]) \intersect account.processed = {}
    BY <1>a, <1>3 DEF ApplyTrade, Remaining
  <2>3. /\ account' = Booked(account, trade) /\ batch' = [batch EXCEPT ![t] = Tail(@)]
        /\ UNCHANGED <<backup, disk, pc, image, settlements>>
    BY <1>3 DEF ApplyTrade
  <2>4. trade.order \notin account.processed
    BY <2>1, <2>2 DEF OrdersOf
  <2>5. trade \in Trades /\ trade.order \in Nat
    BY <2>1 DEF Offered
  <2>6. account'.processed = account.processed \union {trade.order}
    BY <2>3 DEF Booked
  <2>7. batch'[t] = Tail(batch[t])
    BY <1>a, <2>3 DEF Typed, TypeOK
  <2> HIDE DEF trade
  <2>8. Fine(account', settlements')
    BY <1>b, <1>d, <2>3, <2>4, <2>5, FineBooked
  <2>9. Sound'
    <3>1. \A ledger \in Kept' : ledger \in Kept \/ ledger = account'
      BY <2>3 DEF Kept, Stored, LockFree
    <3> QED
      BY <1>a, <1>b, <2>3, <2>8, <3>1, SoundStep
  <2>10. DistinctOrders(batch'[t])
    BY <2>1, <2>2, <2>7 DEF DistinctOrders
  <2>11. OrdersOf(batch'[t]) \intersect account'.processed = {}
    <3>1. ASSUME NEW i \in DOMAIN Tail(batch[t])
          PROVE  Tail(batch[t])[i].order \notin account'.processed
      <4>1. i + 1 # 1 /\ i + 1 \in DOMAIN batch[t]
        BY <2>1
      <4>2. batch[t][i + 1].order # trade.order
        BY <2>1, <2>2, <4>1 DEF DistinctOrders
      <4>3. batch[t][i + 1].order \notin account.processed
        BY <2>2, <4>1 DEF OrdersOf
      <4> QED
        BY <2>1, <2>6, <4>2, <4>3
    <3> QED
      BY <2>7, <3>1 DEF OrdersOf
  <2>12. \A u \in Threads : pc'[u] = "apply" => u = t
    BY <1>a, <1>3, <2>3 DEF ApplyTrade, Typed, Control
  <2>13. Remaining'
    BY <2>10, <2>11, <2>12 DEF Remaining
  <2> QED
    BY <1>a, <2>9, <2>13 DEF OnceInv
<1>4. ASSUME NEW t \in Threads, Rollback(t) \/ CommitEnd(t)
      PROVE  OnceInv'
  <2>1. ~LockFree /\ LockFree'
    BY <1>a, <1>4 DEF Rollback, CommitEnd, Done, Goto, LockFree, Typed, TypeOK, Control
  <2>2. account' \in {account, backup.account}
    BY <1>4 DEF Rollback, CommitEnd
  <2>3. UNCHANGED <<disk, image, settlements>>
    BY <1>4 DEF Rollback, CommitEnd
  <2>4. \A ledger \in Stored' : ledger \in Kept
    BY <1>c, <2>1, <2>2, <2>3 DEF Stored, Kept
  <2> QED
    BY <1>b, <1>e, <2>1, <2>3, <2>4
<1>5. ASSUME NEW k \in Keys, NEW save \in BOOLEAN, Settle(k, save)
      PROVE  OnceInv'
  <2>1. \A u \in Threads : pc'[u] = "apply" <=> pc[u] = "apply"
    BY <1>a, <1>5 DEF Settle, MayCall, Goto, Typed, TypeOK
  <2> QED
    BY <1>5, <1>f, <2>1 DEF Settle, Stored
<1>6. ASSUME NEW price \in Prices, NEW fee \in SettlementFees, SettleBook(price, fee)
      PROVE  OnceInv'
  <2> DEFINE trade == SettlementTrade(price, fee)
  <2>1. trade \in Trades
    BY <1>a, <1>b, <1>6, AccountAssumption
    DEF SettleBook, SettlementTrade, Typed, TypeOK, Control, Trades
  <2>2. trade.order = -(settlements + 1)
    BY DEF SettlementTrade
  <2>3. LockFree /\ LockFree'
    BY <1>a, <1>6 DEF SettleBook, Done, Goto, LockFree, Typed, TypeOK
  <2>4. /\ account' \in {account, Booked(account, trade)}
        /\ settlements' = settlements + 1
        /\ UNCHANGED <<disk, image>>
    BY <1>6 DEF SettleBook
  <2> HIDE DEF trade
  <2>5. Fine(account, settlements')
    BY <1>b, <1>d, <2>4, FineLater
  <2>6. trade.order \notin account.processed
    <3>1. ~(-settlements <= -(settlements + 1))
      BY <1>b
    <3> QED
      BY <1>d, <2>2, <3>1 DEF Fine
  <2>7. Fine(account', settlements')
    <3>1. -settlements' <= trade.order
      BY <1>b, <2>2, <2>4
    <3> QED
      BY <1>b, <2>1, <2>4, <2>5, <2>6, <3>1, FineBooked
  <2>8. \A ledger \in Stored' : ledger \in Kept \/ ledger = account'
    BY <2>4 DEF Stored, Kept
  <2> QED
    BY <1>b, <1>e, <2>3, <2>4, <2>7, <2>8
<1>7. ASSUME NEW request \in MarkRequests, NEW save \in BOOLEAN, Mark(request, save)
      PROVE  OnceInv'
  <2>1. LockFree /\ LockFree'
    BY <1>a, <1>7 DEF Mark, Done, Goto, LockFree, Typed, TypeOK
  <2>2. account'.trades = account.trades /\ account'.processed = account.processed
    BY <1>b, <1>7 DEF Mark, Ledgers
  <2>3. UNCHANGED <<disk, image, settlements>>
    BY <1>7 DEF Mark
  <2>4. Fine(account', settlements')
    BY <1>d, <2>2, <2>3 DEF Fine, Recorded
  <2>5. \A ledger \in Stored' : ledger \in Kept \/ ledger = account'
    BY <2>3 DEF Stored, Kept
  <2> QED
    BY <1>b, <1>e, <2>1, <2>3, <2>4, <2>5
<1>8. ASSUME NEW save \in BOOLEAN, Reset(save)
      PROVE  OnceInv'
  <2>1. LockFree /\ LockFree'
    BY <1>a, <1>8 DEF Reset, Done, Goto, LockFree, Typed, TypeOK
  <2>2. account' = Fresh /\ UNCHANGED <<disk, image, settlements>>
    BY <1>8 DEF Reset
  <2>3. \A ledger \in Stored' : ledger \in Kept \/ ledger = Fresh
    BY <2>2 DEF Stored, Kept
  <2> QED
    BY <1>b, <1>e, <2>1, <2>2, <2>3, FineFresh
<1>9. ASSUME Save \/ \E t \in Threads : Export(t) \/ Write(t) \/ Clear(t)
      PROVE  OnceInv'
  <2>1. PICK t \in Threads : (t = Loop /\ Save) \/ Export(t) \/ Write(t) \/ Clear(t)
    BY <1>9, <1>a
  <2>2. \A u \in Threads : pc'[u] = "apply" <=> pc[u] = "apply"
    BY <1>a, <2>1 DEF Save, MayCall, Export, Write, Clear, Goto, Typed, TypeOK
  <2>3. /\ \A u \in Threads : image'[u] \in {image[u], account, NoLedger}
        /\ disk' \in {disk} \union {image[u] : u \in Threads}
    BY <1>a, <2>1 DEF Save, Export, Write, Clear, Typed, TypeOK
  <2>4. UNCHANGED <<account, backup, settlements, batch>>
    BY <2>1 DEF Save, Export, Write, Clear, arguments
  <2>5. \A ledger \in Stored' : ledger \in Stored
    BY <2>3, <2>4 DEF Stored
  <2> QED
    BY <1>f, <2>2, <2>4, <2>5
<1>10. ASSUME Shutdown \/ Exit
       PROVE  OnceInv'
  <2>1. \A u \in Threads : pc'[u] = "apply" <=> pc[u] = "apply"
    BY <1>a, <1>10 DEF Shutdown, Exit, Done, Goto, Typed, TypeOK
  <2> QED
    BY <1>10, <1>f, <2>1 DEF Shutdown, Exit, arguments, Stored
<1>11. ASSUME Crash \/ Startup
       PROVE  OnceInv'
  <2>1. LockFree'
    BY <1>11 DEF Crash, Startup, Load, Halt, Everywhere, LockFree
  <2>2. /\ account' \in {Fresh, disk} /\ UNCHANGED <<disk, settlements>>
        /\ \A u \in Threads : image'[u] = NoLedger
    BY <1>11 DEF Crash, Startup, Load, Halt, Everywhere
  <2>3. \A ledger \in Stored' : ledger \in Kept \/ ledger = Fresh
    BY <2>2 DEF Stored, Kept
  <2> QED
    BY <1>b, <1>e, <2>1, <2>2, <2>3, FineFresh
<1>12. ASSUME UNCHANGED vars
       PROVE  OnceInv'
  BY <1>12, <1>f DEF vars, arguments, Stored
<1> QED
  BY <1>1, <1>2, <1>3, <1>4, <1>5, <1>6, <1>7, <1>8, <1>9, <1>10, <1>11, <1>12
  DEF Next, Step

\* No order is booked twice, and every booked order is known so that its next
\* attempt is refused: whatever commits, settlements, saves, rollbacks, crashes
\* and restarts do together, in memory, on the way to the file and in the file
\* (commit_execution's checks of paper_orders and _processed_orders).
THEOREM NoOrderTwice == Spec => []BookedOnce
<1>1. OnceInv => BookedOnce
  BY DEF OnceInv, Sound, Kept, BookedOnce
<1> QED
  BY OnceInit, OnceNext, <1>1, PTL DEF Spec

-----------------------------------------------------------------------------
(* Cash and contracts *)

\* What a trade adds to a position.
Change(t, k) ==
  IF t.key # k THEN 0 ELSE IF t.side = "BUY" THEN t.quantity ELSE -t.quantity

LEMMA ChangeType ==
  ASSUME NEW t \in Trades, NEW k
  PROVE  Change(t, k) \in Int
BY DEF Change, Trades

Flows(trades)      == [i \in 1..Len(trades) |-> CashFlow(trades[i])]
Changes(trades, k) == [i \in 1..Len(trades) |-> Change(trades[i], k)]

LEMMA CashRuns ==
  ASSUME NEW trades \in Seq(Trades)
  PROVE  \E g : /\ SumRuns(g, Len(trades), InitialCash, Flows(trades))
                /\ CashAfter(trades) = g[1..Len(trades)]
<1> DEFINE n == Len(trades)
           v == Flows(trades)
           raw(g) == g = [s \in SUBSET DOMAIN trades |->
                            IF s = {} THEN InitialCash
                            ELSE g[s \ {Max(s)}] + CashFlow(trades[Max(s)])]
<1>1. n \in Nat /\ DOMAIN trades = 1..n /\ InitialCash \in Int
  BY TradesAssumption
<1>2. \A i \in 1..n : v[i] = CashFlow(trades[i]) /\ v[i] \in Int
  BY CashFlowType DEF Flows
<1>b. AllInt(v, n)
  BY <1>2 DEF AllInt
<1>3. ASSUME NEW g, raw(g)
      PROVE  SumRuns(g, n, InitialCash, v)
  <2>1. OnSubsets(g, 1..n) /\ g[{}] = InitialCash
    BY <1>1, <1>3 DEF OnSubsets
  <2>2. ASSUME NEW s \in SUBSET (1..n), s # {}, g[s \ {Max(s)}] \in Int
        PROVE  Adds(g, s, v)
    <3>1. Max(s) \in 1..n
      BY <1>1, <2>2, MaxIndex
    <3> QED
      BY <1>1, <1>2, <1>3, <2>2, <3>1 DEF Adds
  <2> HIDE DEF raw, n, v
  <2> QED
    BY <1>1, <1>b, <2>1, <2>2, SumRunType
<1>4. \E g : raw(g)
  <2>1. PICK g : /\ OnSubsets(g, 1..n) /\ g[{}] = InitialCash
                 /\ SumRuns(g, n, InitialCash, v)
    <3> HIDE DEF n, v
    <3> QED
      BY <1>1, <1>b, SumRunExists
  <2>2. ASSUME NEW s \in SUBSET (1..n), s # {}
        PROVE  g[s] = g[s \ {Max(s)}] + CashFlow(trades[Max(s)])
    <3>1. /\ Max(s) \in 1..n /\ g[s \ {Max(s)}] \in Int
          /\ Adds(g, s, v)
      <4> HIDE DEF n, v
      <4> QED
        BY <1>1, <1>b, <2>1, <2>2, SumRunStep
    <3> QED
      BY <1>2, <3>1 DEF Adds
  <2>3. raw(g)
    BY <1>1, <2>1, <2>2 DEF OnSubsets
  <2> QED
    BY <2>3
<1> DEFINE h == CHOOSE g : raw(g)
<1>5. raw(h)
  BY <1>4, Zenon
<1>6. CashAfter(trades) = h[DOMAIN trades]
  BY Zenon DEF CashAfter, FoldLeft, MapThenFoldSet
<1> HIDE DEF h, raw
<1> QED
  BY <1>1, <1>3, <1>5, <1>6

LEMMA HeldRuns ==
  ASSUME NEW trades \in Seq(Trades), NEW k
  PROVE  \E g : /\ SumRuns(g, Len(trades), 0, Changes(trades, k))
                /\ Held(trades, k) = g[1..Len(trades)]
<1> DEFINE n == Len(trades)
           v == Changes(trades, k)
           raw(g) == g = [s \in SUBSET DOMAIN trades |->
                            IF s = {} THEN 0
                            ELSE CASE trades[Max(s)].key # k -> g[s \ {Max(s)}]
                                   [] trades[Max(s)].key = k /\ trades[Max(s)].side = "BUY"
                                        -> g[s \ {Max(s)}] + trades[Max(s)].quantity
                                   [] trades[Max(s)].key = k /\ trades[Max(s)].side = "SELL"
                                        -> g[s \ {Max(s)}] - trades[Max(s)].quantity]
<1>1. n \in Nat /\ DOMAIN trades = 1..n /\ 0 \in Int
  OBVIOUS
<1>2. \A i \in 1..n : v[i] = Change(trades[i], k) /\ v[i] \in Int
  BY ChangeType DEF Changes
<1>b. AllInt(v, n)
  BY <1>2 DEF AllInt
<1>a. ASSUME NEW t \in Trades, NEW sum \in Int
      PROVE  (CASE t.key # k                      -> sum
                [] t.key = k /\ t.side = "BUY"    -> sum + t.quantity
                [] t.key = k /\ t.side = "SELL"   -> sum - t.quantity) = sum + Change(t, k)
  BY DEF Change, Trades
<1>3. ASSUME NEW g, raw(g)
      PROVE  SumRuns(g, n, 0, v)
  <2>1. OnSubsets(g, 1..n) /\ g[{}] = 0
    BY <1>1, <1>3 DEF OnSubsets
  <2>2. ASSUME NEW s \in SUBSET (1..n), s # {}, g[s \ {Max(s)}] \in Int
        PROVE  Adds(g, s, v)
    <3>1. Max(s) \in 1..n
      BY <1>1, <2>2, MaxIndex
    <3>2. trades[Max(s)] \in Trades
      BY <1>1, <3>1
    <3> QED
      BY <1>1, <1>2, <1>3, <1>a, <2>2, <3>1, <3>2 DEF Adds
  <2> HIDE DEF raw, n, v
  <2> QED
    BY <1>1, <1>b, <2>1, <2>2, SumRunType
<1>4. \E g : raw(g)
  <2>1. PICK g : /\ OnSubsets(g, 1..n) /\ g[{}] = 0
                 /\ SumRuns(g, n, 0, v)
    <3> HIDE DEF n, v
    <3> QED
      BY <1>1, <1>b, SumRunExists
  <2>2. ASSUME NEW s \in SUBSET (1..n), s # {}
        PROVE  g[s] = CASE trades[Max(s)].key # k -> g[s \ {Max(s)}]
                        [] trades[Max(s)].key = k /\ trades[Max(s)].side = "BUY"
                             -> g[s \ {Max(s)}] + trades[Max(s)].quantity
                        [] trades[Max(s)].key = k /\ trades[Max(s)].side = "SELL"
                             -> g[s \ {Max(s)}] - trades[Max(s)].quantity
    <3>1. /\ Max(s) \in 1..n /\ g[s \ {Max(s)}] \in Int
          /\ Adds(g, s, v)
      <4> HIDE DEF n, v
      <4> QED
        BY <1>1, <1>b, <2>1, <2>2, SumRunStep
    <3>2. trades[Max(s)] \in Trades
      BY <3>1
    <3>3. g[s] = g[s \ {Max(s)}] + Change(trades[Max(s)], k)
      BY <1>2, <3>1 DEF Adds
    <3> QED
      BY <1>a, <3>1, <3>2, <3>3
  <2>3. raw(g)
    BY <1>1, <2>1, <2>2 DEF OnSubsets
  <2> QED
    BY <2>3
<1> DEFINE h == CHOOSE g : raw(g)
<1>5. raw(h)
  BY <1>4, Zenon
<1>6. Held(trades, k) = h[DOMAIN trades]
  BY Zenon DEF Held, FoldLeft, MapThenFoldSet
<1> HIDE DEF h, raw
<1> QED
  BY <1>1, <1>3, <1>5, <1>6

\* One trade more.
LEMMA AppendFacts ==
  ASSUME NEW trades \in Seq(Trades), NEW t \in Trades
  PROVE  /\ Append(trades, t) \in Seq(Trades)
         /\ Len(trades) \in Nat /\ Len(Append(trades, t)) \in Nat
         /\ Len(Append(trades, t)) = Len(trades) + 1
         /\ Append(trades, t)[Len(trades) + 1] = t
         /\ \A i \in 1..Len(trades) : Append(trades, t)[i] = trades[i]
BY AppendProperties

LEMMA CashAppend ==
  ASSUME NEW trades \in Seq(Trades), NEW t \in Trades
  PROVE  CashAfter(Append(trades, t)) = CashAfter(trades) + CashFlow(t)
<1> DEFINE n == Len(trades)
           m == Len(Append(trades, t))
           v == Flows(trades)
           w == Flows(Append(trades, t))
<1>1. n \in Nat /\ m = n + 1 /\ w[m] = CashFlow(t) /\ Agree(v, w, n)
  BY AppendFacts DEF Flows, Agree
<1>2. AllInt(w, m)
  BY AppendFacts, CashFlowType DEF Flows, AllInt
<1>3. PICK f : SumRuns(f, n, InitialCash, v) /\ CashAfter(trades) = f[1..n]
  BY CashRuns
<1>4. PICK g : SumRuns(g, m, InitialCash, w) /\ CashAfter(Append(trades, t)) = g[1..m]
  BY AppendFacts, CashRuns
<1> HIDE DEF n, m, v, w
<1>5. g[1..m] = f[1..n] + w[m]
  BY <1>1, <1>2, <1>3, <1>4, SumRunAppend
<1> QED
  BY <1>1, <1>3, <1>4, <1>5

LEMMA HeldAppend ==
  ASSUME NEW trades \in Seq(Trades), NEW t \in Trades, NEW k
  PROVE  Held(Append(trades, t), k) = Held(trades, k) + Change(t, k)
<1> DEFINE n == Len(trades)
           m == Len(Append(trades, t))
           v == Changes(trades, k)
           w == Changes(Append(trades, t), k)
<1>1. n \in Nat /\ m = n + 1 /\ w[m] = Change(t, k) /\ Agree(v, w, n)
  BY AppendFacts DEF Changes, Agree
<1>2. AllInt(w, m)
  BY AppendFacts, ChangeType DEF Changes, AllInt
<1>3. PICK f : SumRuns(f, n, 0, v) /\ Held(trades, k) = f[1..n]
  BY HeldRuns
<1>4. PICK g : SumRuns(g, m, 0, w) /\ Held(Append(trades, t), k) = g[1..m]
  BY AppendFacts, HeldRuns
<1> HIDE DEF n, m, v, w
<1>5. g[1..m] = f[1..n] + w[m]
  BY <1>1, <1>2, <1>3, <1>4, SumRunAppend
<1> QED
  BY <1>1, <1>3, <1>4, <1>5

\* Cash and positions are what the trades make them.
Balanced(ledger) ==
  /\ ledger.cash = CashAfter(ledger.trades)
  /\ \A k \in Keys : ledger.quantity[k] = Held(ledger.trades, k)

LEMMA BalancedFresh == Balanced(Fresh)
<1>1. <<>> \in Seq(Trades) /\ Len(<<>>) = 0
  OBVIOUS
<1>2. CashAfter(<<>>) = InitialCash
  BY <1>1, CashRuns, SumRunEmpty
<1>3. \A k : Held(<<>>, k) = 0
  BY <1>1, HeldRuns, SumRunEmpty
<1> QED
  BY <1>2, <1>3 DEF Balanced, Fresh

LEMMA BalancedBooked ==
  ASSUME NEW ledger \in Ledgers, Balanced(ledger), NEW t \in Trades
  PROVE  Balanced(Booked(ledger, t))
<1>1. ledger.trades \in Seq(Trades) /\ ledger.quantity \in [Keys -> Nat]
  BY DEF Ledgers
<1>2. Booked(ledger, t).cash = CashAfter(Append(ledger.trades, t))
  BY <1>1, CashAppend DEF Balanced, Booked
<1>3. ASSUME NEW k \in Keys
      PROVE  Booked(ledger, t).quantity[k] = Held(Append(ledger.trades, t), k)
  <2>1. Held(Append(ledger.trades, t), k) = ledger.quantity[k] + Change(t, k)
    BY <1>1, HeldAppend DEF Balanced
  <2>2. Booked(ledger, t).quantity[k] = ledger.quantity[k] + Change(t, k)
    BY <1>1 DEF Booked, Change, Trades
  <2> QED
    BY <2>1, <2>2
<1> QED
  BY <1>2, <1>3 DEF Balanced, Booked

\* How a step moves the ledgers: those after it were there before it, but for an
\* account that is fresh, has booked a trade or has changed its marks.
LEMMA LedgersMove ==
  ASSUME Typed, [Next]_vars
  PROVE  \A ledger \in Kept' :
           \/ ledger \in Kept
           \/ ledger = Fresh
           \/ \E t \in Trades : ledger = Booked(account, t)
           \/ \E marks : ledger = [account EXCEPT !.marks = marks]
<1> DEFINE Moved(ledger) ==
             \/ ledger \in Kept
             \/ ledger = Fresh
             \/ \E t \in Trades : ledger = Booked(account, t)
             \/ \E marks : ledger = [account EXCEPT !.marks = marks]
<1>a. Typed' /\ Loop \in Threads
  BY TypedNext DEF Threads
<1>b. account \in Ledgers /\ account' \in Ledgers /\ settlements \in Nat
  BY <1>a, AccountAssumption DEF Typed, TypeOK
<1>c. account \in Kept
  BY <1>b, NoLedgerIsNone DEF Kept, Stored
\* What a step keeps: it is enough to know where the account comes from.
<1>d. ASSUME Moved(account'),
             \A u \in Threads : image'[u] \in {image[u], account, NoLedger},
             disk' \in {disk} \union {image[u] : u \in Threads},
             ~LockFree' => \/ ~LockFree /\ backup' = backup
                           \/ backup'.account = account
      PROVE  \A ledger \in Kept' : Moved(ledger)
  <2> SUFFICES ASSUME NEW ledger \in Kept', ledger # account'
               PROVE  ledger \in Kept
    BY <1>d
  <2>1. CASE ledger \in Stored'
    BY <1>c, <1>d, <2>1 DEF Kept, Stored
  <2>2. CASE ~LockFree' /\ ledger = backup'.account
    BY <1>c, <1>d, <2>2 DEF Kept
  <2> QED
    BY <2>1, <2>2 DEF Kept
<1>e. Moved(account)
  BY <1>c
<1>1. ASSUME NEW t \in Threads, ApplyTrade(t)
      PROVE  \A ledger \in Kept' : Moved(ledger)
  <2>1. Head(batch[t]) \in Trades
    BY <1>1, BatchFacts DEF ApplyTrade, Typed, TypeOK, Offered
  <2>2. account' = Booked(account, Head(batch[t])) /\ UNCHANGED <<pc, backup, image, disk>>
    BY <1>1 DEF ApplyTrade
  <2>3. Moved(account') /\ (LockFree' <=> LockFree)
    BY <2>1, <2>2 DEF LockFree
  <2> HIDE DEF Moved
  <2> QED
    BY <1>d, <2>2, <2>3
<1>2. ASSUME NEW price \in Prices, NEW fee \in SettlementFees, SettleBook(price, fee)
      PROVE  \A ledger \in Kept' : Moved(ledger)
  <2> DEFINE trade == SettlementTrade(price, fee)
  <2>1. trade \in Trades
    BY <1>a, <1>b, <1>2, AccountAssumption
    DEF SettleBook, SettlementTrade, Typed, TypeOK, Control, Trades
  <2>2. LockFree'
    BY <1>a, <1>2 DEF SettleBook, Done, Goto, LockFree, Typed, TypeOK
  <2>3. account' \in {account, Booked(account, trade)} /\ UNCHANGED <<disk, image>>
    BY <1>2 DEF SettleBook
  <2> HIDE DEF trade
  <2>4. Moved(account')
    BY <1>c, <2>1, <2>3
  <2> HIDE DEF Moved
  <2> QED
    BY <1>d, <2>2, <2>3, <2>4
<1>3. ASSUME NEW request \in MarkRequests, NEW save \in BOOLEAN, Mark(request, save)
      PROVE  \A ledger \in Kept' : Moved(ledger)
  <2>1. LockFree' /\ UNCHANGED <<disk, image>>
    BY <1>a, <1>3 DEF Mark, Done, Goto, LockFree, Typed, TypeOK
  <2>2. Moved(account')
    BY <1>3 DEF Mark
  <2> HIDE DEF Moved
  <2> QED
    BY <1>d, <2>1, <2>2
<1>4. ASSUME NEW save \in BOOLEAN, Reset(save)
      PROVE  \A ledger \in Kept' : Moved(ledger)
  <2>1. LockFree' /\ UNCHANGED <<disk, image>>
    BY <1>a, <1>4 DEF Reset, Done, Goto, LockFree, Typed, TypeOK
  <2>2. Moved(account')
    BY <1>4 DEF Reset
  <2> HIDE DEF Moved
  <2> QED
    BY <1>d, <2>1, <2>2
<1>5. ASSUME NEW t \in Threads, Rollback(t) \/ CommitEnd(t)
      PROVE  \A ledger \in Kept' : Moved(ledger)
  <2>1. ~LockFree /\ LockFree'
    BY <1>a, <1>5 DEF Rollback, CommitEnd, Done, Goto, LockFree, Typed, TypeOK, Control
  <2>2. account' \in {account, backup.account} /\ UNCHANGED <<disk, image>>
    BY <1>5 DEF Rollback, CommitEnd
  <2>3. Moved(account')
    BY <1>c, <2>1, <2>2 DEF Kept
  <2> HIDE DEF Moved
  <2> QED
    BY <1>d, <2>1, <2>2, <2>3
<1>6. ASSUME NEW t \in Threads, CommitBegin(t)
      PROVE  \A ledger \in Kept' : Moved(ledger)
  <2>1. UNCHANGED <<account, disk, image>>
    BY <1>6 DEF CommitBegin
  <2>2. LockFree' \/ backup'.account = account
    BY <1>a, <1>6 DEF CommitBegin, Goto, LockFree, Typed, TypeOK
  <2> HIDE DEF Moved
  <2> QED
    BY <1>d, <1>e, <2>1, <2>2
\* Steps of threads that leave the lock and the account alone.
<1>7. ASSUME NEW t \in Threads,
             \/ \E b \in Batches, save \in BOOLEAN : Commit(t, b, save)
             \/ Export(t) \/ Write(t) \/ Clear(t)
             \/ t = Loop /\ \/ \E k \in Keys, save \in BOOLEAN : Settle(k, save)
                            \/ Save \/ Shutdown
             \/ Exit
             \/ UNCHANGED vars
      PROVE  \A ledger \in Kept' : Moved(ledger)
  <2>1. \A u \in Threads : pc'[u] = "apply" <=> pc[u] = "apply"
    BY <1>a, <1>7
    DEF Commit, MayCall, Settle, Save, Export, Write, Clear, Shutdown, Exit, Done, Goto, vars,
        Typed, TypeOK
  <2>2. /\ \A u \in Threads : image'[u] \in {image[u], account, NoLedger}
        /\ disk' \in {disk} \union {image[u] : u \in Threads}
    BY <1>a, <1>7
    DEF Commit, Settle, Save, Export, Write, Clear, Shutdown, Exit, vars, Typed, TypeOK
  <2>3. UNCHANGED <<account, backup>>
    BY <1>7 DEF Commit, Settle, Save, Export, Write, Clear, Shutdown, Exit, vars
  <2>4. LockFree' <=> LockFree
    BY <2>1 DEF LockFree
  <2> HIDE DEF Moved
  <2> QED
    BY <1>d, <1>e, <2>2, <2>3, <2>4
<1>8. ASSUME Crash \/ Startup
      PROVE  \A ledger \in Kept' : Moved(ledger)
  <2>1. LockFree'
    BY <1>8 DEF Crash, Startup, Load, Halt, Everywhere, LockFree
  <2>2. /\ account' = IF disk = NoLedger THEN Fresh ELSE disk
        /\ UNCHANGED disk
        /\ \A u \in Threads : image'[u] = NoLedger
    BY <1>8 DEF Crash, Startup, Load, Halt, Everywhere
  <2>3. Moved(account')
    BY <2>2 DEF Kept, Stored
  <2> HIDE DEF Moved
  <2> QED
    BY <1>d, <2>1, <2>2, <2>3
<1>9. \A ledger \in Kept' : Moved(ledger)
  <2> HIDE DEF Moved
  <2> QED
    BY <1>a, <1>1, <1>2, <1>3, <1>4, <1>5, <1>6, <1>7, <1>8 DEF Next, Step
<1> QED
  BY <1>9

\* Every ledger balances, also the one a commit may have to restore.
Balances == \A ledger \in Kept : Balanced(ledger)

LEMMA BalancesInit == Init => Balances
<1> SUFFICES ASSUME Init PROVE Balances
  OBVIOUS
<1>1. \A ledger \in Kept : ledger = Fresh
  BY DEF Init, Everywhere, Kept, Stored, LockFree
<1> QED
  BY <1>1, BalancedFresh DEF Balances

LEMMA BalancesNext == Typed /\ Balances /\ [Next]_vars => Balances'
<1> SUFFICES ASSUME Typed, Balances, [Next]_vars, NEW ledger \in Kept'
             PROVE  Balanced(ledger)
  BY DEF Balances
<1>1. account \in Ledgers
  BY DEF Typed, TypeOK
<1>2. Balanced(account)
  BY <1>1, NoLedgerIsNone DEF Balances, Kept, Stored
<1>3. CASE \E t \in Trades : ledger = Booked(account, t)
  BY <1>1, <1>2, <1>3, BalancedBooked
<1>4. CASE \E marks : ledger = [account EXCEPT !.marks = marks]
  <2>1. /\ ledger.cash = account.cash /\ ledger.quantity = account.quantity
        /\ ledger.trades = account.trades
    BY <1>1, <1>4 DEF Ledgers
  <2> QED
    BY <1>2, <2>1 DEF Balanced
<1> QED
  BY <1>3, <1>4, LedgersMove, BalancedFresh DEF Balances

\* Cash and positions are what the recorded trades make them, in memory, on the
\* way to the file and in the file: commits that are refused half-way, stale
\* settlements, saves between them, crashes and restarts neither create nor lose
\* money or contracts (PaperAccount._restore_backup, import_state).
THEOREM MoneyIsConserved == Spec => []BooksBalance
<1>1. Init => Typed /\ Balances
  BY TypedInit, BalancesInit
<1>2. Typed /\ Balances /\ [Next]_vars => (Typed /\ Balances)'
  BY TypedNext, BalancesNext
<1>3. Balances => BooksBalance
  BY DEF Balances, BooksBalance, Balanced, Kept
<1> QED
  BY <1>1, <1>2, <1>3, PTL DEF Spec

-----------------------------------------------------------------------------
(* Whole executions *)

\* Ledgers whose amounts are not known to be naturals yet.
Accounts ==
  [cash : Int, quantity : [Keys -> Int], marks : [Keys -> Prices \union {NoPrice}],
   trades : Seq(Trades), processed : SUBSET Int]

LEMMA LedgersAreAccounts == Ledgers \subseteq Accounts
BY DEF Ledgers, Accounts

Book == [p \in Trades \X Accounts |-> Booked(p[2], p[1])]

LEMMA BookClosed ==
  /\ \A t \in Trades, a \in Accounts : Book[<<t, a>>] = Booked(a, t)
  /\ Closed(Book, Trades, Accounts)
<1>1. ASSUME NEW t \in Trades, NEW a \in Accounts
      PROVE  Booked(a, t) \in Accounts
  <2>1. CashFlow(t) \in Int
    BY CashFlowType
  <2>2. a.cash + CashFlow(t) \in Int
    BY <2>1 DEF Accounts
  <2>3. [a.quantity EXCEPT ![t.key] =
           IF t.side = "BUY" THEN @ + t.quantity ELSE @ - t.quantity] \in [Keys -> Int]
    BY DEF Accounts, Trades
  <2>4. [a.marks EXCEPT ![t.key] = t.price] \in [Keys -> Prices \union {NoPrice}]
    BY DEF Accounts, Trades
  <2>5. Append(a.trades, t) \in Seq(Trades) /\ a.processed \union {t.order} \in SUBSET Int
    BY DEF Accounts, Trades
  <2> QED
    BY <2>2, <2>3, <2>4, <2>5 DEF Booked, Accounts
<1>2. \A t \in Trades, a \in Accounts : Book[<<t, a>>] = Booked(a, t)
  BY DEF Book
<1> QED
  BY <1>1, <1>2 DEF Closed

LEMMA BookRuns ==
  ASSUME NEW base \in Accounts, NEW list \in Seq(Trades)
  PROVE  \E g : /\ Runs(g, Len(list), Book, base, list, Accounts)
                /\ FoldLeft(Booked, base, list) = g[1..Len(list)]
<1> DEFINE n == Len(list)
           raw(g) == g = [s \in SUBSET DOMAIN list |->
                            IF s = {} THEN base ELSE Booked(g[s \ {Max(s)}], list[Max(s)])]
<1>1. n \in Nat /\ DOMAIN list = 1..n /\ \A i \in 1..n : list[i] \in Trades
  OBVIOUS
<1>3. ASSUME NEW g, raw(g)
      PROVE  Runs(g, n, Book, base, list, Accounts)
  <2>1. OnSubsets(g, 1..n) /\ g[{}] = base
    BY <1>1, <1>3 DEF OnSubsets
  <2>2. ASSUME NEW s \in SUBSET (1..n), s # {}, g[s \ {Max(s)}] \in Accounts
        PROVE  g[s] = Book[<<list[Max(s)], g[s \ {Max(s)}]>>]
    <3>1. Max(s) \in 1..n
      BY <1>1, <2>2, MaxIndex
    <3>2. g[s] = Booked(g[s \ {Max(s)}], list[Max(s)])
      BY <1>1, <1>3, <2>2
    <3> QED
      BY <1>1, <2>2, <3>1, <3>2, BookClosed
  <2> HIDE DEF raw, n
  <2> QED
    BY <1>1, <2>1, <2>2, BookClosed, RunType
<1>4. \E g : raw(g)
  <2>1. PICK g : /\ OnSubsets(g, 1..n) /\ g[{}] = base
                 /\ Runs(g, n, Book, base, list, Accounts)
    <3> HIDE DEF n
    <3> QED
      BY <1>1, BookClosed, RunExists
  <2>2. ASSUME NEW s \in SUBSET (1..n), s # {}
        PROVE  g[s] = Booked(g[s \ {Max(s)}], list[Max(s)])
    <3>1. /\ Max(s) \in 1..n /\ g[s \ {Max(s)}] \in Accounts
          /\ Steps(g, s, Book, list)
      <4> HIDE DEF n
      <4> QED
        BY <1>1, <2>1, <2>2, RunStep
    <3> QED
      BY <1>1, <3>1, BookClosed DEF Steps
  <2>3. raw(g)
    BY <1>1, <2>1, <2>2 DEF OnSubsets
  <2> QED
    BY <2>3
<1> DEFINE h == CHOOSE g : raw(g)
<1>5. raw(h)
  BY <1>4, Zenon
<1>6. FoldLeft(Booked, base, list) = h[DOMAIN list]
  BY Zenon DEF FoldLeft, MapThenFoldSet
<1> HIDE DEF h, raw
<1> QED
  BY <1>1, <1>3, <1>5, <1>6

LEMMA BookNone ==
  ASSUME NEW base \in Accounts
  PROVE  FoldLeft(Booked, base, <<>>) = base
<1>1. <<>> \in Seq(Trades) /\ Len(<<>>) = 0
  OBVIOUS
<1>2. PICK g : /\ Runs(g, 0, Book, base, <<>>, Accounts)
               /\ FoldLeft(Booked, base, <<>>) = g[1..0]
  <2>1. \E g : /\ Runs(g, Len(<<>>), Book, base, <<>>, Accounts)
               /\ FoldLeft(Booked, base, <<>>) = g[1..Len(<<>>)]
    BY <1>1, BookRuns
  <2> QED
    BY <1>1, <2>1
<1>3. g[1..0] = base
  BY <1>2, RunEmpty
<1> QED
  BY <1>2, <1>3

LEMMA BookMore ==
  ASSUME NEW base \in Accounts, NEW list \in Seq(Trades), NEW longer \in Seq(Trades),
         Len(longer) = Len(list) + 1, Agree(list, longer, Len(list))
  PROVE  FoldLeft(Booked, base, longer) =
           Booked(FoldLeft(Booked, base, list), longer[Len(longer)])
<1> DEFINE n == Len(list)
           m == Len(longer)
<1>1. n \in Nat /\ m = n + 1 /\ longer[m] \in Trades
  OBVIOUS
<1>2. PICK f : /\ Runs(f, n, Book, base, list, Accounts)
               /\ FoldLeft(Booked, base, list) = f[1..n]
  BY BookRuns
<1>3. PICK g : /\ Runs(g, m, Book, base, longer, Accounts)
               /\ FoldLeft(Booked, base, longer) = g[1..m]
  BY BookRuns
<1>4. Agree(list, longer, n)
  OBVIOUS
<1> HIDE DEF n, m
<1>5. Follows(g, m, f, n, Book, longer) /\ f[1..n] \in Accounts
  BY <1>1, <1>2, <1>3, <1>4, RunAppend
<1>6. g[1..m] = Booked(f[1..n], longer[m])
  BY <1>1, <1>5, BookClosed DEF Follows
<1> QED
  BY <1>2, <1>3, <1>6 DEF n, m

\* A batch cut in two, and the next trade moved from one part to the other.
LEMMA CutFacts ==
  ASSUME NEW b \in Seq(Offered), NEW n \in 0..Len(b)
  PROVE  /\ SubSeq(b, 1, n) \in Seq(Trades) /\ Len(SubSeq(b, 1, n)) = n
         /\ \A i \in 1..n : SubSeq(b, 1, n)[i] = b[i]
         /\ SubSeq(b, n + 1, Len(b)) \in Seq(Offered)
         /\ Len(SubSeq(b, n + 1, Len(b))) = Len(b) - n
         /\ \A i \in 1..(Len(b) - n) : SubSeq(b, n + 1, Len(b))[i] = b[n + i]
<1>1. n \in Nat /\ Len(b) \in Nat /\ n <= Len(b) /\ \A i \in 1..Len(b) : b[i] \in Offered
  OBVIOUS
<1>2. \A i \in 1..n : b[i] \in Trades
  BY <1>1 DEF Offered
<1>3. \A i \in (n + 1)..Len(b) : b[i] \in Offered
  BY <1>1
<1>4. /\ SubSeq(b, 1, n) \in Seq(Trades) /\ Len(SubSeq(b, 1, n)) = n
      /\ \A i \in 1..n : SubSeq(b, 1, n)[i] = b[i]
  <2> DEFINE f == SubSeq(b, 1, n)
  <2>1. /\ f \in Seq(Trades) /\ Len(f) = (IF 1 <= n THEN n - 1 + 1 ELSE 0)
        /\ \A i \in 1..(n - 1 + 1) : f[i] = b[1 + i - 1]
    BY <1>1, <1>2, SubSeqProperties
  <2> HIDE DEF f
  <2> QED
    BY <1>1, <2>1 DEF f
<1>5. /\ SubSeq(b, n + 1, Len(b)) \in Seq(Offered)
      /\ Len(SubSeq(b, n + 1, Len(b))) = Len(b) - n
      /\ \A i \in 1..(Len(b) - n) : SubSeq(b, n + 1, Len(b))[i] = b[n + i]
  <2> DEFINE l == Len(b)
             k == n + 1
             r == SubSeq(b, k, l)
  <2>1. k \in Int /\ l \in Int
    BY <1>1
  <2>2. /\ r \in Seq(Offered) /\ Len(r) = (IF k <= l THEN l - k + 1 ELSE 0)
        /\ \A i \in 1..(l - k + 1) : r[i] = b[k + i - 1]
    BY <1>3, <2>1, SubSeqProperties
  <2> HIDE DEF r
  <2> QED
    BY <1>1, <2>2 DEF r
<1> QED
  BY <1>4, <1>5

LEMMA CutNext ==
  ASSUME NEW b \in Seq(Offered), NEW n \in 0..Len(b), SubSeq(b, n + 1, Len(b)) # <<>>
  PROVE  /\ n + 1 \in 0..Len(b) /\ n + 1 \in 1..Len(b)
         /\ Head(SubSeq(b, n + 1, Len(b))) = b[n + 1]
         /\ Tail(SubSeq(b, n + 1, Len(b))) = SubSeq(b, n + 2, Len(b))
<1> DEFINE rest == SubSeq(b, n + 1, Len(b))
           next == SubSeq(b, n + 2, Len(b))
<1>1. /\ rest \in Seq(Offered) /\ Len(rest) = Len(b) - n /\ n \in Nat /\ Len(b) \in Nat
      /\ \A i \in 1..(Len(b) - n) : rest[i] = b[n + i]
  BY CutFacts
<1>2. Len(rest) # 0 /\ rest # <<>>
  BY <1>1
<1>3. n < Len(b)
  BY <1>1, <1>2
<1>4. n + 1 \in 0..Len(b) /\ n + 1 \in 1..Len(b) /\ (n + 1) + 1 = n + 2
  BY <1>1, <1>3
<1>5. /\ next \in Seq(Offered) /\ Len(next) = Len(b) - (n + 1)
      /\ \A i \in 1..(Len(b) - (n + 1)) : next[i] = b[(n + 1) + i]
  BY <1>4, CutFacts
<1>6. /\ Head(rest) = rest[1] /\ Tail(rest) \in Seq(Offered) /\ Len(Tail(rest)) = Len(rest) - 1
      /\ \A i \in 1..Len(Tail(rest)) : Tail(rest)[i] = rest[i + 1]
  <2> HIDE DEF rest
  <2> QED
    BY <1>1, <1>2, HeadTailProperties
<1>7. Tail(rest) = next
  <2> HIDE DEF rest, next
  <2>1. Len(Tail(rest)) = Len(next)
    BY <1>1, <1>5, <1>6
  <2>2. \A i \in 1..Len(Tail(rest)) : Tail(rest)[i] = next[i]
    BY <1>1, <1>5, <1>6
  <2> QED
    BY <1>5, <1>6, <2>1, <2>2, SeqEqual
<1>8. Head(rest) = b[n + 1]
  <2> HIDE DEF rest
  <2> QED
    BY <1>1, <1>3, <1>6
<1> QED
  BY <1>4, <1>7, <1>8

LEMMA BegunFirst ==
  ASSUME NEW base \in Accounts, NEW b \in Seq(Offered), DistinctOrders(b),
         OrdersOf(b) \intersect base.processed = {}
  PROVE  0 \in 0..Len(b) /\ Begun(base, base, b, b, 0)
<1>1. Len(b) \in Nat /\ 0 \in 0..Len(b)
  OBVIOUS
<1>2. SubSeq(b, 0 + 1, Len(b)) = b
  <2>1. 0 + 1 = 1
    OBVIOUS
  <2> QED
    BY <2>1, SubSeqFull
<1>3. SubSeq(b, 1, 0) = <<>>
  BY SubSeqEmpty
<1> QED
  BY <1>1, <1>2, <1>3, BookNone DEF Begun

LEMMA BegunNext ==
  ASSUME NEW base \in Accounts, NEW now, NEW rest, NEW b \in Seq(Offered),
         NEW n \in 0..Len(b), Begun(base, now, rest, b, n), rest # <<>>
  PROVE  /\ n + 1 \in 0..Len(b)
         /\ Begun(base, Booked(now, Head(rest)), Tail(rest), b, n + 1)
<1> DEFINE m     == n + 1
           first == SubSeq(b, 1, n)
           more  == SubSeq(b, 1, m)
<1>1. /\ rest = SubSeq(b, n + 1, Len(b)) /\ now = FoldLeft(Booked, base, first)
      /\ DistinctOrders(b) /\ OrdersOf(b) \intersect base.processed = {}
  BY DEF Begun
<1>2. /\ m \in 0..Len(b) /\ m \in 1..Len(b) /\ Head(rest) = b[m]
      /\ Tail(rest) = SubSeq(b, m + 1, Len(b))
  <2>1. m + 1 = n + 2
    OBVIOUS
  <2> QED
    BY <1>1, <2>1, CutNext
<1>3. /\ first \in Seq(Trades) /\ Len(first) = n
      /\ \A i \in 1..n : first[i] = b[i]
  BY CutFacts
<1>4. /\ more \in Seq(Trades) /\ Len(more) = m
      /\ \A i \in 1..m : more[i] = b[i]
  BY <1>2, CutFacts
<1> HIDE DEF first, more
<1>5. Agree(first, more, n) /\ m = n + 1 /\ n \in Nat /\ more[m] = b[m]
  <2>1. n \in Nat /\ m = n + 1
    OBVIOUS
  <2>2. \A i \in 1..n : i \in 1..m
    BY <2>1
  <2>3. m \in 1..m
    BY <2>1
  <2> HIDE DEF m
  <2> QED
    BY <1>3, <1>4, <2>1, <2>2, <2>3 DEF Agree
<1> HIDE DEF m
<1>6. FoldLeft(Booked, base, more) = Booked(FoldLeft(Booked, base, first), more[m])
  BY <1>3, <1>4, <1>5, BookMore
<1>7. Booked(now, Head(rest)) = FoldLeft(Booked, base, more)
  BY <1>1, <1>2, <1>5, <1>6
<1> QED
  BY <1>1, <1>2, <1>7 DEF Begun, m, more

LEMMA BegunLast ==
  ASSUME NEW base \in Accounts, NEW now, NEW b \in Seq(Offered),
         NEW n \in 0..Len(b), Begun(base, now, <<>>, b, n)
  PROVE  now = FoldLeft(Booked, base, b)
<1>1. <<>> = SubSeq(b, n + 1, Len(b)) /\ Len(<<>>) = 0
  BY DEF Begun
<1>2. Len(SubSeq(b, n + 1, Len(b))) = Len(b) - n
  BY CutFacts
<1>3. n = Len(b)
  <2>1. Len(b) \in Nat /\ n \in Nat
    OBVIOUS
  <2>2. Len(b) - n = 0
    BY <1>1, <1>2, Zenon
  <2> QED
    BY <2>1, <2>2
<1>4. SubSeq(b, 1, n) = b
  BY <1>3, SubSeqFull
<1> QED
  BY <1>4 DEF Begun

LEMMA UnderwayInit == Init => Underway
BY DEF Init, Everywhere, Underway

LEMMA UnderwayNext == Typed /\ Underway /\ [Next]_vars => Underway'
<1> SUFFICES ASSUME Typed, Underway, [Next]_vars
             PROVE  Underway'
  OBVIOUS
<1>a. Typed' /\ Loop \in Threads
  BY TypedNext DEF Threads
\* Threads that do not hold the lock.
<1>b. ASSUME \A u \in Threads :
               pc'[u] = "apply" =>
                 pc[u] = "apply" /\ batch'[u] = batch[u] /\ UNCHANGED <<account, backup>>,
             \A u \in Threads :
               pc'[u] = "commit" =>
                 batch'[u] \in Batches \/ (pc[u] = "commit" /\ batch'[u] = batch[u]),
             \A u \in Threads :
               pc'[u] = "write" =>
                 image'[u] # NoLedger \/ (pc[u] = "write" /\ image'[u] = image[u])
      PROVE  Underway'
  BY <1>b DEF Underway
<1>1. ASSUME NEW t \in Threads, NEW b \in Batches, NEW save \in BOOLEAN, Commit(t, b, save)
      PROVE  Underway'
  BY <1>b, <1>1 DEF Commit, MayCall, Goto, Typed, TypeOK
<1>2. ASSUME NEW t \in Threads, CommitBegin(t)
      PROVE  Underway'
  <2>1. CASE Admissible(batch[t])
    <3>1. /\ backup'.account = account /\ pc' = [pc EXCEPT ![t] = "apply"]
          /\ UNCHANGED <<account, batch, image>> /\ LockFree /\ pc[t] = "commit"
      BY <1>2, <2>1 DEF CommitBegin, Goto
    <3>2. /\ batch[t] \in Batches /\ batch[t] \in Seq(Offered) /\ account \in Accounts
          /\ DistinctOrders(batch[t]) /\ OrdersOf(batch[t]) \intersect account.processed = {}
      BY <2>1, <3>1, LedgersAreAccounts, TradesAssumption
      DEF Underway, Admissible, Typed, TypeOK
    <3>3. 0 \in 0..Len(batch[t]) /\ Begun(account, account, batch[t], batch[t], 0)
      BY <3>2, BegunFirst
    <3>4. \A u \in Threads : pc'[u] = IF u = t THEN "apply" ELSE pc[u]
      BY <3>1 DEF Typed, TypeOK
    <3> QED
      BY <3>1, <3>2, <3>3, <3>4 DEF Underway, LockFree
  <2>2. CASE ~Admissible(batch[t])
    BY <1>b, <1>2, <2>2 DEF CommitBegin, Goto, Typed, TypeOK
  <2> QED
    BY <2>1, <2>2
<1>3. ASSUME NEW t \in Threads, ApplyTrade(t)
      PROVE  Underway'
  <2>1. /\ account' = Booked(account, Head(batch[t]))
        /\ batch' = [batch EXCEPT ![t] = Tail(@)] /\ UNCHANGED <<backup, pc, image>>
        /\ pc[t] = "apply" /\ batch[t] # <<>>
    BY <1>3 DEF ApplyTrade
  <2>a. PICK b \in Batches :
          \E n \in 0..Len(b) : Begun(backup.account, account, batch[t], b, n)
    BY <2>1 DEF Underway
  <2>2. PICK n \in 0..Len(b) : Begun(backup.account, account, batch[t], b, n)
    BY <2>a
  <2>3. b \in Seq(Offered) /\ backup.account \in Accounts
    BY <2>1, LedgersAreAccounts, TradesAssumption DEF Typed, TypeOK, LockFree
  <2>4. /\ n + 1 \in 0..Len(b)
        /\ Begun(backup.account, Booked(account, Head(batch[t])), Tail(batch[t]), b, n + 1)
    BY <2>1, <2>2, <2>3, BegunNext
  <2>5. Begun(backup'.account, account', batch'[t], b, n + 1)
    BY <2>1, <2>4 DEF Typed, TypeOK
  <2>6. \A u \in Threads : u # t => pc[u] # "apply" /\ batch'[u] = batch[u]
    BY <2>1 DEF Typed, TypeOK, Control
  <2> QED
    BY <2>1, <2>4, <2>5, <2>6 DEF Underway
<1>4. ASSUME NEW t \in Threads, Rollback(t) \/ CommitEnd(t)
      PROVE  Underway'
  <2>1. /\ \A u \in Threads : pc'[u] # "apply"
        /\ \A u \in Threads : pc'[u] \in {"commit", "write"} => u # t /\ pc'[u] = pc[u]
    BY <1>4 DEF Rollback, CommitEnd, Done, Goto, Typed, TypeOK, Control
  <2>2. UNCHANGED image /\ \A u \in Threads : u # t => batch'[u] = batch[u]
    BY <1>4 DEF Rollback, CommitEnd, arguments, Typed, TypeOK
  <2> QED
    BY <1>b, <2>1, <2>2
<1>5. ASSUME NEW t \in Threads,
             \/ Export(t) \/ Write(t) \/ Clear(t)
             \/ t = Loop /\ \/ \E k \in Keys, save \in BOOLEAN : Settle(k, save)
                            \/ Save \/ Shutdown
             \/ Exit
             \/ UNCHANGED vars
      PROVE  Underway'
  <2>1. /\ \A u \in Threads : pc'[u] \in {"apply", "commit"} => pc'[u] = pc[u]
        /\ UNCHANGED <<account, backup, batch>>
    BY <1>5
    DEF Export, Write, Clear, Settle, Save, Shutdown, Exit, vars, arguments, MayCall, Done,
        Goto, Typed, TypeOK
  <2>2. ASSUME NEW u \in Threads, pc'[u] = "write"
        PROVE  image'[u] # NoLedger \/ (pc[u] = "write" /\ image'[u] = image[u])
    <3>1. account # NoLedger
      BY NoLedgerIsNone DEF Typed, TypeOK
    <3> QED
      BY <1>5, <2>2, <3>1
      DEF Export, Write, Clear, Settle, Save, Shutdown, Exit, vars, MayCall, Done, Goto,
          Typed, TypeOK
  <2> QED
    BY <1>b, <2>1, <2>2
\* Nobody holds the lock, nobody is about to write another image.
<1>6. ASSUME \/ \E price \in Prices, fee \in SettlementFees : SettleBook(price, fee)
             \/ \E request \in MarkRequests, save \in BOOLEAN : Mark(request, save)
             \/ \E save \in BOOLEAN : Reset(save)
      PROVE  Underway'
  <2>1. /\ \A u \in Threads : pc'[u] # "apply"
        /\ \A u \in Threads : pc'[u] \in {"commit", "write"} => pc'[u] = pc[u]
    <3>1. LockFree
      BY <1>6 DEF SettleBook, Mark, Reset
    <3>2. \/ pc' = [pc EXCEPT ![Loop] = "idle"]
          \/ pc' = [pc EXCEPT ![Loop] = "export"]
      BY <1>6 DEF SettleBook, Mark, Reset, Done, Goto
    <3> QED
      BY <1>a, <3>1, <3>2 DEF LockFree, Typed, TypeOK
  <2>2. UNCHANGED <<batch, image>>
    BY <1>6 DEF SettleBook, Mark, Reset, arguments
  <2> QED
    BY <1>b, <2>1, <2>2
<1>7. ASSUME Crash \/ Startup
      PROVE  Underway'
  <2>1. \A u \in Threads : pc'[u] = "idle"
    BY <1>7 DEF Crash, Startup, Load, Halt, Everywhere
  <2> QED
    BY <1>b, <2>1
<1> QED
  BY <1>a, <1>1, <1>2, <1>3, <1>4, <1>5, <1>6, <1>7 DEF Next, Step

\* The words of PaperLedger mean what they mean here.
LEMMA PromiseWords ==
  /\ Promise!Fresh = Fresh /\ Promise!NoLedger = NoLedger
  /\ Promise!Prices = Prices /\ Promise!NoPrice = NoPrice
  /\ \A base, b : Promise!FoldLeft(Promise!Booked, base, b) = FoldLeft(Booked, base, b)
  /\ \A b : Promise!Cardinality(Promise!OrdersOf(b)) = Cardinality(OrdersOf(b))
  /\ \A b : Promise!OrdersOf(b) = OrdersOf(b)
<1>1. /\ Promise!Fresh = Fresh /\ Promise!NoLedger = NoLedger
      /\ Promise!Prices = Prices /\ Promise!NoPrice = NoPrice
  BY DEF Promise!Fresh, Fresh, Promise!NoLedger, NoLedger, Promise!Prices, Prices,
         Promise!NoPrice, NoPrice
<1>2. \A base, b : Promise!FoldLeft(Promise!Booked, base, b) = FoldLeft(Booked, base, b)
  BY Zenon
  DEF Promise!FoldLeft, FoldLeft, Promise!MapThenFoldSet, MapThenFoldSet, Promise!Max, Max,
      Promise!Booked, Booked, Promise!CashFlow, CashFlow
<1>3. \A S : Promise!Cardinality(S) = Cardinality(S)
  BY Zenon DEF Promise!Cardinality, Cardinality
<1>4. \A b : Promise!OrdersOf(b) = OrdersOf(b)
  BY DEF Promise!OrdersOf, OrdersOf
<1> QED
  BY <1>1, <1>2, <1>3, <1>4

LEMMA OrdersCount ==
  ASSUME NEW b \in Seq(Trades), DistinctOrders(b)
  PROVE  Cardinality(OrdersOf(b)) = Len(b)
<1> DEFINE n == Len(b)
           f == [i \in 1..n |-> b[i].order]
<1>1. n \in Nat /\ DOMAIN b = 1..n
  OBVIOUS
<1>2. f \in Bijection(1..n, OrdersOf(b))
  BY <1>1 DEF Bijection, Injection, Surjection, IsInjective, OrdersOf, DistinctOrders
<1>3. ExistsBijection(1..n, OrdersOf(b))
  BY <1>2 DEF ExistsBijection
<1> QED
  BY <1>1, <1>3, FS_CountingElements

LEMMA ImplementsInit == Init => Promise!LedgerInit
BY PromiseWords
DEF Init, Everywhere, Committed, LockFree, Promise!LedgerInit, Promise!Nothing

\* A commit that ends was a whole execution on what it could have restored.
LEMMA EndExecutes ==
  ASSUME Typed, Underway, NEW t \in Threads, CommitEnd(t)
  PROVE  \E b \in Batches : Promise!Execute(b)
<1>1. /\ pc[t] = "apply" /\ batch[t] = <<>> /\ ~LockFree
      /\ UNCHANGED <<account, disk, image>>
  BY DEF CommitEnd, LockFree
<1>2. LockFree'
  BY DEF CommitEnd, Done, Goto, LockFree, Typed, TypeOK, Control
<1>3. PICK b \in Batches :
        \E n \in 0..Len(b) : Begun(backup.account, account, <<>>, b, n)
  BY <1>1 DEF Underway
<1>4. PICK n \in 0..Len(b) : Begun(backup.account, account, <<>>, b, n)
  BY <1>3
<1>5. /\ b \in Seq(Offered) /\ b \in Seq(Trades) /\ backup.account \in Accounts
      /\ account \in Ledgers
  <2>1. b \in Seq(Offered)
    BY TradesAssumption
  <2>2. Offered \subseteq Trades
    BY DEF Offered
  <2>3. b \in Seq(Trades)
    BY <2>1, <2>2
  <2> QED
    BY <1>1, <2>1, <2>3, LedgersAreAccounts DEF Typed, TypeOK
<1>6. account = FoldLeft(Booked, backup.account, b)
  BY <1>4, <1>5, BegunLast
<1>7. /\ Cardinality(OrdersOf(b)) = Len(b)
      /\ OrdersOf(b) \intersect backup.account.processed = {}
  BY <1>4, <1>5, OrdersCount DEF Begun
<1>8. Committed = backup.account /\ Committed' = account
  BY <1>1, <1>2 DEF Committed
<1>9. account.cash >= 0 /\ \A k \in Keys : account.quantity[k] >= 0
  BY <1>5 DEF Ledgers
<1> QED
  BY <1>1, <1>6, <1>7, <1>8, <1>9, PromiseWords DEF Promise!Execute

\* A settlement that is booked sells what it had read, and never more than is held.
LEMMA BookSettles ==
  ASSUME Typed, NEW price \in Prices, NEW fee \in SettlementFees,
         SettleBook(price, fee), account' # account
  PROVE  \E k \in Keys : Promise!Settlement(k)
<1> DEFINE trade == SettlementTrade(price, fee)
           k == trade.key
           n == trade.quantity
           paid == n * price
<1>1. /\ pc[Loop] = "settle" /\ Loop \in Threads /\ settlements \in Nat
      /\ account \in Ledgers
  BY AccountAssumption DEF SettleBook, Threads, Typed, TypeOK
<1>2. /\ trade \in Trades /\ trade.side = "SELL" /\ trade.price = price /\ trade.fee = fee
  BY <1>1, AccountAssumption DEF SettlementTrade, Typed, TypeOK, Control, Trades
<1>3. /\ LockFree /\ LockFree'
  BY <1>1 DEF SettleBook, Done, Goto, LockFree, Typed, TypeOK
<1>4. /\ CashFlow(trade) >= 0 /\ Bookable(account, trade)
      /\ account' = Booked(account, trade) /\ UNCHANGED <<disk, image>>
  BY DEF SettleBook
<1> HIDE DEF trade
<1>5. k \in Keys /\ n \in Nat \ {0} /\ price \in Int /\ fee \in Nat
  BY <1>2, PriceFacts, AccountAssumption DEF Trades
<1>6. paid \in Int /\ CashFlow(trade) = paid - fee
  BY <1>2, <1>5 DEF CashFlow
<1>7. n \in 1..account.quantity[k]
  BY <1>1, <1>2, <1>4, <1>5 DEF Bookable, Ledgers
<1>8. /\ account'.quantity = [account.quantity EXCEPT ![k] = @ - n]
      /\ account'.cash = account.cash + CashFlow(trade)
      /\ account'.processed = account.processed \union {trade.order}
      /\ account'.trades = Append(account.trades, trade)
  BY <1>2, <1>4 DEF Booked
<1> HIDE DEF k, n
<1>9. account'.cash \in account.cash..(account.cash + paid)
  <2>1. account.cash \in Int
    BY <1>1 DEF Ledgers
  <2> HIDE DEF paid
  <2> QED
    BY <1>4, <1>5, <1>6, <1>8, <2>1
<1>10. Len(account'.trades) = Len(account.trades) + 1
  <2>1. account.trades \in Seq(Trades)
    BY <1>1 DEF Ledgers
  <2> QED
    BY <1>2, <1>8, <2>1, AppendProperties
<1>11. Committed = account /\ Committed' = account'
  BY <1>3 DEF Committed
<1> QED
  BY <1>4, <1>5, <1>7, <1>8, <1>9, <1>10, <1>11, PromiseWords DEF Promise!Settlement

LEMMA ImplementsNext ==
  ASSUME Typed, Underway, [Next]_vars
  PROVE  [Promise!LedgerNext]_<<Committed, image, disk>>
<1> DEFINE Stutters == UNCHANGED <<Committed, image, disk>>
<1>a. Loop \in Threads
  BY DEF Threads
\* Steps that neither take nor free the lock nor move the account.
<1>b. ASSUME \A u \in Threads : pc'[u] = "apply" <=> pc[u] = "apply",
             UNCHANGED <<account, backup>>
      PROVE  Committed' = Committed
  BY <1>b DEF Committed, LockFree
<1>c. ASSUME LockFree, LockFree'
      PROVE  Committed = account /\ Committed' = account'
  BY <1>c DEF Committed
<1>1. ASSUME NEW t \in Threads,
             \/ \E b \in Batches, save \in BOOLEAN : Commit(t, b, save)
             \/ Clear(t)
             \/ t = Loop /\ \/ \E k \in Keys, save \in BOOLEAN : Settle(k, save)
                            \/ Save \/ Shutdown
             \/ Exit
             \/ UNCHANGED vars
      PROVE  Stutters
  <2>1. \A u \in Threads : pc'[u] = "apply" <=> pc[u] = "apply"
    BY <1>1
    DEF Commit, MayCall, Settle, Save, Clear, Shutdown, Exit, Done, Goto, vars, Typed, TypeOK
  <2>2. UNCHANGED <<account, backup, image, disk>>
    BY <1>1 DEF Commit, Settle, Save, Clear, Shutdown, Exit, vars
  <2> QED
    BY <1>b, <2>1, <2>2
<1>2. ASSUME NEW t \in Threads, CommitBegin(t)
      PROVE  Stutters
  <2>1. LockFree /\ UNCHANGED <<account, image, disk>>
    BY <1>2 DEF CommitBegin
  <2>2. Committed' = account
    <3>1. CASE Admissible(batch[t])
      <4>1. backup'.account = account
        BY <1>2, <3>1 DEF CommitBegin
      <4> QED
        BY <2>1, <4>1 DEF Committed
    <3>2. CASE ~Admissible(batch[t])
      <4>1. LockFree'
        BY <1>2, <3>2 DEF CommitBegin, Goto, LockFree, Typed, TypeOK
      <4> QED
        BY <2>1, <4>1 DEF Committed
    <3> QED
      BY <3>1, <3>2
  <2> QED
    BY <2>1, <2>2 DEF Committed
<1>3. ASSUME NEW t \in Threads, ApplyTrade(t)
      PROVE  Stutters
  <2>1. /\ ~LockFree /\ ~LockFree' /\ UNCHANGED <<backup, image, disk>>
    BY <1>3 DEF ApplyTrade, LockFree
  <2> QED
    BY <2>1 DEF Committed
<1>4. ASSUME NEW t \in Threads, Rollback(t)
      PROVE  Stutters
  <2>1. ~LockFree /\ LockFree'
    BY <1>4 DEF Rollback, Goto, LockFree, Typed, TypeOK, Control
  <2>2. account' = backup.account /\ UNCHANGED <<image, disk>>
    BY <1>4 DEF Rollback
  <2> QED
    BY <2>1, <2>2 DEF Committed
<1>5. ASSUME NEW t \in Threads, CommitEnd(t)
      PROVE  Promise!LedgerNext
  BY <1>5, EndExecutes DEF Promise!LedgerNext
<1>6. ASSUME NEW price \in Prices, NEW fee \in SettlementFees, SettleBook(price, fee)
      PROVE  Promise!LedgerNext \/ Stutters
  <2>1. LockFree /\ LockFree'
    BY <1>6 DEF SettleBook, Done, Goto, LockFree, Typed, TypeOK
  <2>2. UNCHANGED <<image, disk>>
    BY <1>6 DEF SettleBook
  <2>3. CASE account' = account
    BY <1>c, <2>1, <2>2, <2>3
  <2>4. CASE account' # account
    BY <1>6, <2>4, BookSettles DEF Promise!LedgerNext
  <2> QED
    BY <2>3, <2>4
<1>7. ASSUME NEW request \in MarkRequests, NEW save \in BOOLEAN, Mark(request, save)
      PROVE  Promise!LedgerNext
  <2>1. LockFree /\ LockFree' /\ UNCHANGED <<image, disk>>
    BY <1>7 DEF Mark, Done, Goto, LockFree, Typed, TypeOK
  <2>2. PICK new \in [Keys -> Prices \union {NoPrice}] :
          /\ \A k \in Keys : new[k] = NoPrice <=> account.marks[k] = NoPrice
          /\ account' = [account EXCEPT !.marks = new]
    BY <1>7, MarksMove DEF Typed, TypeOK
  <2>3. Promise!Revalue
    BY <1>c, <2>1, <2>2, PromiseWords DEF Promise!Revalue
  <2> QED
    BY <2>3 DEF Promise!LedgerNext
<1>8. ASSUME NEW save \in BOOLEAN, Reset(save)
      PROVE  Promise!LedgerNext
  <2>1. /\ LockFree /\ LockFree' /\ account' = Fresh /\ UNCHANGED <<image, disk>>
    BY <1>8 DEF Reset, Done, Goto, LockFree, Typed, TypeOK
  <2> QED
    BY <1>c, <2>1, PromiseWords DEF Promise!LedgerNext, Promise!StartOver
<1>9. ASSUME NEW t \in Threads, Export(t)
      PROVE  Promise!LedgerNext
  <2>1. LockFree /\ LockFree'
    BY <1>9 DEF Export, Goto, LockFree, Typed, TypeOK
  <2>2. image' = [image EXCEPT ![t] = account] /\ UNCHANGED <<account, disk>>
    BY <1>9 DEF Export
  <2>3. Promise!Export(t)
    BY <1>c, <2>1, <2>2 DEF Promise!Export
  <2> QED
    BY <2>3 DEF Promise!LedgerNext
<1>10. ASSUME NEW t \in Threads, Write(t)
       PROVE  Promise!LedgerNext
  <2>1. \A u \in Threads : pc'[u] = "apply" <=> pc[u] = "apply"
    BY <1>10 DEF Write, Goto, Typed, TypeOK
  <2>2. /\ image' = [image EXCEPT ![t] = NoLedger] /\ disk' \in {image[t], disk}
        /\ UNCHANGED <<account, backup>> /\ image[t] # NoLedger
    BY <1>10 DEF Write, Underway
  <2>3. Promise!Write(t)
    BY <1>b, <2>1, <2>2, PromiseWords DEF Promise!Write
  <2> QED
    BY <2>3 DEF Promise!LedgerNext
<1>11. ASSUME Crash \/ Startup
       PROVE  Promise!LedgerNext
  <2>1. LockFree'
    BY <1>11 DEF Crash, Startup, Load, Halt, Everywhere, LockFree
  <2>2. /\ account' = IF disk = NoLedger THEN Fresh ELSE disk
        /\ image' = [t \in Threads |-> NoLedger] /\ UNCHANGED disk
    BY <1>11 DEF Crash, Startup, Load, Halt, Everywhere
  <2>3. Committed' = account'
    BY <2>1 DEF Committed
  <2> QED
    BY <2>2, <2>3, PromiseWords DEF Promise!LedgerNext, Promise!Reload, Promise!Nothing
<1> QED
  BY <1>a, <1>1, <1>2, <1>3, <1>4, <1>5, <1>6, <1>7, <1>8, <1>9, <1>10, <1>11 DEF Next, Step

\* PaperAccount implements PaperLedger: whatever the threads, the executions and
\* the amounts, the account others find behind the lock moves only by whole
\* executions of new orders, settlements, marks and resets, and the file only ever
\* holds an account that was really there, over refused trades, failing writes,
\* crashes and restarts (commit_execution, settle, PaperAccountRepository.save).
THEOREM ImplementsPromise == Spec => ImplementsLedger
<1>1. Init => Typed /\ Underway /\ Promise!LedgerInit
  BY TypedInit, UnderwayInit, ImplementsInit
<1>2. Typed /\ Underway /\ [Next]_vars => (Typed /\ Underway)'
  BY TypedNext, UnderwayNext
<1>3. Typed /\ Underway /\ [Next]_vars => [Promise!LedgerNext]_<<Committed, image, disk>>
  BY ImplementsNext
<1> QED
  BY <1>1, <1>2, <1>3, PTL DEF Spec, ImplementsLedger, Promise!LedgerSpec
=============================================================================
