---------------------------- MODULE PaperTrades ----------------------------
(***************************************************************************)
(* Ledger arithmetic of the paper account: PaperTrade, PaperPosition,      *)
(* PaperWallet, PaperPositionManager, PaperTradeHistory.                   *)
(*                                                                         *)
(* Money and prices are integers in ticks; a contract that wins settles at *)
(* One.  A position exists once bought: its mark price is then a price.    *)
(* Profit and loss and the equity curve are functions of these fields and  *)
(* of past ones, and nothing depends on them.                              *)
(***************************************************************************)
EXTENDS Integers, Sequences, SequencesExt

CONSTANTS
  Keys,         \* position keys (platform|symbol|leg)
  InitialCash,  \* PAPER_INITIAL_BALANCE
  One,          \* the settlement price of a winning contract, in ticks
  Batches       \* executions offered to commit_execution

Prices  == 0..One
NoPrice == -1
Trades  == [order : Int, key : Keys, side : {"BUY", "SELL"},
            quantity : Nat \ {0}, price : Prices, fee : Nat]

\* Ids of settlements have a prefix of their own: they are the negative ones.
Offered == {t \in Trades : t.order \in Nat}

ASSUME TradesAssumption ==
  /\ InitialCash \in Nat \ {0}
  /\ One \in Nat \ {0}
  /\ \A b \in Batches : b \in Seq(Offered) /\ b # <<>>

NoLedger == [none |-> TRUE]

Fresh ==
  [cash |-> InitialCash, quantity |-> [k \in Keys |-> 0],
   marks |-> [k \in Keys |-> NoPrice], trades |-> <<>>, processed |-> {}]

OrdersOf(batch) == {batch[i].order : i \in DOMAIN batch}

DistinctOrders(batch) ==
  \A i, j \in DOMAIN batch : batch[i].order = batch[j].order => i = j

CashFlow(t) ==
  IF t.side = "BUY" THEN -(t.quantity * t.price + t.fee)
                    ELSE t.quantity * t.price - t.fee

Exists(ledger, k) == ledger.marks[k] # NoPrice

\* Mutant: apply_sell does not compare the quantities.
BookableBeyondPosition(ledger, t) ==
  /\ ledger.cash + CashFlow(t) >= 0
  /\ t.side = "SELL" => Exists(ledger, t.key)
  /\ t.order \notin OrdersOf(ledger.trades)

\* Neither the wallet, nor the position, nor the history refuses the trade.
Bookable(ledger, t) ==
  /\ ledger.cash + CashFlow(t) >= 0
  /\ t.side = "SELL" => t.quantity <= ledger.quantity[t.key]
  /\ t.order \notin OrdersOf(ledger.trades)

\* wallet, position, history and processed ids after one trade.
Booked(ledger, t) ==
  [cash      |-> ledger.cash + CashFlow(t),
   quantity  |-> [ledger.quantity EXCEPT ![t.key] =
                    IF t.side = "BUY" THEN @ + t.quantity ELSE @ - t.quantity],
   marks     |-> [ledger.marks EXCEPT ![t.key] = t.price],
   trades    |-> Append(ledger.trades, t),
   processed |-> ledger.processed \union {t.order}]
=============================================================================
