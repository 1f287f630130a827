--------------------------- MODULE MCPaperAccount ---------------------------
(* Executions, requests and claims for PaperAccount. *)
EXTENDS PaperAccount

CONSTANTS yes, no

Trade(order, key, side, quantity, price, fee) ==
  [order |-> order, key |-> key, side |-> side, quantity |-> quantity,
   price |-> price, fee |-> fee]

\* A two-legged purchase; the sale of both legs, whose second half fails when
\* only the first is held; a purchase that competes with the first for cash.
Executions ==
  { <<Trade(1, yes, "BUY", 1, 1, 0), Trade(2, no, "BUY", 1, 1, 0)>>,
    <<Trade(3, yes, "SELL", 1, 2, 0), Trade(4, no, "SELL", 1, 1, 0)>>,
    <<Trade(5, yes, "BUY", 1, 2, 1)>> }

\* The second position may not exist.
MarkOrders == { << [key |-> yes, price |-> 2], [key |-> no, price |-> 0] >> }

\* scripts/real_tests/phase5_persistent_paper_account.py, "Restart não restaurou
\* trades": the trades of an account that was saved and closed are there after
\* the restart.
RestartRestoresTrades ==
  phase = "STOPPED" /\ ~dirty =>
    disk # NoLedger /\ OrdersOf(account.trades) \subseteq OrdersOf(disk.trades)

\* tests/test_paper_account_persistence.py settles every position and expects
\* none open: a position that was settled is closed.
SettledIsClosed ==
  [][\A price \in Prices, fee \in SettlementFees :
       SettleBook(price, fee) /\ account' # account =>
         account'.quantity[read[Loop].key] = 0]_vars
=============================================================================
