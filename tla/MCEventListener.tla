-------------------------- MODULE MCEventListener --------------------------
(* Small instances of EventListener for TLC.                               *)
EXTENDS EventListener, TLC

LogAt(block, contract, kind, user, tx, amount) ==
  [block |-> block, contract |-> contract, kind |-> kind, user |-> user, tx |-> tx,
   amount |-> amount]

(* One log of every kind, in two blocks: a loan, an event no handler       *)
(* takes, a partial repayment and a liquidation among them.                *)
TwoBlocks ==
  <<LogAt(1, "Vault", "Deposited", "u", "tx1", 1),
    LogAt(1, "LendingPool", "Borrowed", "u", "tx2", 2),
    LogAt(1, "LendingPool", "BorrowIndexUpdated", "u", "tx2", 0),
    LogAt(2, "Vault", "Withdrawn", "u", "tx3", 1),
    LogAt(2, "LendingPool", "Repaid", "u", "tx4", 1),
    LogAt(2, "LendingPool", "Liquidated", "u", "tx5", 1)>>

-----------------------------------------------------------------------------
(* "Real-time event indexing" (.kiro/ROADMAP.md:17): new blocks are always *)
(* indexed in the end.                                                     *)
AlwaysCatchesUp == <>[](lastBlock = MaxBlock)
=============================================================================
