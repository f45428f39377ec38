------------------------------ MODULE MCLedger ------------------------------
(* One member's MAIN and FUND wallets, three transactions at a time. *)
EXTENDS Ledger, TLC

CONSTANTS main, fund

MCWallets == {main, fund}
MCOpening == (main :> 3) @@ (fund :> 2)

Single(wallet, direction, amount, reference) ==
  << [wallet |-> wallet, direction |-> direction, amount |-> amount, reference |-> reference] >>

\* A daily accrual whose reference a retry reuses, two withdrawals that cannot
\* both be covered, opposite transfers, and a zero amount.
MCOperations ==
  { Single(main, "CREDIT", 1, "ROI"),
    Single(main, "DEBIT", 2, "WDR-1"),
    Single(main, "DEBIT", 3, "WDR-2"),
    Single(fund, "CREDIT", 0, "NIL"),
    TransferBetweenWallets(main, fund, 2, "TRF-1-OUT", "TRF-1-IN"),
    TransferBetweenWallets(fund, main, 2, "TRF-2-OUT", "TRF-2-IN") }

MCReferences ==
  {"ROI", "WDR-1", "WDR-2", "NIL", "TRF-1-OUT", "TRF-1-IN", "TRF-2-OUT", "TRF-2-IN"}
=============================================================================
