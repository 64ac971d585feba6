------------------------------- MODULE MCStorage -------------------------------
EXTENDS StorageProperties

CONSTANTS m1, m2

MCOwners == {m1, m2, EventsWallet}
MCUsersFile == <<m1, m2>>
MCPricesFile == <<m2>>
MCFundsFile == <<m1>>
MCPenaltiesFile == <<m1>>
MCCorrupt == {<<"funds", m1>>}

(* m1 trades m2, whose fund m2 invests back into; the others meet them. *)
MCWork ==
    {TradeSection(m2, m1), ShortSection(m1, m2), WithdrawSection(m1), SendSection(m1),
     InvestSection(m2, m1), FundSection(m1), AccountSection(m2), PriceSection(m2),
     CaptureSection(m1, m2), SnapshotSection(m1, m2)}
=============================================================================
