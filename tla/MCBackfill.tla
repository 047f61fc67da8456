----------------------------- MODULE MCBackfill -----------------------------
(* TLC instances of Backfill.                                               *)
EXTENDS Backfill, TLC

CONSTANTS t1, t2

Account(vendor, limited, granted) ==
  [vendor |-> vendor, limited |-> limited, limit |-> 3, granted |-> granted]

AllAccounts ==
  {Account("salesforce", FALSE, TRUE), Account("hubspot", FALSE, FALSE),
   Account("dataverse", TRUE, TRUE)}

UnlimitedDataverse == {Account("dataverse", FALSE, TRUE)}

ThreadSymmetry == Permutations({t1, t2})
=============================================================================
