\* Two EvalResults, each used for up to three transactions, and two commits.
SPECIFICATION Spec
CONSTANTS
  Results = {r1, r2}
  MaxTxns = 3
  MaxWrites = 2
  Nil = Nil
INVARIANTS NeverStale OneOwner
PROPERTY NobodyIsStuck
\* The program may stop when its transactions are used up.
CHECK_DEADLOCK FALSE
