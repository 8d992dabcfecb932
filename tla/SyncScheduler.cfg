SPECIFICATION FairSpec
CONSTANTS
  Edits = {e1, e2}
  Chains = {c1, c2, c3}
  NoChain = NoChain
  MaxRestarts = 1
INVARIANT NoCircularWait
PROPERTIES SharesOneRun EditIsAttempted
