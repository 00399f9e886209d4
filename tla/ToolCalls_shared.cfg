CONSTANTS
  b1 = b1
  b2 = b2
  Calls = {a1, a2, a3, b1}
  Hanging = {a2}
  Key <- KeyOf
  NoRun = NoRun
SPECIFICATION FairSpec
INVARIANTS OneRunPerKey OldResultsAreRare TimedOutResultKept
PROPERTY EverythingEnds
CHECK_DEADLOCK FALSE
