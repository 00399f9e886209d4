\* An agent that asks and a designer who answers, with one answer or form of their own.
SPECIFICATION Diligent
CONSTANTS
  Horizon = 52
  Top = 1
  Base <- Community
  TokenIds <- TwoTokens
  Values <- Given
  Slips <- Mistakes
  Proposal <- Estimates
  Lowest <- Least
  Known = {"d", "N", "governance", "rules", "maturity", "proportionality", "K", "degree"}
  Stringly = TRUE
  MaxExtra = 1
INVARIANTS
  NothingOpenMatters
PROPERTIES
  InterviewEnds
CHECK_DEADLOCK FALSE
