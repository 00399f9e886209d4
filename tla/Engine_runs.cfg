CONSTANTS
  gold = gold
  silver = silver
  work = work
  spend = spend
  Tokens <- MCTokens
  Primary = gold
  NoCap = NoCap
  Caps <- MCCaps
  Rates <- MCRates
  Noise <- MCNoise
  RegimeRates = {2}
  RegimeAt = 4
  StateShare = 2
  Flows <- MCFlows
  Types <- MCTypes
  ActionsOf <- MCActionsOf
  Declared = {}
  Leaving = {spend}
  Gain <- MCGain
  Delta = 2
  Start <- MCStart
  StartBalance = 1
  StartSupply <- MCStartSupply
  Population <- MCPopulation
  Delegated = TRUE
  Seats = 1
  StakeFor = 2
  MaxId = 3
  Horizon = 4
  Watched <- MCWatched
  Window = 2
  SkipDecided = FALSE
SPECIFICATION ExploreSpec
INVARIANTS ReportsAgree BooksBalance PlanRealised BaselineIsTheRules
PROPERTIES StakedStays
CHECK_DEADLOCK FALSE
