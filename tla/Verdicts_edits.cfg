\* Authors settle, declare and follow.
SPECIFICATION Persistent
CONSTANTS
  Designs <- AllDesigns
  Horizon = 4
  SimHorizon = 6
  RunLength = 6
  Top = 12
INVARIANTS
  SoundIsSafe
  DiagnosisHolds
  AdviceHelps
PROPERTIES
  SharpenOnly
  AdviceRunsOut
\* An author may stop.
CHECK_DEADLOCK FALSE
