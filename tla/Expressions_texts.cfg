\* Expressions typed, mistyped and saved.
SPECIFICATION Spec
CONSTANTS
  Texts <- StartTexts
  Words <- AllWords
  NumberOf <- Numbers
  MaxEdits = 2
  Params <- ParamRanges
  Payload <- PayloadRanges
  Tokens = {"A"}
  Agents <- Population
  Horizon = 2
  RunLength = 4
INVARIANTS
  PrecedenceHolds
  MeaningsAgree
  RatesAreChecked
\* An author may stop.
CHECK_DEADLOCK FALSE
