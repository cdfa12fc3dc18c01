CONSTANTS
  garbage = garbage  unset = unset
  Garbage <- garbage
  Unset <- unset
  Vals <- MCVals
  CauseLens <- FittingLens
  MaxCalls = 4
SPECIFICATION Spec
INVARIANTS HeaderRoundTrip
