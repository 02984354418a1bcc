SPECIFICATION Spec
CONSTANT Params <- MCParams
CONSTANT Ranges <- MCRanges
INVARIANT ReportsAreBytes
INVARIANT RoundTrip
INVARIANT RefusalIsHarmless
CHECK_DEADLOCK FALSE
