SPECIFICATION Spec
CONSTANTS Modulus = 16
          MaxTime = 10
INVARIANT ClockInv
PROPERTY ImplementsStopwatch
