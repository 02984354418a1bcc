SPECIFICATION SimSpec
CONSTANT Samples <- MCSamples
INVARIANT SimTypeOK
PROPERTY AlignmentPull
PROPERTY SpringStiffens
PROPERTY DamperResists
PROPERTY BumpDetected
PROPERTY LedsProgress
