SPECIFICATION Spec
CONSTANT Attachable <- MCAttachable
INVARIANT DiscoveryInv
INVARIANT FindsAWheel
INVARIANT PointersAreAlive
PROPERTY GivesAllBack
CHECK_DEADLOCK FALSE
