SPECIFICATION WheelSafety
CONSTANT Settings <- MCSettings
CONSTANT Patterns = {3}
CONSTANT Connected = {"known", "unknown"}
CONSTANT MaxFailures = 2
CONSTANT RefreshStarts = TRUE
INVARIANT WheelTypeOK
INVARIANT WheelInv
INVARIANT StoppedIsSilent
INVARIANT QueueIsFlushed
INVARIANT CleanHandlerReleases
INVARIANT ReportsArrive
PROPERTY NoStartWhenStopped
PROPERTY HandlersAreBounded
