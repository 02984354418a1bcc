SPECIFICATION Safety
CONSTANT Speeds = {100}
CONSTANT Rpms = {0, 1500}
CONSTANT Substances = {0, 1}
CONSTANT ChannelValues <- MCChannelValues
CONSTANT Settings <- MCSettings
CONSTANT Patterns <- MCPatterns
CONSTANT Connected = {"known"}
CONSTANT MaxFailures = 2
CONSTANT RefreshStarts = TRUE
INVARIANT PluginInv
INVARIANT LoadedIsReset
PROPERTY EffectsOnlyWhenDriving
PROPERTY InitOkIsSilent
PROPERTY CleanPauseResets
PROPERTY UnloadRestores
PROPERTY TickDelivers
INVARIANT RestIsSilent
INVARIANT ResetInv
INVARIANT TickInv
