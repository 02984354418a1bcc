SPECIFICATION Safety
CONSTANT Speeds = {100}
CONSTANT Rpms = {1500}
CONSTANT Substances = {0, 1}
CONSTANT ChannelValues <- MCChannelValues
CONSTANT Settings <- MCSettings
CONSTANT Patterns <- MCPatterns
CONSTANT Connected = {"known"}
CONSTANT MaxFailures = 0
CONSTANT RefreshStarts = TRUE
INVARIANT VibratesOffroadOnly
