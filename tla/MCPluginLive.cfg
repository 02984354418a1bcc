SPECIFICATION Spec
CONSTANT Speeds = {100}
CONSTANT Rpms = {1500}
CONSTANT Substances = {0}
CONSTANT ChannelValues <- MCChannelValues
CONSTANT Settings <- MCSettings
CONSTANT Patterns <- MCPatterns
CONSTANT Connected = {"known"}
CONSTANT MaxFailures = 1
CONSTANT RefreshStarts = TRUE
PROPERTY HandlersEnd
PROPERTY DrivingUpdates
PROPERTY FeedbackRecovers
PROPERTY SeizureEnds
PROPERTY ImplementsWheel
PROPERTY ImplementsForceFeedback
