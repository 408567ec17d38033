\* A safe form whose retry is answered with a server error.
SPECIFICATION Spec
CONSTANTS
    MaxVersion = 3
    MaxSends = 3
    MaxIntents = 1
    None = None
INVARIANT
    KeySurvivesServerErrors
CHECK_DEADLOCK FALSE
