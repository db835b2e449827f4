\* One sentence in parentheses.
CONSTANTS
    Documents <- Parentheses
    Imports <- NoImports
    MaxRounds = 2
CHECK_DEADLOCK FALSE
SPECIFICATION CodecSpec
PROPERTIES
    RoundTrip
