\* A context used twice, for messages split over calls in many ways.
SPECIFICATION StreamSpec
CONSTANTS
    UpdateSizes <- Sizes
    MaxMessage = 130
    MaxMessages = 2
INVARIANTS
    StreamTypeOK
    MessageInThreeParts
    HashedPadded
PROPERTY
    UpdateEnds
