CONSTANTS
    Texts <- MCTexts
    Images <- MCImages
    Encoded <- MCEncoded
    None = "none"
    ServerIsPrivate = TRUE
    MaxCopies = 1
    MaxClips = 2
    MaxPending = 1
SPECIFICATION Spec
INVARIANTS
    TypeOK
    SentBackOnlyWhenOvertaken
PROPERTIES
    LostConnectionRetried
CHECK_DEADLOCK FALSE
