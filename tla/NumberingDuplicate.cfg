SPECIFICATION Spec
CONSTANTS
    Requests = {r1, r2}
    Free = Free
    Failure = Failure
    Prefixes <- MCNoPrefix
    Formats <- MCStandard
    DefaultFormat <- Standard
    Fields <- MCFields
    Formatted <- MCFormatted
    Day <- MCSameDay
INVARIANT GeneratedNumbersDiffer
