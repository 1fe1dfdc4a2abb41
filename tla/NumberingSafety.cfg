SPECIFICATION FairSpec
CONSTANTS
    Requests = {r1, r2, r3}
    Free = Free
    Failure = Failure
    Prefixes <- MCPrefixes
    Formats <- MCFormats
    DefaultFormat <- Standard
    Fields <- MCFields
    Formatted <- MCFormatted
    Day <- MCDay
INVARIANTS TypeOK DifferUnlessOvertaken
PROPERTIES ImplementsBook EveryCallEnds
