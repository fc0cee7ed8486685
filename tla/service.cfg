CONSTANTS
    s1 = s1
    s2 = s2
    None = None
    Sessions <- TwoSessions
    MaxStarts = 2
    AwaitStarted = TRUE
    Factories <- TcpFirst
    Urls <- AnyUrl
    IntMax = 4
    Words <- SomeWords
    Characters <- SomeCharacters
    Numeral <- Numerals
    Leading <- Numbers
SPECIFICATION FairSpec
CHECK_DEADLOCK FALSE
INVARIANTS
    TypeOK
    QuietAfterStop
    QuietUnlessPublished
    NoLostSocket
    UrlKept
PROPERTIES
    StopReturns
    TerminationHeard
