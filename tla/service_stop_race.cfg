CONSTANTS
    s1 = s1
    s2 = s2
    None = None
    Sessions <- OneSession
    MaxStarts = 1
    AwaitStarted = FALSE
    Factories <- TcpFirst
    Urls <- OneUrl
    IntMax = 4
    Words <- SomeWords
    Characters <- SomeCharacters
    Numeral <- Numerals
    Leading <- Numbers
SPECIFICATION FairSpec
CHECK_DEADLOCK FALSE
PROPERTY StopReturns
