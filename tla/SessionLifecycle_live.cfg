SPECIFICATION FairSpec
CONSTANTS
    t1 = t1
    Systems = {t1}
    Telnet = {t1}
    Dial = Dial
    MaxWrites = 1
    UserCloses = TRUE
    UserTransfers = TRUE
INVARIANT ActiveConnectionIsRead
PROPERTIES
    RemoteCloseEndsSession
    ClosedWindowLeaves
    DialCloseEndsProgram
