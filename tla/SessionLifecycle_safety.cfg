SPECIFICATION Spec
CONSTANTS
    t1 = t1
    s1 = s1
    Systems = {t1, s1}
    Telnet = {t1}
    Dial = Dial
    MaxWrites = 1
    UserCloses = TRUE
    UserTransfers = FALSE
INVARIANTS
    TypeOK
    OneRead
    BufferHoldsOneRead
