SPECIFICATION Spec
CONSTANTS
    t1 = t1
    Systems = {t1}
    Telnet = {t1}
    Dial = Dial
    MaxWrites = 1
    UserCloses = FALSE
    UserTransfers = FALSE
INVARIANT HandleIsValid
