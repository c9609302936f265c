SPECIFICATION FairSpec
CONSTANT MaxJobs = 4
INVARIANTS
    TypeOK
    RemovesItsOwnJob
    ServedOnce
    NoJobLost
    ListInOrder
PROPERTIES
    ImplementsJobService
    JobsAreServed
    StopEndsTheThread
