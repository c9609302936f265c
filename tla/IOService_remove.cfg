SPECIFICATION FairSpec
CONSTANT MaxJobs = 3
PROPERTY RemovalSwapsWithBack
