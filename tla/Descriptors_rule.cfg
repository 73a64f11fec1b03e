SPECIFICATION FairSpec
CONSTANTS
  MaxFd = 6
  MaxFiles = 2
  MaxFaults = 3
  RetryAtOnce = TRUE
INVARIANTS DescriptorsTypeOK OwnFiles LeakBounded
PROPERTIES OthersUntouched BothRecover
