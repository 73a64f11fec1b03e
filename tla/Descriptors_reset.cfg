SPECIFICATION FairSpec
CONSTANTS
  MaxFd = 6
  MaxFiles = 2
  MaxFaults = 3
  RetryAtOnce = FALSE
PROPERTIES BothRecover
