SPECIFICATION FairSpec
CONSTANTS
  NRegs = 3
  Value = {0, 1}
  Zero = 0
  Defaults <- MCDefaults
  PowerOn <- MCPowerOn
  StickAt <- Running
  MaxFaults = 4
INVARIANTS TypeOK InStep
PROPERTIES CatchesUp InitReturns GreetedFirst
