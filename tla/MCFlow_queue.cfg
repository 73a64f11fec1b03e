SPECIFICATION LineCallSpec
CONSTANTS
  PackLen = 6
  HkeyAt = 5
  K = 4
  KLate = 4
  MaxCut = 0
  Magic <- MCMagic
  NoKey <- MCNoKey
  Cell <- MCCell
  Crc <- MCCrc
  Streams <- RacingStreams
PROPERTIES QueueSpec
