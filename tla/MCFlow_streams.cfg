SPECIFICATION LineCallSpec
CONSTANTS
  PackLen = 6
  HkeyAt = 5
  K = 4
  KLate = 6
  MaxCut = 6
  Magic <- MCMagic
  NoKey <- MCNoKey
  Cell <- MCCell
  Crc <- MCCrc
  Streams <- AnyStreams
INVARIANTS TypeOK LossIsLocal BacklogBounded BufferSafe OnePiece AtMostTwice OneLate
