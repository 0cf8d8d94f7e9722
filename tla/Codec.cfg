SPECIFICATION FairSpec
CONSTANTS
  ExpBits = 3
  SigBits = 3
INVARIANTS CodecTypeOK PacksIEEE ArrivesClose OrderKept
PROPERTY ConversionEnds
CHECK_DEADLOCK FALSE
