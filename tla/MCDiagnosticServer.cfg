SPECIFICATION ServerSpec
CONSTANTS
  Functions <- MCFunctions
  Capacity = 3
  kNoFault = "kNoFault"
  Bytes <- MCBytes
  kMaxDataBytesPerBlock = 2
  kMaxFirmwareSize = 4
  SlotSize = 3
  StreamBufSize = 2
  SeqModulus = 3
  Crc32 <- MCCrc32
  NoCrc = NoCrc
  Signed <- MCSigned
  Sizes <- MCSizes
  DataBlocks <- MCDataBlocks
  Checksums <- MCChecksums
INVARIANTS
  CountersMatchStaged
  CommitIsVerified
  TrialCanBeReverted
  DtcTableMatchesFlags
PROPERTIES
  ImplementsFaultSet
  AcceptedUpgradeReboots
