CONSTANTS
  Keys = {1, 2, 3}
  Data = {"a", "b"}
  Null = "none"
  Hashes <- MCHashes
  Capacity = 2
  MaxIterations = 2
  MaxIncrement = 3
  Memory = 7
  Users = {"u1", "u2"}
  Systems = {"posix", "windows"}
  Packet = 2
  MaxCalls = 2
  MaxFaults = 2
  ByteBits = 2
  StringCapacity = 2
  Buffers <- MCBuffers
  Overrides <- MCOverrides
  BitTags <- MCBitTags
  Numbers <- MCNumbers
  Strings <- MCStrings
  Sizes <- MCSizes
  Offsets <- MCOffsets
  MaxChanges = 1
  Allocs = {TRUE, FALSE}
SPECIFICATION PartsSpec
INVARIANTS RoundTrip OnlyItsBytes NothingLeft NothingOpen
PROPERTIES ImplementsMap WorkTaken CloseNoticed WakeSeen
CHECK_DEADLOCK FALSE
