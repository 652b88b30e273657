SPECIFICATION Spec
CONSTANTS
  f1 = f1
  f2 = f2
  f3 = f3
  f4 = f4
  t1 = t1
  t2 = t2
  t3 = t3
  None = None
  Files <- MCFiles
  Threads <- MCThreads
  Content <- MCContent
  NameLen <- MCNameLen
  Byte <- MCByte
  NameCap = 3
  Pad = 0
  Align = 2
  BlockSize = 4
  HeaderSize = 5
  EntrySize = 2
  OffsetRange = 64
  BigEndian = TRUE
  MaxCrashes = 1
INVARIANTS
  Recognised
