SPECIFICATION JsonSpec
CONSTANTS
  ByteRange = 4
  Xor <- MCXor
  Texts <- MCTexts
  MaxCalls = 2
  Jobs <- MCJobs
  Decode <- MCDecode
INVARIANTS
  FilesAreJson
