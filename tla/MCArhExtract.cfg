SPECIFICATION Spec
CONSTANTS
  Word <- MCWord
  Xor <- MCXor
  LetterRange = 8
  Archives <- MCArchives
INVARIANTS
  IInv
  NamesRight
  SentRight
PROPERTY
  Ends
