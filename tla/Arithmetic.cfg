CONSTANTS
  HalfBits   = 5
  SmearSteps = 3
  U32        = 32
  Align      = 4
  Pointer    = 2
  BlockBits  = 8
  BlockWords = 2
  WordBits   = 10
  TopBits    = 2
  MaxDepth   = 1
  Bytes      = 2
  MaxPath    = 9
SPECIFICATION Requests
INVARIANTS ListsSized BloomSized DigestSpent HashReadsKey CopiesAgree
           MixKeepsOperands PopCountExact LongestPrefixProbed
