CONSTANTS
  Lexemes <- MCWords
  Lines <- MCLines
  Blank = " "
  AndAnd = "&&"
  Listings <- MCListings
  Operands <- MCOperands
  Notices <- MCNotices
  Leaves <- MCLeaves
SPECIFICATION Spec
INVARIANTS FreedOnce Released ChainInOrder
PROPERTIES Answered ExitEnds
CHECK_DEADLOCK FALSE
