SPECIFICATION Spec
CONSTANTS
  Chars <- MCChars
  Space = " "
  Slash = "/"
  Size = 3
  MaxHistory = 2
  Suffixes <- MCSuffixes
  MaxLines = 3
INVARIANTS RingIsTail NoRepeats EchoExact
PROPERTIES WalkShowsLog LostInside DraftRestored
