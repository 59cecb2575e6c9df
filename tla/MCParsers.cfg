CONSTANTS
  Alphabets <- MCAlphabets
  Word = 8
  Usize = 64
  MaxPayload = 45
SPECIFICATION ParsersSpec
INVARIANTS
  ParsesGrammar
  NeverMistaken
  ExtendedIsAccepted
CHECK_DEADLOCK FALSE
