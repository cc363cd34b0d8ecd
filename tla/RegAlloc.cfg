CONSTANTS
  Codes  <- NoCodes
  Blocks <- SomeBlocks
  Guests <- SomeGuests
  Junk   = {0, 6}
  Width  = 4
SPECIFICATION TranslationSpec
INVARIANTS
  TypeOK
  CodeAllocatable
  RegistersDistinct
  NothingLeftOver
  TranslationAgrees
  CodeFollows
  JumpsMeet
