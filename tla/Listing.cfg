CONSTANTS
  DottedWords <- MCDotted
  RegionWords = {}
  CapitalWords <- MCCapital
  LowerWord <- MCLower
  Worlds <- MCWorlds
SPECIFICATION ListSpec
INVARIANTS FindsWhatIsThere OneNameEach LinesLeadBack
