SPECIFICATION Spec
CONSTANTS
  None = None
  Docs <- MCDocs
  Categories <- MCCategories
  MaxSkillSize = 2
  MaxLength = 4
  MaxEdits = 1
INVARIANTS
  UneditedOutcome
  LimitHolds
  CanonicalPrompt
  SectionsRead
