SPECIFICATION Spec

CONSTANTS
  Texts <- MCTexts
  MaxLines = 3
  Results <- MCResults
  UnaskedThinking = TRUE

INVARIANTS
  ContentIsKept
  CitationsLeadToTheirResult

CHECK_DEADLOCK FALSE
