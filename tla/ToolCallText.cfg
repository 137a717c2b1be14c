SPECIFICATION Spec

CONSTANTS
  Calls <- MCCalls
  Sample <- MCSample
  Spellings <- MCSpellings
  Usual <- MCUsual

INVARIANTS
  TagsAreRead
  TagsAreHeldBack
  

CHECK_DEADLOCK FALSE
