SPECIFICATION Spec

CONSTANTS
  Surfaces = {"chat", "responses"}
  Answers <- MCAnswers
  Thoughts <- MCThoughts
  MaxSwitches = 1

INVARIANTS
  TextInOrder
  CallsOnce
  NothingLost
  CallsAreDelivered
  ItemsClosedOnce
