SPECIFICATION FairSpec
CONSTANTS
  Sources = {app, other}
  MaxDatagrams = 3
  MaxAnswers = 2
  InboxSize = 1
  None = None
INVARIANTS
  AnswersHaveAnAddress
PROPERTIES
  AllIsReleased
CHECK_DEADLOCK FALSE
