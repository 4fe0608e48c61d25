CONSTANTS
  None = None
  Texts <- MCTexts
  Options <- MCOptions
  Dates <- MCDates
  MaxEdits = 2
  MaxLate = 1
  MaxTicks = 7
SPECIFICATION Spec
INVARIANTS SaveFollowsTheText
PROPERTIES SwitchIsHonest TriggersAsItSays MinuteByMinute
\* The clock and the user stop at their bounds.
CHECK_DEADLOCK FALSE
