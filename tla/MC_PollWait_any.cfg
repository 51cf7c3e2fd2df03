\* Any poll, with room for two conditions at once.
CONSTANTS
  s1 = s1
  s2 = s2
  Slots = {s1, s2}
SPECIFICATION FairSpec
INVARIANTS
  TypeOK
  OneConditionAtATime
PROPERTIES
  AnswerIsDelivered
  DeadlineEndsPoll
