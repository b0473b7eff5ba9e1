\* Two messages of different kinds, two versions, one crash.
SPECIFICATION FairSpec
CONSTANTS
  m1 = m1
  m2 = m2
  Messages = {m1, m2}
  Names <- MCNames
  Mixes <- MCMixes
  NoMessage = NoMessage
  MaxVersion = 2
  MaxCrashes = 1
INVARIANTS
  TypeOK
  VerdictIsTrue
  DecisionNamesVersion
  NoticeIsTrue
PROPERTIES
  ImplementsConsumption
  EverythingIsTakenUp
CHECK_DEADLOCK FALSE
