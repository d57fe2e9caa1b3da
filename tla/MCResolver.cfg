\* Two receivers and two names, a thread that ends after its second idle round.
SPECIFICATION FairSpec
CONSTANTS
  r1 = r1
  r2 = r2
  Names = {1, 2}
  Receivers = {r1, r2}
  Questions <- Shared
  MaxIdle = 0
INVARIANTS
  TypeOK
  NoAnswerLost
  WorkedJobIsThere
  JobsHaveThread
PROPERTIES
  AnswersCome
CHECK_DEADLOCK FALSE
