\* Two exchanges in a row, each answer cut in every way.
CONSTANTS
  Base = 8
  Exchanges <- Exchanging
  Turns = 2
  MaxWire = 2
SPECIFICATION Spec
INVARIANTS TypeOK IInv ReadIsWhole WithinBuffer Understood
PROPERTY AnswersAreTaken
CHECK_DEADLOCK FALSE
