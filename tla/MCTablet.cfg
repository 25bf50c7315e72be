SPECIFICATION Spec
CONSTANTS
  Book <- OneBook
  Files = 2
INVARIANTS
  BackgroundIsSilent
  ListedIsReadable
  AllOrNothing
PROPERTIES
  CommandsAnswered
  StatusIsShown
