CONSTANTS
  DataSet <- MCDataSet
  SkipChoices <- MCSkipChoices
  MaxChoices <- MCMaxChoices
  FirstChoices <- MCFirstChoices
SPECIFICATION Spec
INVARIANTS
  TypeOK
  EventsInTheirSubRun
  SkipsThenProcesses
  StartsAtAMatch
