CONSTANTS
  Datamodels <- MCDatamodels
  Scenarios <- MCScenarios
  Edits <- MCEdits
SPECIFICATION Spec
INVARIANTS
  SchemaIsWhole
  RefusedIffInvalid
  AnswerIsTheMeaning
  OnlyKnownFailures
  PagesAreComplete
