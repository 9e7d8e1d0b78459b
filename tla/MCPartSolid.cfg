SPECIFICATION PartSpec
CONSTANTS
  Drawings <- SomeDrawings
  Documents <- SomeDocuments
  Continued <- SomeContinued
  Prompts <- SomePrompts
  Answers <- SomeAnswers
  MaxRetries = 1
  MaxDimension = 200
  Thickness = 4
  MaxEntities = 9
  MaxSegments = 8
  MaxHoles = 6
INVARIANTS
  ChainIsTheDrawing
  HolesSurvive
  ValidIsSolid
  PlansAreSound
  SameSolid
  HolesAreMade
  DrawingTellsTheTruth
CHECK_DEADLOCK FALSE
