SPECIFICATION Spec

CONSTANTS
  NoEvent = NoEvent
  Events <- MCEvents

INVARIANTS
  TypeOK
  LatestIsShown
  AnalysisIsOneRun

PROPERTIES
  ViewIsHonest
