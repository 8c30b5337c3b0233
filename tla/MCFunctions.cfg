SPECIFICATION MCSpec
CONSTANTS
  Sides = {"listing", "analysis", "fleet", "verdicts", "rubrics", "reports"}
  Calls = {1, 2, 3}
  Clocks = {1, 2}
  Limit = 1
  MaxRevision <- Revised
  Utterances <- MCUtterances
  FleetSize = 2
  Revisions <- MCRevisions
  Rows <- MCRows
  Alike <- MCAlike
  Unserved = Unserved
  MaxRows = 2
  Openings = {86370}
  Closings = {86490}
  ToolRuns <- MCToolRuns
  References <- MCReferences
  Codes <- MCCodes
  NearMisses <- MCNearMisses
  Missing = None
  MaxFacts = 3
  Sources = {"vapi", "retell", "elevenlabs", "cartesia", "example", "livekit", "pipecat", "openai", "foreign"}
  Told <- MCTold
  None = None
  Absent = None
  ErrorCodes = {"error"}
  Mappers <- MCMappers
  RunnerSlots = {"cheap", "expensive"}
  Endpoints = {m1, m2}
  Environment = env
  CallEvidence <- Cases
  Specs <- CheckedSpecs
  PackNames = {"tool_use"}
  Answers = {"pass", "maybe"}
  RubricIds = {1, 2}
  Texts = {t1, p1}
  Predicates = {p1}
  Puts = {h1, h2}
  MaxIssued = 2
  NoPut = None
INVARIANTS PagesCoverSteady FleetHonest VerdictsEarned VersionsKept SnapshotWhole ReportAdmitted RedeliveredAsIs
PROPERTIES FindingsStable
CHECK_DEADLOCK FALSE
