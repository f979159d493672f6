SPECIFICATION FairSpec
CONSTANTS
  e1 = e1
  e2 = e2
  a = a
  b = b
  Emails = {e1, e2}
  Addresses = {a, b}
  Payloads <- MCPayloads
  Detections <- MCDetections
  Hooks = {h1, h2}
  NoCase = NoCase
  UnknownCase = UnknownCase
  Returning = {a}
  Blank = Blank
  NoText = NoText
  TriggerName = "riskware_object"
  TriggerMalware = {"encrypted"}
  FailedMarkers = {"password_extraction_failed"}
  MaxEvents = 2
INVARIANTS TypeOK AcknowledgedMeansHandled ReanalysisCreatesNoCase
PROPERTIES EventuallyAcknowledged ReportEndsOwnCase ReportsArrive
CHECK_DEADLOCK FALSE
