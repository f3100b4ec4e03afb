CONSTANTS
  r1 = r1
  r2 = r2
  d1 = d1
  d2 = d2
  a1 = a1
  a2 = a2
  NoId = NoId
  NoCall = NoCall
  Requests = {r1, r2}
  Decisions = {d1, d2}
  ActionIds = {a1, a2}
  Tools = {block_ip}
  Registered = {block_ip}
  Destructive = {block_ip}
  HandlerOutcomes = {"text", "value_error", "other_error"}
  MaxRetries = 1
  MaxCrashes = 1
  MaxAuditFailures = 0
SPECIFICATION FairSpec
CHECK_DEADLOCK FALSE
PROPERTIES
  ApprovalFlow
  Answered
