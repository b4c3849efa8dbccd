SPECIFICATION Spec
CONSTANTS
  w1 = w1
  w2 = w2
  Workers = {w1, w2}
  Scenarios = {"tags", "cors", "acl", "anonymous", "signed", "read", "shared"}
  Jobs <- MCJobs
  Stored <- MCStored
  Rules <- MCRules
  Nodes = {1, 2, 3, 4, 5}
  Overlap = FALSE
  Faulty = {"tags", "cors", "acl", "read", "shared"}
  Star = "*"
  None = None
  Torn = Torn
  Bad = Bad
  AccessKeys = {root, u1}
  Root = root
  Policies <- MCPolicies
  Gone = Gone
  Bucket = b1
  Wildcard = Wildcard
  Window = 2
  DefaultExpires = 2
  MaxExpires = 4
  Asked <- MCAsked
  Moving = {"signed"}
  MaxTime = 4
  MaxInt = 7
  AnyTag = AnyTag
INVARIANTS
  DocumentsRegular
  PreflightExact
  Authorized
  
  AnswerMatches
