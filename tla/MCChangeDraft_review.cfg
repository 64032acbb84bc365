SPECIFICATION Spec
CONSTANTS
  Changes <- MCChanges
  Users <- MCUsers
  Grants <- MCGrants
  Deleters = {"lead"}
  Handlers = {h1, h2}
  Author = "author"
  Direct = {"key"}
  MaxRequests = 2
  MaxRaces = 1
  MaxSlips = 1
  MaxToggles = 1
  None = None
SYMMETRY HandlerSymmetry
INVARIANTS RecordIsTrue EffectOnce DraftSurvives
PROPERTIES DecisionStands
CHECK_DEADLOCK FALSE
