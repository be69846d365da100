CONSTANTS
  PollTimeout = 2 PollInterval = 1 MaxPollFailures = 2 MaxAsking = 1
  push = push
  dispatch = dispatch
  Run = {push, dispatch}
  Nobody = Nobody
  MaxMade = 2
SYMMETRY RunSymmetry
SPECIFICATION ReleaseSpec
INVARIANTS DecisionIsHeard InTime AssetsBelongTogether
