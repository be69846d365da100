CONSTANTS
  m1 = m1
  w1 = w1
  h1 = h1
  Token = {e1, e2, e3, e4}
  Uri = {m1, w1}
  Hash = {h1}
  Magnet = {m1}
  HashOf <- MCHashOf
  NoId = NoId
  NoUri = NoUri
  User = User
  NoPoll = NoPoll
  MaxLaunches = 2
SPECIFICATION Spec
INVARIANTS ResumedStaysSaved
