CONSTANTS
  m1 = m1
  w1 = w1
  h1 = h1
  Token = {e1, e2}
  Uri = {m1}
  Hash = {h1}
  Magnet = {m1}
  HashOf <- MCHashOfMagnet
  NoId = NoId
  NoUri = NoUri
  User = User
  NoPoll = NoPoll
  MaxLaunches = 1
SPECIFICATION Spec
PROPERTIES AlreadyAddedIsTrue
