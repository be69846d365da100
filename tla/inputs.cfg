CONSTANTS
  MaxDepth = 2 MaxUsize = 9 Base = 3 MaxLen = 6 MaxMessage = 11
  Pieces <- MCPieces
  NibbleBits = 2 CharBits = 3 HashLen = 3
  ws1 = ws1
  ws2 = ws2
  udp = udp
  n1 = n1
  n2 = n2
  sdp1 = sdp1
  sdp2 = sdp2
  WsTracker = {ws1, ws2}
  DefaultTrackers <- MCDefaultTrackers
  Links <- MCLinks
  ByteBase = 22 WordLen = 2 MaxSaid = 2
  Protocol <- MCProtocol
  Handshakes <- MCHandshakes
  Messages <- MCMessages
  Frames <- MCFrames
  Announces <- MCAnnounces
  Answers <- MCAnswers
  Texts <- MCTexts
  Components <- MCComponents
  BaseDir <- MCBaseDir
  MaxFiles = 2 MaxParts = 2
  Fraction = 2 MaxRate = 14 MaxU32 = 7 MinRate = 3
  Numbers <- MCNumbers
SPECIFICATION InputSpec
INVARIANTS BufferIsUnderstood LinkIsUnderstood SaidIsHeard SignalIsHeard PathsStayInside LimitsFollow
