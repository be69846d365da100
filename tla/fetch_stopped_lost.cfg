CONSTANTS
  t1 = t1
  t2 = t2
  o1 = o1
  r1 = r1
  r2 = r2
  r3 = r3
  Tracker = {t1}
  Offer = {o1}
  Remote = {r1}
  AnswerSlots = 1
  CmdCap = 2
  EvtCap = 1
  MaxMessages = 1
SPECIFICATION FairSpec
PROPERTY StoppedIsSent
CHECK_DEADLOCK FALSE
