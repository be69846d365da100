CONSTANTS
  t1 = t1
  t2 = t2
  o1 = o1
  r1 = r1
  r2 = r2
  r3 = r3
  Tracker = {t1}
  Offer = {}
  Remote = {r1, r2, r3}
  AnswerSlots = 1
  CmdCap = 1
  EvtCap = 1
  MaxMessages = 4
SPECIFICATION FairSpec
PROPERTIES AnswersGoOut NothingOutlivesFetch
CHECK_DEADLOCK FALSE
