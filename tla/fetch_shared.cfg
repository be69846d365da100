CONSTANTS
  t1 = t1
  t2 = t2
  o1 = o1
  r1 = r1
  r2 = r2
  r3 = r3
  Tracker = {t1, t2}
  Offer = {o1}
  Remote = {r1}
  AnswerSlots = 1
  CmdCap = 2
  EvtCap = 2
  MaxMessages = 1
SPECIFICATION Spec
SYMMETRY Symm
INVARIANTS Inv ExhaustedIsTrue
PROPERTIES OfferUsedOnce StoppedLostOnlyLate
CHECK_DEADLOCK FALSE
