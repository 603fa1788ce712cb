SPECIFICATION Spec
CONSTANTS
  u1 = u1
  minted = minted
  pasted = pasted
  w1 = w1
  w2 = w2
  t1 = t1
  Url = {u1}
  Key <- Keys
  NoUrl = NoUrl
  NoKey = NoKey
  Pasted = {pasted}
  Malformed = {}
  Window <- Windows
  Thread = {t1}
  NoSender = NoSender
  MaxEvents = 3
SYMMETRY Symmetry
CHECK_DEADLOCK FALSE
INVARIANTS
  MintedIsKept
  TrayIsCurrent
PROPERTIES
  KeyIsNotForgotten
