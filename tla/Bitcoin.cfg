CONSTANTS
  m1 = m1
  m2 = m2
  c1 = c1
  c2 = c2
  Miners = {m1, m2}
  Clients = {c1, c2}
  Word = 32
  Hash <- MCHash
  Log <- MCLog
  Log10 <- MCLog10
  Big = 8
  ChanCap = 1024
  NoTask = NoTask
  u1 = {16}
  u2 = {2}
  Uppers <- MCUppers
  MaxLost = 1
SPECIFICATION Spec
SYMMETRY MinerSymmetry
INVARIANTS TypeOK PartsConserved FreeListExact Awake AnswerLeast Served
CHECK_DEADLOCK FALSE
