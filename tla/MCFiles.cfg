SPECIFICATION FilesSpec
CONSTANTS
  Proc = {j1, j2}
  MaxEntries = 4
  MaxTorn = 2
  p1 = p1
  p2 = p2
  r1 = r1
  Procs = {p1, p2}
  Readers = {r1}
  Nobody = Nobody
  Detached = {p1, p2}
  MaxEarlier = 1
  Attempts = 3
  MaxHistory = 2
  Reboots = TRUE
  Child = p1
  Commands = {"up", "resume"}
  Writers = {w1}
  Serving = s
  Names = {"default"}
  q1 = q1
  q2 = q2
  Requests = {q1, q2}
  MaxMade = 2
  MaxWrites = 3
  NoOne = NoOne
CHECK_DEADLOCK FALSE
INVARIANTS
  TornCostsTwo
  RefusedOnlyWhenHeld
  HistoryKept
  AnswerNamesHolder
  FailureIsSettled
  AckedKeysStand
  KeysDecide
PROPERTIES
  AckedStaysReadable
