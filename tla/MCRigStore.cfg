SPECIFICATION Spec
CONSTANTS
  Proc = {p1, p2}
  Nobody = Nobody
  Reason = {r1, r2}
  NoReason = NoReason
  Targets <- MCTargets
  MaxEntries = 3
SYMMETRY MCSymmetry
INVARIANTS
  AckedEndSurvives
  JournalExplainsSnapshot
PROPERTIES
  ImplementsRecord
