SPECIFICATION Spec
CONSTANTS
  EntryIds = {r1, r2, r3, r4}
  NoRow = NoRow
  NoCall = NoCall
  Calls = {c1}
  DayLength <- MCDayLength
  DraftSpans <- MCDraftSpans
  UserSpans <- MCUserSpans
  CutPoints <- MCCutPoints
SYMMETRY Symmetry
INVARIANTS
  NeverClipped
