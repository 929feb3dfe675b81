SPECIFICATION FreeSpec
CONSTANTS
  Events = {e1}
  EntryIds = {r1, r2, r3}
  Facts <- MovedFacts
  UserSpans <- MCUserSpans
  Titles <- MCTitles
  Manual = Manual
  NoFact = NoFact
  NoRow = NoRow
  NoSync = NoSync
  DeletedRev = DeletedRev
SYMMETRY Symmetry
INVARIANTS
  SplitDraftsStayApart
