SPECIFICATION FreeSpec
CONSTANTS
  Events = {e1}
  EntryIds = {r1}
  Facts <- AnsweredFacts
  UserSpans <- MorningSpan
  Titles <- MCTitles
  Manual = Manual
  NoFact = NoFact
  NoRow = NoRow
  NoSync = NoSync
  DeletedRev = DeletedRev
SYMMETRY Symmetry
INVARIANTS
  NoDecisionForgotten
