SPECIFICATION MCSpec
CONSTANTS
  Events = {e1}
  EntryIds = {r1, r2, r3}
  Facts <- MCFacts
  UserSpans <- AllSpans
  Titles <- MCTitles
  Manual = Manual
  NoFact = NoFact
  NoRow = NoRow
  NoSync = NoSync
  DeletedRev = DeletedRev
SYMMETRY Symmetry
INVARIANTS
  MergeInv
  RowsSurviveSync
  DriftRaised
  MeetingsAccounted
  OpenItemsCloseable
  RejectionSticks
  NoDuplicateProposal
  ExcludedHasNoDraft
  SyncIsIdempotent
  NeverSilentlyDropped
  DecisionsSurviveSync
