SPECIFICATION MCSpec
CONSTANTS
  Categories = {g1, g2}
  Projects = {p1}
  Keys = {k1, k2}
  NoRow = NoRow
  NoCall = NoCall
  MaxDate = 2
  WeekLength = 2
  DayLength = 2
  DayPlans <- MCDayPlans
  NoPlan = NoPlan
  NoException = NoException
  TemplateKeys <- MCTemplateKeys
  Candidates <- MCCandidates
  CopyKey <- MCCopyKey
  Matrix = "matrix_csv"
  FlatDaily = "flat_daily_csv"
  DetailEntries = "detail_entries_csv"
  TextSummary = "text_summary"
  Bodies <- MCBodies
  NoTemplate = NoTemplate
  Days <- MCDays
  MonthStart <- MCMonthStart
  MonthEnd <- MCMonthEnd
  HalfMonth = 3
  Week = 2
  Cadences = {"weekly", "bi-weekly", "semi-monthly", "monthly"}
  EntryIds = {r1, r2}
  WorkCategories = {"work", "other"}
  ReportKeys = {"billed", "Unassigned"}
  KeyOf <- MCKeyOf
  Unassigned = "none"
  MinutesPerDay = 4
  MinBlock = 2
  FirstDate = 0
  LastDate = 1
  Spans <- MCSpans
SYMMETRY Symmetry
INVARIANTS
  Renderable
  PeriodsDisjoint
  ReturnedIsUsable
  ReportsAgree
  AttestedIsReported
PROPERTIES
  DefaultGapStays
  DeleteStripsNothing
  KeepsTimetable
  CopyRendersAlike
CHECK_DEADLOCK FALSE
