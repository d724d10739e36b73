SPECIFICATION Spec
CONSTANTS
  None = None
  Tabs = {t1, t2}
  t1 = t1
  t2 = t2
  Plays <- MCPlays
  MAX_HISTORY = 3
  MAX_DAILY_HISTORY = 1
  LIBRARY_SIZE = 3
  XpMarks <- MCXpMarks
  StreakMarks <- MCStreakMarks
  Legacy <- MCLegacy
  Days = {1, 2, 4}
  MaxRecords = 3
SYMMETRY TabSymmetry
INVARIANTS
  TypeOK
  HistoryIsLog
  DaysAreCounted
  BestIsMax
  BadgesAreEarned
  NewsOnce
PROPERTY StoreGrows

