\* One session over a course of capacity two: two links, two reviews, two corrections.
SPECIFICATION Spec
CONSTANTS
  NoLink = NoLink
  Trainees = {t1, t2}
  Links = {l1, l2}
  Values = {present, absent}
  Capacity = 2
  MaxFiles = 1
  MaxReviews = 2
  MaxCorrections = 2
INVARIANTS TypeOK OneWayIn SheetCoversRoster HistoryExplains
CHECK_DEADLOCK FALSE
