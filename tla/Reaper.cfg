SPECIFICATION ReaperSpec
CONSTANTS
  s1 = s1
  s2 = s2
  Sessions = {s1, s2}
  LegacySessions = {}
  RudeSessions = {}
  MaxPoint = 2
  SyncobjFirst = TRUE
  DrmErrors = FALSE
  FrameLoss = FALSE
INVARIANTS NoEarlyRelease ResolvedOnce WaitFactsMatch PrefixPublishedUnfailed PoisonedForCause
PROPERTIES ImplementsRelease
SYMMETRY SessionSymmetry
CONSTRAINT ChanBound
CHECK_DEADLOCK FALSE
