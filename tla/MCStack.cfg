SPECIFICATION FairSpec
CONSTANTS
  WakeAttempts = 2
  Margin = 1
  MaxGen = 4
  MaxVersion = 2
  MaxCrashes = 1
  MaxStoreErrors = 1
  MaxNow = 2
INVARIANTS TypeOK NothingLost CopiesAreSound
PROPERTIES PublishedImmutable ImplementsDurableCopy WakeSettles
  HibernationSettles DeadlineWakes DeadlineCarried
