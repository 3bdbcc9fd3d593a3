SPECIFICATION FairSpec
CONSTANTS
  Rma = {r1}
  Source = {s1}
  RmaOf <- MCRmaOf
  User = {u1}
  MaxErrors = 1
  MaxCrashes = 1
  MaxAnnounced = 2
INVARIANTS
  NoticesFollowReceipt
  AnnouncedOncePerPreparation
PROPERTIES
  ArchivedIsFinal
  ReadIsKept
  PendingIsNotified
  CompletedIsArchived
