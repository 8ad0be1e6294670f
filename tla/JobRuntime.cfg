SPECIFICATION FairSpec
CONSTANTS
  l1 = l1
  l2 = l2
  m1 = m1
  invite = invite
  Jobs = {l1, m1}
  Names <- MCNames
  LinkNames <- MCLinkNames
  LinkOf <- MCLinkOf
  NameOf <- MCNameOf
  NameLimit <- MCNameLimit
  LinkJobs <- MCLinkNames
  MemberJobs <- MCMemberJobs
  FullJobs <- MCFullJobs
  Faults <- MCFaults
  MaxRuns = 1
  LinkLimit = 1
  MaxStarts = 1
INVARIANTS
  TypeOK
  SlotsExact
  QuotaFollowsDelivery
  HistoryFollowsDelivery
  EveryRowClosed
PROPERTIES
  FinalIsFinal
  SlotComesBack
CHECK_DEADLOCK FALSE
