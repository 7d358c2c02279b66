\* Three rounds and a report in flight: a lapsed round, its replacement and a
\* late report on either; or a visit, a referral and the one that replaces it.
\* The sweep, the clock and the end of every transaction are fair.
SPECIFICATION FairSpec
CONSTANTS
  MaxRounds = 3
  Requests = {q1}
INVARIANTS
  TypeOK
  AtMostOneLiveAssignment
  ResolvedOnSuccess
  InProgressHasOpenLink
  AwaitsNewestReferral
  ReportedRoundStaysReported
PROPERTIES
  DecidedReferralIsFinal
  FollowsLifecycle
  AssignmentEnds
\* A resolved case, its links spent, really stops.
CHECK_DEADLOCK FALSE
