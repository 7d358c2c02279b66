\* Two agents, so that every request meets another one.
SPECIFICATION Spec
CONSTANTS
  Agents = {a1, a2}
  Challenges = {c1}
  Nobody = Nobody
  MaxAttempts = 2
  MaxReferrals = 2
  MaxRevision = 1
  MaxTokens = 2
  \* The agency of the first referral helps, that of the second does not.
  Helping = {1}
INVARIANTS
  TypeOK
  ReportUnderCurrentCode
  ChallengeServesOnce
  LockedAtTheLimit
  OpenLinkIsAwaited
PROPERTIES
  ReferralsFollowTheCase
SYMMETRY Symmetry
\* The last referral, answered or withdrawn, really ends it.
CHECK_DEADLOCK FALSE
