SPECIFICATION Spec
CONSTANTS
  MaxDisruptions = 2
  MaxRequests = 2
\* An account that is connected, or logged out, waits for its user.
CHECK_DEADLOCK FALSE
INVARIANT TypeOK
INVARIANT NeverAbandoned
INVARIANT DdpFollowsRest
INVARIANT DdpNeverLeads
INVARIANT StuckDdpReplaced
PROPERTY RetryIsAnswered
PROPERTY LogoutEnds
