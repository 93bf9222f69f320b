\* One call, of any kind, and the two retries of the code.
CONSTANTS
  Calls = {c1}
  opnsense = opnsense
  wireguard = wireguard
  Agents = {opnsense, wireguard}
  Requests <- MCRequests
  MaxRetries = 2
  NoRequest = NoRequest
SPECIFICATION FairSpec
INVARIANTS
  TypeOK
  ReportIsHonest
  RetriesWereUnanswered
  LeftoversWereAbandoned
  SearchStopsAtSuccess
PROPERTY CallEnds
CHECK_DEADLOCK FALSE
