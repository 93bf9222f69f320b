\* load_policy and decide: policies of at most three rules, one intention each.
\* The model stops when the policy is refused or the proposals are spent.
CONSTANTS
  get = get
  ban = ban
  other = other
  token = token
  literal = literal
  private = private
  public = public
  Absent = Absent
  Malformed = Malformed
  Names = {get, ban, other}
  Known = {get, ban}
  Keys = {"ip", "ip__scope"}
  AllKeys = {"ip", "ip__scope", "ip__scope__scope"}
  Values = {token, literal, private, public}
  Required <- MCRequired
  ScopeKey <- MCScopeKey
  Scope <- MCScope
  RawPolicies <- MCRawPolicies
  MaxProposals = 1
SPECIFICATION Spec
INVARIANT TypeOK
INVARIANT ServesWholePolicy
INVARIANT FirstMatchDecides
INVARIANT VaultDecidesScope
INVARIANT VerdictsKeepProposals
CHECK_DEADLOCK FALSE
