SPECIFICATION FairSpec
CONSTANTS
  o1 = o1
  a1 = a1
  a2 = a2
  Orgs = {o1}
  Accounts = {a1, a2}
  OrgOf <- MCOrgOf
  CloudOf <- MCCloudOf
  Broken = {}
  Deletable = {a2}
  Readers = {r1, r2}
  Mixes <- MCMixes
  None = None
  Horizon = 2
  TTL = 2
  AccountTimeout = 1
  CostsWait = 1
  DiscoveryWait = 1
  RequestLimit = 1
INVARIANTS TypeOK FiguresAreRecent EveryAccountCounted
PROPERTIES ReadEnds
