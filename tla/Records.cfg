SPECIFICATION Spec
CONSTANTS
  c1 = c1
  c2 = c2
  c3 = c3
  d1 = d1
  d2 = d2
  e1 = e1
  e2 = e2
  Calls <- Three
  Users <- Two
  WalletKeys <- Pair
  Amounts <- MCAmounts
  Opening = 1
  Editors <- Five
  Hosts <- MCReplica
  Reports <- MCReports
  MaxActs = 1
  Groups <- Two
  Replicas <- Pair
  Earlier <- Two
  PlanScopes <- MCScopes
  Stations <- Two
  Hooks <- Two
  Dispatches <- MCDispatches
  Timers <- Pair
  MaxRetries = 1
  Batch = 1
  MaxCycles = 2
  Applying <- Pair
  Tiers <- MCTiers
  Custom <- MCCustom
  PaymentKeys <- MCPaymentKeys
  Subdomains <- MCSubdomains
  Domains <- MCDomains
  MaxOrganizations = 2
  StoredRows <- Two
  Sites <- Pair
SYMMETRY Symmetry
INVARIANTS
  TypeOK
  LedgerExplainsBalance
  ChargedOncePerKey
  OverdrawnByOverlapOnly
  PublishedStands
  FaultsFollowReports
  DecisionIsCurrent
  OneInForce
  InvitedCanJoin
  AttendantFollows
  DeliveryIsAsRecorded
  GrantedAsDecided
\* every call is made once
CHECK_DEADLOCK FALSE
